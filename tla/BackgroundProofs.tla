-------------------------- MODULE BackgroundProofs --------------------------
(***************************************************************************)
(* Proofs about the work that is done beside the requests: StreamWorker,   *)
(* behind the streams, and Telemetry, in front of them.  The two modules   *)
(* share no variable and no constant.                                      *)
(*                                                                         *)
(* StreamWorker.  The loop of the two stream workers implements Delivery,  *)
(* for any number of workers, entries, anomalies, webhooks, retries,       *)
(* crashes and failures of Redis.  Delivery ends an entry only when one    *)
(* evaluation of it had all its effects, or it was put aside.  The worker  *)
(* knows neither: it keeps what is still to do for one entry and whether   *)
(* something failed.  The invariant IInv says that these notes are true.   *)
(* A second one, Once, follows an entry through the reads: as long as      *)
(* nothing fails it is in one batch at a time and evaluated once.          *)
(*                                                                         *)
(* Telemetry.  The invariant TelemetryIInv says where an event is, from    *)
(* the request that fires it to its place in the counter: in one queue or  *)
(* one batch at a time, in the stream from the push on, counted when it    *)
(* left the batch; and what the phase of the shutdown tells of the queue,  *)
(* the two writers and the audit tasks.                                    *)
(***************************************************************************)
EXTENDS StreamWorker, Telemetry, FiniteSetTheorems, TLAPS

(* The evaluation a worker is busy with is one that was asked for, what it  *)
(* no longer has to do took place or failed, and an entry with a failure is *)
(* acknowledged only from the dead-letter stream.                           *)
Honest(x) ==
    /\ work[x].batch \subseteq 1..last
    /\ work[x].at \in {"act", "bury", "ack"} =>
          /\ work[x].found \in owed[Entry(x)]
          /\ \A t \in work[x].found :
                t \in work[x].todo \/ work[x].errors \/ <<Entry(x), t>> \in reached
    /\ work[x].at = "act" => work[x].todo # {} /\ work[x].todo \subseteq work[x].found
    /\ work[x].at \in {"bury", "ack"} => work[x].todo = {}
    /\ work[x].at = "ack" /\ work[x].errors => Entry(x) \in dead

IInv == TypeOK /\ \A x \in Workers : Honest(x)

-----------------------------------------------------------------------------
LEMMA Bounds ==
    /\ Total \in Nat /\ Count \in Nat \ {0} /\ Attempts \in Nat \ {0}
    /\ MaxCrashes \in Nat /\ MaxFaults \in Nat /\ Effects \subseteq Nat
BY NumbersAssumption, CountAssumption, BoundsAssumption DEF Effects

(* A finite set of numbers that is not empty has a least one: the one with  *)
(* the fewest below it.                                                     *)
LEMMA LeastOK ==
    ASSUME NEW S \in SUBSET Nat, IsFiniteSet(S), S # {}
    PROVE  Least(S) \in S
<1> DEFINE Upto(e) == {d \in S : d <= e}
           T == {Upto(e) : e \in S}
<1>1. T \subseteq SUBSET S /\ T # {}
  OBVIOUS
<1>2. IsWellFoundedOn(StrictSubsetOrdering(S), SUBSET S)
  BY FS_StrictSubsetOrderingWellFounded, FS_FiniteSubsetsOfFinite
<1>3. PICK X \in T : \A Y \in T : ~(<<Y, X>> \in StrictSubsetOrdering(S))
  <2> HIDE DEF T
  <2> QED BY <1>1, <1>2, WFMin
<1>4. PICK e \in S : X = Upto(e) BY <1>3
<1>5. ASSUME NEW f \in S, ~(e <= f) PROVE FALSE
  <2>0. e \in Nat /\ f \in Nat /\ f < e /\ \A d \in S : d \in Nat BY <1>5
  <2>1. Upto(f) \in T /\ Upto(f) \subseteq Upto(e) /\ e \in Upto(e) /\ e \notin Upto(f)
    <3>1. Upto(f) \in T OBVIOUS
    <3>2. \A d \in S : d <= f => d <= e BY <2>0
    <3>3. e <= e /\ ~(e <= f) BY <2>0
    <3> QED BY <3>1, <3>2, <3>3
  <2>2. Upto(f) \in SUBSET S /\ Upto(e) \in SUBSET S /\ Upto(f) # Upto(e) BY <2>1
  <2>3. <<Upto(f), Upto(e)>> \in StrictSubsetOrdering(S)
    <3> HIDE DEF Upto
    <3> QED BY <2>1, <2>2 DEF StrictSubsetOrdering
  <2> QED BY <1>3, <1>4, <2>1, <2>3
<1> QED BY <1>5 DEF Least

(* The entry a worker is busy with, and the effect it tries next.           *)
LEMMA EntryOK ==
    ASSUME TypeOK, NEW x \in Workers, work[x].batch # {}
    PROVE  Entry(x) \in work[x].batch /\ Entry(x) \in Entries
<1>1. work[x].batch \in SUBSET Entries BY DEF TypeOK, WorkRecords
<1>2. IsFiniteSet(Entries) /\ Entries \subseteq Nat BY Bounds, FS_Interval DEF Entries
<1>3. work[x].batch \in SUBSET Nat /\ IsFiniteSet(work[x].batch)
  BY <1>1, <1>2, FS_Subset
<1> QED BY <1>1, <1>3, LeastOK DEF Entry

LEMMA CurrentOK ==
    ASSUME TypeOK, NEW x \in Workers, work[x].todo # {}
    PROVE  Current(x) \in work[x].todo
<1>1. work[x].todo \in SUBSET Effects BY DEF TypeOK, WorkRecords
<1>2. work[x].todo \in SUBSET Nat /\ IsFiniteSet(work[x].todo)
  BY <1>1, Bounds, NumbersAssumption, FS_Subset DEF Effects
<1> QED BY <1>2, LeastOK DEF Current

-----------------------------------------------------------------------------
(* What one step of a worker does to the others.                           *)

(* Nothing outside is taken back.                                           *)
Grows ==
    /\ last <= last' /\ reached \subseteq reached' /\ dead \subseteq dead'
    /\ \A e \in Entries : owed[e] \subseteq owed'[e]

LEMMA Becomes ==
    ASSUME TypeOK, NEW x \in Workers, NEW r \in WorkRecords, Become(x, r)
    PROVE  /\ work' \in [Workers -> WorkRecords]
           /\ work'[x] = r
           /\ \A y \in Workers \ {x} : work'[y] = work[y]
BY DEF TypeOK, Become

LEMMA OthersHonest ==
    ASSUME TypeOK, TypeOK', Grows, NEW y \in Workers, Honest(y), work'[y] = work[y]
    PROVE  Honest(y)'
<1>1. Entry(y)' = Entry(y) BY DEF Entry
<1>2. 1..last \subseteq 1..last' BY DEF TypeOK, Grows
<1>3. work[y].at \in {"act", "bury", "ack"} => Entry(y) \in Entries
  BY EntryOK DEF TypeOK
<1> QED BY <1>1, <1>2, <1>3 DEF Honest, Grows

-----------------------------------------------------------------------------
(* What the commands do to the types of the group.                         *)

GroupTypeOK ==
    /\ last \in 0..added
    /\ pending \in [Names -> SUBSET (1..last)]
    /\ acked \subseteq 1..last /\ dead \subseteq 1..last
    /\ reached \subseteq Entries \X Effects

LEMMA GroupTyped == TypeOK => GroupTypeOK
BY DEF TypeOK, GroupTypeOK

LEMMA DeliveredTyped ==
    ASSUME TypeOK, NEW x \in Workers, Delivered(x), added' = added
    PROVE  /\ GroupTypeOK' /\ last <= last' /\ New \subseteq 1..last'
           /\ UNCHANGED <<acked, reached, dead>>
<1>1. last' \in 0..added /\ last \in Nat /\ last <= last' /\ last' = Newest
  BY Bounds DEF TypeOK, Delivered, Newest
<1>2. New \subseteq 1..last' /\ 1..last \subseteq 1..last'
  BY <1>1 DEF New
<1>3. pending' \in [Names -> SUBSET (1..last')]
  BY <1>2 DEF TypeOK, Delivered
<1> QED BY <1>1, <1>2, <1>3 DEF Delivered, TypeOK, GroupTypeOK, outside

LEMMA ReachedTyped ==
    ASSUME TypeOK, NEW x \in Workers, Reached(x), UNCHANGED added,
           work[x].batch # {}, work[x].todo # {}
    PROVE  /\ GroupTypeOK' /\ reached \subseteq reached' /\ UNCHANGED <<last, acked, dead>>
           /\ <<Entry(x), Current(x)>> \in reached'
<1>1. Entry(x) \in Entries /\ Current(x) \in Effects
  BY EntryOK, CurrentOK DEF TypeOK, WorkRecords
<1> QED BY <1>1 DEF Reached, TypeOK, GroupTypeOK, group

LEMMA BuriedTyped ==
    ASSUME TypeOK, NEW x \in Workers, Buried(x), UNCHANGED added,
           work[x].batch # {}, work[x].batch \subseteq 1..last
    PROVE  GroupTypeOK' /\ dead \subseteq dead' /\ Entry(x) \in dead'
           /\ UNCHANGED <<last, acked, reached>>
<1>1. Entry(x) \in 1..last BY EntryOK
<1> QED BY <1>1 DEF Buried, TypeOK, GroupTypeOK, group

LEMMA AcknowledgedTyped ==
    ASSUME TypeOK, NEW x \in Workers, Acknowledged(x), UNCHANGED added,
           work[x].batch # {}, work[x].batch \subseteq 1..last
    PROVE  GroupTypeOK' /\ UNCHANGED <<last, reached, dead>>
<1>1. Entry(x) \in 1..last BY EntryOK
<1> QED BY <1>1 DEF Acknowledged, TypeOK, GroupTypeOK, outside

(* The notes of a worker decide its types.                                  *)
LEMMA StepTyped ==
    ASSUME TypeOK, NEW x \in Workers, NEW r \in WorkRecords, Become(x, r), GroupTypeOK',
           r.at \in {"act", "bury", "ack"} => r.batch # {},
           UNCHANGED <<settings, added>>, faults' \in 0..MaxFaults, crashes' \in 0..MaxCrashes,
           life' \in [Workers -> 0..crashes'],
           owed' \in [Entries -> SUBSET SUBSET Effects], repeated' \in BOOLEAN
    PROVE  TypeOK'
<1>1. /\ work' \in [Workers -> WorkRecords]
      /\ \A y \in Workers : work'[y].at \in {"act", "bury", "ack"} => work'[y].batch # {}
  BY Becomes DEF TypeOK
<1> QED BY <1>1 DEF TypeOK, GroupTypeOK, settings

(* A step of worker x keeps the invariant if x is honest after it and       *)
(* nothing outside was taken back.                                          *)
LEMMA StepKept ==
    ASSUME IInv, TypeOK', Grows, NEW x \in Workers, NEW r \in WorkRecords, Become(x, r), Honest(x)'
    PROVE  IInv'
<1> SUFFICES ASSUME NEW y \in Workers \ {x} PROVE Honest(y)'
  BY DEF IInv
<1>1. work'[y] = work[y] BY Becomes DEF IInv
<1> QED BY <1>1, OthersHonest DEF IInv

-----------------------------------------------------------------------------
LEMMA InitIInv == Init => IInv
<1> SUFFICES ASSUME Init PROVE IInv OBVIOUS
<1>0. /\ Fresh \in WorkRecords /\ Fresh.at = "start" /\ Fresh.batch = {}
  BY Bounds DEF Fresh, WorkRecords, Places
<1>1. TypeOK
  <2>1. GroupTypeOK BY DEF Init, GroupTypeOK
  <2>2. /\ work \in [Workers -> WorkRecords] /\ added \in 0..Total
        /\ life \in [Workers -> 0..crashes] /\ crashes \in 0..MaxCrashes /\ faults \in 0..MaxFaults
    BY <1>0, Bounds DEF Init
  <2>3. owed \in [Entries -> SUBSET SUBSET Effects] /\ repeated \in BOOLEAN
    BY DEF Init
  <2> QED BY <1>0, <2>1, <2>2, <2>3 DEF Init, TypeOK, GroupTypeOK
<1>2. \A x \in Workers : Honest(x)
  BY <1>0 DEF Init, Honest
<1> QED BY <1>1, <1>2 DEF IInv

(* A producer adds an entry.                                                *)
LEMMA AddStep == IInv /\ Add => IInv'
<1> SUFFICES ASSUME IInv, Add PROVE IInv' OBVIOUS
<1>0. added \in Nat /\ added' = added + 1 /\ added' \in 0..Total /\ last \in 0..added'
  BY Bounds DEF IInv, TypeOK, Add
<1>1. TypeOK'
  BY <1>0 DEF IInv, TypeOK, Add, settings, group, outside, restarts, notes
<1>2. \A x \in Workers : Honest(x)'
  BY DEF IInv, Honest, Add, Entry, group, outside, notes
<1> QED BY <1>1, <1>2 DEF IInv

(* The steps that touch neither Redis nor a webhook: the worker goes on, and *)
(* is busy with no entry.                                                   *)
LEMMA QuietStep ==
    ASSUME IInv, NEW x \in Workers, NEW r \in WorkRecords, Become(x, r),
           r.at \notin {"act", "bury", "ack"}, r.batch \subseteq 1..last',
           UNCHANGED <<settings, added, notes>>, GroupTypeOK', last <= last',
           reached \subseteq reached', dead \subseteq dead',
           faults' \in 0..MaxFaults, crashes' \in 0..MaxCrashes,
           life' \in [Workers -> 0..crashes']
    PROVE  IInv'
<1>1. TypeOK'
  <2>1. owed' \in [Entries -> SUBSET SUBSET Effects] /\ repeated' \in BOOLEAN
    BY DEF IInv, TypeOK, notes
  <2> QED BY <2>1, StepTyped DEF IInv
<1>2. Grows BY DEF Grows, notes
<1>3. Honest(x)' BY Becomes DEF IInv, Honest
<1> QED BY <1>1, <1>2, <1>3, StepKept

(* What those steps have in common when Redis is left alone.                *)
LEMMA Untouched ==
    ASSUME IInv, UNCHANGED <<added, group, outside>>
    PROVE  GroupTypeOK' /\ last' = last /\ reached' = reached /\ dead' = dead
BY GroupTyped DEF IInv, GroupTypeOK, group, outside

LEMMA Settings ==
    ASSUME IInv
    PROVE  /\ faults \in 0..MaxFaults /\ crashes \in 0..MaxCrashes /\ last \in Nat
           /\ life \in [Workers -> 0..crashes] /\ work \in [Workers -> WorkRecords]
           /\ added \in 0..Total /\ owed \in [Entries -> SUBSET SUBSET Effects]
           /\ repeated \in BOOLEAN
           /\ \A x \in Workers : work[x] \in WorkRecords
           /\ 1..last \subseteq Entries
<1>1. last \in 0..added /\ added \in 0..Total BY DEF IInv, TypeOK
<1>2. 1..last \subseteq Entries BY <1>1, Bounds DEF Entries
<1> QED BY <1>1, <1>2 DEF IInv, TypeOK

LEMMA GoneOn ==
    ASSUME NEW w \in WorkRecords, NEW p \in Places
    PROVE  /\ [w EXCEPT !.at = p] \in WorkRecords
           /\ [w EXCEPT !.at = p].at = p
           /\ [w EXCEPT !.at = p].batch = w.batch
           /\ [w EXCEPT !.at = p].found = w.found
           /\ [w EXCEPT !.at = p].todo = w.todo
           /\ [w EXCEPT !.at = p].errors = w.errors
BY DEF WorkRecords

LEMMA FreshOK ==
    ASSUME NEW p \in Places
    PROVE  /\ Fresh \in WorkRecords /\ Fresh.at = "start" /\ Fresh.batch = {}
           /\ [Fresh EXCEPT !.at = p] \in WorkRecords /\ [Fresh EXCEPT !.at = p].at = p
           /\ [Fresh EXCEPT !.at = p].batch = {}
<1>1. Fresh \in WorkRecords /\ Fresh.at = "start" /\ Fresh.batch = {}
  BY Bounds DEF Fresh, WorkRecords, Places
<1> QED BY <1>1, GoneOn

LEMMA GotoStep ==
    ASSUME IInv, NEW x \in Workers, NEW p \in {"idle", "rest", "dead"}, Goto(x, p),
           UNCHANGED <<settings, added, group, outside, restarts, notes>>,
           faults' \in 0..MaxFaults
    PROVE  IInv'
<1> DEFINE r == [work[x] EXCEPT !.at = p]
<1>1. r \in WorkRecords /\ r.at = p /\ r.batch = work[x].batch
  <2>1. p \in Places /\ work[x] \in WorkRecords BY Settings DEF Places
  <2> QED BY <2>1, GoneOn
<1>2. Become(x, r) BY DEF Goto
<1>3. r.batch \subseteq 1..last' /\ life' = life /\ crashes' = crashes
  BY <1>1, Untouched DEF IInv, Honest, restarts
<1> HIDE DEF r
<1> QED BY <1>1, <1>2, <1>3, Untouched, Settings, QuietStep

LEMMA ReadPendingStep ==
    ASSUME IInv, NEW x \in Workers, ReadPending(x)
    PROVE  IInv'
<1> DEFINE r == [work[x] EXCEPT !.at = "read", !.batch = Pending(x)]
<1>1. Pending(x) \subseteq 1..last
  <2>1. NameOf(x) \in Names
    <3>1. life[x] \in 0..MaxCrashes /\ 0 \in 0..MaxCrashes
      BY Settings, Bounds
    <3> QED BY <3>1 DEF NameOf, Names
  <2> QED BY <2>1 DEF IInv, TypeOK, Pending
<1>2. 1..last \subseteq Entries BY Settings
<1>3. r \in WorkRecords /\ r.at = "read" /\ r.batch = Pending(x)
  BY <1>1, <1>2, Settings DEF WorkRecords, Places
<1>4. Become(x, r) /\ UNCHANGED <<settings, added, group, outside, restarts, faults, notes>>
  BY DEF ReadPending
<1> HIDE DEF r
<1> QED
  BY <1>1, <1>3, <1>4, Untouched, Settings, QuietStep DEF restarts

LEMMA ReadNewStep ==
    ASSUME IInv, NEW x \in Workers, ReadNew(x)
    PROVE  IInv'
<1> DEFINE r == [work[x] EXCEPT !.at = "next", !.batch = work[x].batch \cup New]
<1>1. /\ GroupTypeOK' /\ last <= last' /\ New \subseteq 1..last'
      /\ reached' = reached /\ dead' = dead
  BY DeliveredTyped DEF ReadNew, IInv
<1>2. work[x].batch \subseteq 1..last' /\ 1..last' \subseteq Entries
  <2>1. last' \in 0..added /\ added \in 0..Total /\ last \in Nat /\ last <= last'
    BY <1>1, Settings DEF GroupTypeOK, ReadNew
  <2>2. 1..last \subseteq 1..last' /\ 1..last' \subseteq Entries
    BY <2>1, Bounds DEF Entries
  <2> QED BY <2>2 DEF IInv, Honest
<1>3. r \in WorkRecords /\ r.at = "next" /\ r.batch \subseteq 1..last'
  BY <1>1, <1>2, Settings DEF WorkRecords, Places
<1>4. Become(x, r) /\ UNCHANGED <<settings, added, restarts, faults, notes>>
  BY DEF ReadNew
<1> HIDE DEF r
<1> QED
  BY <1>1, <1>3, <1>4, Settings, QuietStep DEF restarts

(* A batch that is done, and a process that starts anew.                    *)
LEMMA FinishStep ==
    ASSUME IInv, NEW x \in Workers, Finish(x)
    PROVE  IInv'
<1> DEFINE r == [Fresh EXCEPT !.at = "idle"]
<1>1. r \in WorkRecords /\ r.at = "idle" /\ r.batch \subseteq 1..last'
  BY FreshOK DEF Places
<1>2. Become(x, r) /\ UNCHANGED <<settings, added, group, outside, restarts, faults, notes>>
  BY DEF Finish
<1> HIDE DEF r
<1> QED
  BY <1>1, <1>2, Settings, Untouched, QuietStep DEF restarts

LEMMA CrashStep ==
    ASSUME IInv, NEW x \in Workers, Crash(x)
    PROVE  IInv'
<1>1. crashes' \in 0..MaxCrashes /\ crashes' = crashes + 1
  BY Settings, Bounds DEF Crash
<1>2. life' \in [Workers -> 0..crashes']
  BY <1>1, Settings DEF Crash
<1>3. Fresh \in WorkRecords /\ Fresh.at = "start" /\ Fresh.batch \subseteq 1..last'
  BY FreshOK DEF Places
<1> QED
  BY <1>1, <1>2, <1>3, Settings, Untouched, QuietStep DEF Crash

-----------------------------------------------------------------------------
(* The steps of a worker that is busy with an entry, and stays so.          *)
LEMMA BusyStep ==
    ASSUME IInv, NEW x \in Workers, NEW r \in WorkRecords, Become(x, r),
           r.batch = work[x].batch, r.batch # {}, r.at \in {"act", "bury", "ack"},
           r.found \in owed'[Entry(x)],
           \A t \in r.found : t \in r.todo \/ r.errors \/ <<Entry(x), t>> \in reached',
           r.at = "act" => r.todo # {} /\ r.todo \subseteq r.found,
           r.at \in {"bury", "ack"} => r.todo = {},
           r.at = "ack" /\ r.errors => Entry(x) \in dead',
           UNCHANGED <<settings, added, restarts, last>>, faults' \in 0..MaxFaults,
           GroupTypeOK', Grows,
           owed' \in [Entries -> SUBSET SUBSET Effects], repeated' \in BOOLEAN
    PROVE  IInv'
<1>1. TypeOK'
  <2>1. crashes' \in 0..MaxCrashes /\ life' \in [Workers -> 0..crashes']
    BY Settings DEF restarts
  <2> QED BY <2>1, StepTyped DEF IInv
<1>2. work'[x] = r BY Becomes DEF IInv
<1>3. Entry(x)' = Entry(x) BY <1>2 DEF Entry
<1>4. Honest(x)'
  BY <1>2, <1>3 DEF IInv, Honest
<1> QED BY <1>1, <1>4, StepKept

(* What a worker knows of the entry it is busy with.                        *)
LEMMA Busy ==
    ASSUME IInv, NEW x \in Workers, work[x].at \in {"act", "bury", "ack"}
    PROVE  /\ work[x].batch # {} /\ work[x].batch \subseteq 1..last
           /\ Entry(x) \in work[x].batch /\ Entry(x) \in Entries /\ Entry(x) \in 1..last
           /\ work[x].found \in owed[Entry(x)]
           /\ \A t \in work[x].found :
                 t \in work[x].todo \/ work[x].errors \/ <<Entry(x), t>> \in reached
           /\ work[x].at = "act" =>
                 /\ work[x].todo # {} /\ work[x].todo \subseteq work[x].found
                 /\ Current(x) \in work[x].todo
BY EntryOK, CurrentOK DEF IInv, TypeOK, Honest

LEMMA NextPlace ==
    ASSUME NEW x, NEW todo, NEW errors \in BOOLEAN
    PROVE  /\ After(x, todo, errors) \in {"act", "bury", "ack"}
           /\ After(x, todo, errors) = "act" <=> todo # {}
           /\ After(x, todo, errors) = "ack" => ~errors
BY DEF After

LEMMA EvaluateStep ==
    ASSUME IInv, NEW x \in Workers, Evaluate(x)
    PROVE  IInv'
<1>1. PICK found \in IF kind = "metrics" THEN SUBSET Anomalies ELSE {Webhooks} :
        /\ Become(x, [work[x] EXCEPT !.at = After(x, found, FALSE), !.found = found,
                                     !.todo = found, !.tries = 0, !.errors = FALSE])
        /\ owed' = [owed EXCEPT ![Entry(x)] = @ \cup {found}]
        /\ repeated' = (repeated \/ owed[Entry(x)] # {})
  BY DEF Evaluate
<1> DEFINE r == [work[x] EXCEPT !.at = After(x, found, FALSE), !.found = found,
                                !.todo = found, !.tries = 0, !.errors = FALSE]
<1>2. found \in SUBSET Effects BY DEF Effects
<1>3. /\ r \in WorkRecords /\ r.at = After(x, found, FALSE) /\ r.batch = work[x].batch
      /\ r.found = found /\ r.todo = found /\ r.errors = FALSE
  <2>1. After(x, found, FALSE) \in Places /\ 0 \in 0..(Attempts - 1)
    BY Bounds DEF After, Places
  <2> QED BY <1>2, <2>1, Settings DEF WorkRecords
<1>4. work[x].batch # {} /\ Entry(x) \in Entries
  BY EntryOK DEF Evaluate, IInv
<1>5. /\ owed' \in [Entries -> SUBSET SUBSET Effects] /\ found \in owed'[Entry(x)]
      /\ \A e \in Entries : owed[e] \subseteq owed'[e]
      /\ repeated' \in BOOLEAN
  BY <1>1, <1>2, <1>4, Settings
<1>6. UNCHANGED <<settings, added, group, outside, restarts, faults>>
  BY DEF Evaluate
<1>7. GroupTypeOK' /\ Grows /\ last' = last
  BY <1>5, <1>6, Untouched, Settings DEF Grows
<1>8. Become(x, r) BY <1>1
<1>9. /\ r.at \in {"act", "bury", "ack"} /\ (r.at = "act" <=> r.todo # {}) /\ ~r.errors
  BY <1>3 DEF After
<1> HIDE DEF r
<1> QED BY <1>3, <1>4, <1>5, <1>6, <1>7, <1>8, <1>9, Settings, BusyStep

(* An effect is done with, whether it took place or failed.                 *)
LEMMA DoneStep ==
    ASSUME IInv, NEW x \in Workers, work[x].at = "act", NEW failed \in BOOLEAN, Done(x, failed),
           failed \/ <<Entry(x), Current(x)>> \in reached',
           UNCHANGED <<settings, added, last, dead, restarts, faults, notes>>,
           GroupTypeOK', reached \subseteq reached'
    PROVE  IInv'
<1> DEFINE todo == work[x].todo \ {Current(x)}
           errors == work[x].errors \/ failed
           r == [work[x] EXCEPT !.at = After(x, todo, errors), !.todo = todo,
                                !.tries = 0, !.errors = errors]
<1>1. errors \in BOOLEAN /\ todo \in SUBSET Effects
  BY Settings DEF WorkRecords
<1>2. /\ r \in WorkRecords /\ r.at = After(x, todo, errors) /\ r.batch = work[x].batch
      /\ r.found = work[x].found /\ r.todo = todo /\ r.errors = errors
  <2>1. After(x, todo, errors) \in Places /\ 0 \in 0..(Attempts - 1)
    <3> HIDE DEF todo, errors
    <3> QED BY Bounds DEF After, Places
  <2> HIDE DEF todo, errors
  <2> QED BY <1>1, <2>1, Settings DEF WorkRecords
<1>3. Grows /\ owed' = owed /\ owed \in [Entries -> SUBSET SUBSET Effects] /\ repeated' \in BOOLEAN
  BY Settings DEF Grows, notes
<1>4. \A t \in r.found : t \in r.todo \/ r.errors \/ <<Entry(x), t>> \in reached'
  BY <1>2, Busy
<1>5. r.todo \subseteq r.found /\ r.found \in owed'[Entry(x)] /\ r.batch # {}
  BY <1>2, <1>3, Busy
<1>6. Become(x, r) BY DEF Done
<1>7. /\ r.at \in {"act", "bury", "ack"} /\ (r.at = "act" <=> r.todo # {})
      /\ (r.at = "ack" => ~r.errors)
  <2> HIDE DEF todo, errors
  <2> QED BY <1>1, <1>2, NextPlace
<1>8. faults' \in 0..MaxFaults BY Settings
<1> HIDE DEF r
<1> QED BY <1>2, <1>3, <1>4, <1>5, <1>6, <1>7, <1>8, BusyStep

LEMMA ActStep ==
    ASSUME IInv, NEW x \in Workers, Act(x)
    PROVE  IInv'
<1>1. /\ GroupTypeOK' /\ reached \subseteq reached' /\ UNCHANGED <<last, dead>>
      /\ <<Entry(x), Current(x)>> \in reached'
  BY Busy, ReachedTyped DEF Act, IInv
<1> QED BY <1>1, DoneStep DEF Act

LEMMA WebhookFailsStep ==
    ASSUME IInv, NEW x \in Workers, WebhookFails(x)
    PROVE  IInv'
<1>1. GroupTypeOK' /\ reached \subseteq reached' /\ UNCHANGED <<last, dead>>
  <2>1. CASE Reached(x)
    BY <2>1, Busy, ReachedTyped DEF WebhookFails, IInv
  <2>2. CASE UNCHANGED <<group, outside>>
    BY <2>2, Untouched DEF WebhookFails
  <2> QED BY <2>1, <2>2 DEF WebhookFails
<1>2. CASE work[x].tries < Attempts - 1
  <2> DEFINE r == [work[x] EXCEPT !.tries = work[x].tries + 1]
  <2>1. /\ r \in WorkRecords /\ r.at = work[x].at /\ r.batch = work[x].batch
        /\ r.found = work[x].found /\ r.todo = work[x].todo /\ r.errors = work[x].errors
    <3>1. work[x].tries + 1 \in 0..(Attempts - 1)
      BY <1>2, Bounds, Settings DEF WorkRecords
    <3> QED BY <3>1, Settings DEF WorkRecords
  <2>2. Become(x, r) BY <1>2 DEF WebhookFails
  <2>3. UNCHANGED <<settings, added, restarts, faults, notes>> /\ r.at = "act"
    BY <2>1 DEF WebhookFails
  <2>4. Grows /\ owed' = owed /\ repeated' = repeated
    BY <1>1, <2>3, Settings DEF Grows, notes
  <2> HIDE DEF r
  <2> QED BY <1>1, <2>1, <2>2, <2>3, <2>4, Busy, Settings, BusyStep
<1>3. CASE ~(work[x].tries < Attempts - 1)
  BY <1>1, <1>3, DoneStep DEF WebhookFails
<1> QED BY <1>2, <1>3

LEMMA BuryStep ==
    ASSUME IInv, NEW x \in Workers, Bury(x)
    PROVE  IInv'
<1> DEFINE r == [work[x] EXCEPT !.at = "ack"]
<1>1. /\ r \in WorkRecords /\ r.at = "ack" /\ r.batch = work[x].batch
      /\ r.found = work[x].found /\ r.todo = work[x].todo /\ r.errors = work[x].errors
  <2>1. "ack" \in Places BY DEF Places
  <2> QED BY <2>1, Settings, GoneOn
<1>2. GroupTypeOK' /\ dead \subseteq dead' /\ Entry(x) \in dead' /\ UNCHANGED <<last, reached>>
  BY Busy, BuriedTyped DEF Bury, IInv
<1>3. Become(x, r) /\ UNCHANGED <<settings, added, restarts, faults, notes>>
  BY DEF Bury, Goto
<1>4. Grows /\ owed' = owed /\ repeated' = repeated
  BY <1>2, <1>3, Settings DEF Grows, notes
<1>5. r.todo = {} BY <1>1 DEF IInv, Honest, Bury
<1>6. work[x].at \in {"act", "bury", "ack"} BY DEF Bury
<1> HIDE DEF r
<1> QED BY <1>1, <1>2, <1>3, <1>4, <1>5, <1>6, Busy, Settings, BusyStep

(* An entry is done with.                                                   *)
LEMMA AckStep ==
    ASSUME IInv, NEW x \in Workers, Ack(x)
    PROVE  IInv'
<1> DEFINE r == [work[x] EXCEPT !.at = "next", !.batch = work[x].batch \ {Entry(x)}]
<1>1. /\ r \in WorkRecords /\ r.at = "next" /\ r.batch \subseteq work[x].batch
  BY Settings DEF WorkRecords, Places
<1>2. GroupTypeOK' /\ UNCHANGED <<last, reached, dead>> /\ r.batch \subseteq 1..last'
  BY <1>1, Busy, AcknowledgedTyped DEF Ack, IInv
<1>3. Become(x, r) /\ UNCHANGED <<settings, added, restarts, faults, notes>>
  BY DEF Ack
<1> HIDE DEF r
<1> QED BY <1>1, <1>2, <1>3, Settings, QuietStep DEF restarts

-----------------------------------------------------------------------------
(* A failure of Redis.  The command may have had its effect, and what the   *)
(* worker knew is dropped.                                                  *)
LEMMA RedisFailsStep ==
    ASSUME IInv, NEW x \in Workers, RedisFails(x)
    PROVE  IInv'
<1>0. faults' \in 0..MaxFaults /\ UNCHANGED <<settings, added, restarts, notes>>
  BY Settings, Bounds DEF RedisFails
<1>1. CASE work[x].at = "start" /\ Goto(x, "dead") /\ UNCHANGED <<group, outside>>
  BY <1>0, <1>1, GotoStep
<1>2. CASE /\ Become(x, [Fresh EXCEPT !.at = "rest"])
           /\ \/ UNCHANGED <<group, outside>>
              \/ work[x].at = "read" /\ Delivered(x)
              \/ work[x].at = "act" /\ Reached(x)
              \/ work[x].at = "bury" /\ Buried(x)
              \/ work[x].at = "ack" /\ Acknowledged(x)
  <2>1. GroupTypeOK' /\ last <= last' /\ reached \subseteq reached' /\ dead \subseteq dead'
    <3>1. CASE UNCHANGED <<group, outside>>
      BY <3>1, <1>0, Untouched, Settings
    <3>2. CASE work[x].at = "read" /\ Delivered(x)
      BY <3>2, <1>0, DeliveredTyped DEF IInv
    <3>3. CASE work[x].at = "act" /\ Reached(x)
      <4>1. TypeOK /\ work[x].batch # {} /\ work[x].todo # {}
        BY <3>3, Busy DEF IInv
      <4>2. GroupTypeOK' /\ reached \subseteq reached' /\ UNCHANGED <<last, dead>>
        BY <4>1, <3>3, <1>0, ReachedTyped
      <4> QED BY <4>2, Settings
    <3>4. CASE work[x].at = "bury" /\ Buried(x)
      BY <3>4, <1>0, Busy, BuriedTyped, Settings DEF IInv
    <3>5. CASE work[x].at = "ack" /\ Acknowledged(x)
      BY <3>5, <1>0, Busy, AcknowledgedTyped, Settings DEF IInv
    <3> QED BY <1>2, <3>1, <3>2, <3>3, <3>4, <3>5
  <2> DEFINE r == [Fresh EXCEPT !.at = "rest"]
  <2>2. r \in WorkRecords /\ r.at = "rest" /\ r.batch \subseteq 1..last'
    BY FreshOK DEF Places
  <2>3. Become(x, r) BY <1>2
  <2> HIDE DEF r
  <2> QED BY <1>0, <2>1, <2>2, <2>3, Settings, QuietStep DEF restarts
<1> QED BY <1>1, <1>2 DEF RedisFails

(* Every step preserves the invariant.                                      *)
LEMMA StepIInv == IInv /\ [Next]_vars => IInv'
<1> SUFFICES ASSUME IInv, [Next]_vars PROVE IInv' OBVIOUS
<1>1. CASE Add BY <1>1, AddStep
<1>2. ASSUME NEW x \in Workers, Loop(x) PROVE IInv'
  <2>1. CASE EnsureGroup(x) BY <2>1, Settings, GotoStep DEF EnsureGroup
  <2>2. CASE Wake(x) BY <2>2, Settings, GotoStep DEF Wake
  <2>3. CASE ReadPending(x) \/ ReadNew(x) \/ Evaluate(x) \/ Finish(x)
    BY <2>3, ReadPendingStep, ReadNewStep, EvaluateStep, FinishStep
  <2>4. CASE Act(x) \/ WebhookFails(x) \/ Bury(x) \/ Ack(x)
    BY <2>4, ActStep, WebhookFailsStep, BuryStep, AckStep
  <2> QED BY <1>2, <2>1, <2>2, <2>3, <2>4 DEF Loop
<1>3. ASSUME NEW x \in Workers, RedisFails(x) \/ Crash(x) PROVE IInv'
  BY <1>3, RedisFailsStep, CrashStep
<1>4. CASE UNCHANGED vars
  BY <1>4 DEF vars, settings, group, outside, restarts, notes, IInv, TypeOK, Honest, Entry
<1> QED BY <1>1, <1>2, <1>3, <1>4 DEF Next

LEMMA WorkerInvariant == Spec => []IInv
BY InitIInv, StepIInv, PTL DEF Spec

-----------------------------------------------------------------------------
(* What a worker does is what Delivery allows.                             *)

PromiseStep == [Promise!Next]_(Promise!vars)

LEMMA InitPromise == Init => Promise!Init
BY DEF Init, Promise!Init, Promise!Entries, Entries

(* Nothing that Delivery speaks of changes.                                 *)
LEMMA StutterPromise ==
    ASSUME UNCHANGED <<added, owed, reached, dead, acked>>
    PROVE  PromiseStep
BY DEF PromiseStep, Promise!vars

LEMMA AddPromise ==
    ASSUME Add
    PROVE  PromiseStep
<1>1. Promise!Add BY DEF Add, Promise!Add, group, outside, notes
<1> QED BY <1>1 DEF PromiseStep, Promise!Next

LEMMA EvaluatePromise ==
    ASSUME IInv, NEW x \in Workers, Evaluate(x)
    PROVE  PromiseStep
<1>1. Entry(x) \in 1..last /\ Entry(x) \in Entries
  BY EntryOK DEF Evaluate, IInv, Honest
<1>2. Entry(x) <= added
  <2>1. last \in 0..added /\ added \in Nat BY Settings, Bounds DEF IInv, TypeOK
  <2> QED BY <1>1, <2>1
<1>3. Promise!Evaluate(Entry(x))
  BY <1>2 DEF Evaluate, Promise!Evaluate, Effects, group, outside
<1> QED BY <1>1, <1>3 DEF PromiseStep, Promise!Next, Promise!Entries, Entries

LEMMA ReachPromise ==
    ASSUME IInv, NEW x \in Workers, work[x].at = "act", Reached(x), UNCHANGED <<added, owed>>
    PROVE  PromiseStep
<1>1. Current(x) \in work[x].found /\ work[x].found \in owed[Entry(x)] /\ Entry(x) \in Entries
  BY Busy
<1>2. Promise!Reach(Entry(x))
  BY <1>1 DEF Reached, Promise!Reach, group
<1> QED BY <1>1, <1>2 DEF PromiseStep, Promise!Next, Promise!Entries, Entries

LEMMA BuryPromise ==
    ASSUME IInv, NEW x \in Workers, work[x].at = "bury", Buried(x), UNCHANGED <<added, owed>>
    PROVE  PromiseStep
<1>1. owed[Entry(x)] # {} /\ Entry(x) \in Entries BY Busy
<1>2. Promise!PutAside(Entry(x))
  BY <1>1 DEF Buried, Promise!PutAside, group
<1> QED BY <1>1, <1>2 DEF PromiseStep, Promise!Next, Promise!Entries, Entries

(* An entry that failed is in the dead-letter stream, and of one that did   *)
(* not nothing is left to do.                                               *)
LEMMA AckPromise ==
    ASSUME IInv, NEW x \in Workers, work[x].at = "ack", Acknowledged(x), UNCHANGED <<added, owed>>
    PROVE  PromiseStep
<1>1. Entry(x) \in Entries BY Busy
<1>2. Promise!Settled(Entry(x))
  <2>1. CASE work[x].errors BY <2>1 DEF IInv, Honest, Promise!Settled
  <2>2. CASE ~work[x].errors
    <3>1. work[x].todo = {} BY DEF IInv, Honest
    <3>2. work[x].found \in owed[Entry(x)] /\ \A t \in work[x].found : <<Entry(x), t>> \in reached
      BY <2>2, <3>1, Busy
    <3> QED BY <3>2 DEF Promise!Settled
  <2> QED BY <2>1, <2>2
<1>3. Promise!End(Entry(x))
  BY <1>2 DEF Acknowledged, Promise!End, outside
<1> QED BY <1>1, <1>3 DEF PromiseStep, Promise!Next, Promise!Entries, Entries

LEMMA StepPromise == IInv /\ [Next]_vars => PromiseStep
<1> SUFFICES ASSUME IInv, [Next]_vars PROVE PromiseStep OBVIOUS
<1> USE DEF group, outside, notes
<1>1. CASE Add BY <1>1, AddPromise
<1>2. ASSUME NEW x \in Workers, Loop(x) PROVE PromiseStep
  <2>1. CASE EnsureGroup(x) \/ ReadPending(x) \/ Finish(x) \/ Wake(x)
    BY <2>1, StutterPromise DEF EnsureGroup, ReadPending, Finish, Wake
  <2>2. CASE ReadNew(x)
    BY <2>2, StutterPromise DEF ReadNew, Delivered
  <2>3. CASE Evaluate(x) BY <2>3, EvaluatePromise
  <2>4. CASE Act(x) BY <2>4, ReachPromise DEF Act
  <2>5. CASE WebhookFails(x)
    BY <2>5, ReachPromise, StutterPromise DEF WebhookFails
  <2>6. CASE Bury(x) BY <2>6, BuryPromise DEF Bury
  <2>7. CASE Ack(x) BY <2>7, AckPromise DEF Ack
  <2> QED BY <1>2, <2>1, <2>2, <2>3, <2>4, <2>5, <2>6, <2>7 DEF Loop
<1>3. ASSUME NEW x \in Workers, RedisFails(x) PROVE PromiseStep
  <2>1. UNCHANGED <<added, owed>> BY <1>3 DEF RedisFails
  <2>2. \/ UNCHANGED <<group, outside>>
        \/ Delivered(x)
        \/ work[x].at = "act" /\ Reached(x)
        \/ work[x].at = "bury" /\ Buried(x)
        \/ work[x].at = "ack" /\ Acknowledged(x)
    BY <1>3 DEF RedisFails
  <2>3. CASE UNCHANGED <<group, outside>> BY <2>1, <2>3, StutterPromise
  <2>4. CASE Delivered(x) BY <2>1, <2>4, StutterPromise DEF Delivered
  <2> QED BY <2>1, <2>2, <2>3, <2>4, ReachPromise, BuryPromise, AckPromise
<1>4. ASSUME NEW x \in Workers, Crash(x) PROVE PromiseStep
  BY <1>4, StutterPromise DEF Crash
<1>5. CASE UNCHANGED vars BY <1>5, StutterPromise DEF vars
<1> QED BY <1>1, <1>2, <1>3, <1>4, <1>5 DEF Next

-----------------------------------------------------------------------------
(* As long as nothing fails, what is pending under the name of a process is *)
(* the rest of its batch, so that nothing is read a second time, and of     *)
(* that only the entry it is busy with was evaluated.                       *)
Undisturbed == faults = 0 /\ crashes = 0 /\ naming # "shared"

Tidy(x) ==
    /\ work[x].at \notin {"rest", "dead"}
    /\ work[x].at \in {"start", "idle", "read"} => work[x].batch = {}
    /\ pending[NameOf(x)] = work[x].batch
    /\ \A e \in work[x].batch :
          owed[e] = {} \/ (work[x].at \in {"act", "bury", "ack"} /\ e = Entry(x))

Once ==
    Undisturbed =>
        /\ ~repeated
        /\ \A x \in Workers : Tidy(x)
        /\ \A x, y \in Workers : x # y => work[x].batch \cap work[y].batch = {}
        /\ \A e \in Entries : e > last => owed[e] = {}

LEMMA NamesDiffer ==
    ASSUME IInv, Undisturbed, NEW x \in Workers
    PROVE  NameOf(x) = <<x, 0>> /\ NameOf(x) \in Names
<1>1. life[x] = 0 /\ 0 \in 0..MaxCrashes
  BY Settings, Bounds DEF Undisturbed
<1>2. naming \in {"pid", "own"} BY DEF IInv, TypeOK, Undisturbed
<1> QED BY <1>1, <1>2 DEF NameOf, Names

(* A step of worker x that adds to its batch only what is new.              *)
LEMMA KeepsOnce ==
    ASSUME IInv, Once, Undisturbed, NEW x \in Workers, NEW r \in WorkRecords, Become(x, r),
           UNCHANGED <<settings, restarts>>,
           r.at \notin {"rest", "dead"}, r.at \in {"start", "idle", "read"} => r.batch = {},
           \A y \in Workers :
              pending'[NameOf(y)] = IF y = x THEN r.batch ELSE pending[NameOf(y)],
           last <= last', last' \in Nat,
           \A e \in r.batch : e \in work[x].batch \/ (e \in Entries /\ e > last),
           \A e \in Entries : owed'[e] = owed[e] \/ e \in work[x].batch,
           \A e \in r.batch :
              owed'[e] = {} \/ (r.at \in {"act", "bury", "ack"} /\ e = Least(r.batch)),
           ~repeated'
    PROVE  Once'
<1>1. /\ work' \in [Workers -> WorkRecords] /\ work'[x] = r
      /\ \A y \in Workers \ {x} : work'[y] = work[y]
  BY Becomes DEF IInv
<1>2. /\ \A y \in Workers : Tidy(y) /\ work[y].batch \subseteq 1..last
      /\ \A y, z \in Workers : y # z => work[y].batch \cap work[z].batch = {}
      /\ \A e \in Entries : e > last => owed[e] = {}
      /\ last \in Nat /\ 1..last \subseteq Entries /\ Entries \subseteq Nat
  BY Settings DEF Once, IInv, Honest, Entries
<1>3. \A y \in Workers : NameOf(y)' = NameOf(y)
  BY DEF NameOf, settings, restarts
<1>4. ASSUME NEW y \in Workers PROVE Tidy(y)'
  <2>1. CASE y = x
    BY <2>1, <1>1, <1>3 DEF Tidy, Entry
  <2>2. CASE y # x
    <3>1. work'[y] = work[y] /\ Entry(y)' = Entry(y) BY <2>2, <1>1 DEF Entry
    <3>2. pending'[NameOf(y)'] = pending[NameOf(y)] BY <2>2, <1>3
    <3>3. ASSUME NEW e \in work[y].batch PROVE owed'[e] = owed[e]
      BY <3>3, <2>2, <1>2
    <3> QED BY <3>1, <3>2, <3>3, <1>2 DEF Tidy
  <2> QED BY <2>1, <2>2
<1>5. ASSUME NEW y \in Workers, y # x PROVE r.batch \cap work[y].batch = {}
  <2>1. ASSUME NEW e \in r.batch, e \in work[y].batch PROVE FALSE
    BY <2>1, <1>2, <1>5
  <2> QED BY <2>1
<1>6. \A y, z \in Workers : y # z => work'[y].batch \cap work'[z].batch = {}
  BY <1>1, <1>2, <1>5
<1>7. \A e \in Entries : e > last' => owed'[e] = {}
  BY <1>2
<1> QED BY <1>4, <1>6, <1>7 DEF Once

LEMMA OnceInit == Init => Once
<1> SUFFICES ASSUME Init PROVE Once OBVIOUS
<1>1. \A x \in Workers : work[x] = Fresh /\ work[x].at = "start" /\ work[x].batch = {}
  BY DEF Init, Fresh
<1>2. IInv BY InitIInv
<1>3. ASSUME Undisturbed, NEW x \in Workers PROVE Tidy(x)
  BY <1>1, <1>2, <1>3, NamesDiffer DEF Tidy, Init
<1> QED BY <1>1, <1>3 DEF Once, Init

(* The steps that leave the stream, the group and the notes alone.          *)
LEMMA OnceSame ==
    ASSUME IInv, Once, Undisturbed, NEW x \in Workers, NEW r \in WorkRecords, Become(x, r),
           r.batch = work[x].batch, r.at \notin {"rest", "dead"},
           r.at \in {"start", "idle", "read"} => r.batch = {},
           work[x].at \in {"act", "bury", "ack"} => r.at \in {"act", "bury", "ack"},
           UNCHANGED <<settings, restarts, notes, last, pending>>
    PROVE  Once'
<1>1. Tidy(x) /\ ~repeated BY DEF Once
<1>2. \A y \in Workers : pending'[NameOf(y)] = IF y = x THEN r.batch ELSE pending[NameOf(y)]
  BY <1>1 DEF Tidy
<1>3. \A e \in r.batch :
         owed'[e] = {} \/ (r.at \in {"act", "bury", "ack"} /\ e = Least(r.batch))
  BY <1>1 DEF Tidy, Entry, notes
<1>4. last \in Nat /\ last <= last' /\ last' \in Nat /\ ~repeated'
  BY <1>1, Settings DEF notes
<1>5. \A e \in Entries : owed'[e] = owed[e] BY DEF notes
<1> QED BY <1>2, <1>3, <1>4, <1>5, KeepsOnce

LEMMA OnceRead ==
    ASSUME IInv, Once, Undisturbed, NEW x \in Workers, ReadPending(x) \/ ReadNew(x)
    PROVE  Once'
<1>1. /\ Tidy(x) /\ ~repeated /\ work[x] \in WorkRecords /\ last \in Nat /\ added \in 0..Total
      /\ NameOf(x) \in Names /\ pending \in [Names -> SUBSET (1..last)] /\ last \in 0..added
      /\ \A y \in Workers : NameOf(y) \in Names /\ (y # x => NameOf(y) # NameOf(x))
  BY Settings, NamesDiffer DEF Once, IInv, TypeOK
<1>2. CASE ReadPending(x)
  <2> DEFINE r == [work[x] EXCEPT !.at = "read", !.batch = Pending(x)]
  <2>1. Pending(x) = {} /\ work[x].batch = {} BY <1>1, <1>2 DEF Pending, Tidy, ReadPending
  <2>2. r \in WorkRecords /\ r.at = "read" /\ r.batch = work[x].batch
    BY <1>1, <2>1 DEF WorkRecords, Places
  <2>3. Become(x, r) /\ UNCHANGED <<settings, restarts, notes, last, pending>>
    BY <1>2 DEF ReadPending, group
  <2>4. work[x].at = "idle" BY <1>2 DEF ReadPending
  <2> HIDE DEF r
  <2> QED BY <2>1, <2>2, <2>3, <2>4, OnceSame
<1>3. CASE ReadNew(x)
  <2> DEFINE r == [work[x] EXCEPT !.at = "next", !.batch = work[x].batch \cup New]
  <2>1. work[x].batch = {} /\ pending[NameOf(x)] = {}
    BY <1>1, <1>3 DEF Tidy, ReadNew
  <2>2. /\ last' = Newest /\ last <= last' /\ last' \in Nat /\ New \subseteq Entries
        /\ \A e \in New : e \in Entries /\ e > last
    BY <1>1, <1>3, Bounds DEF ReadNew, Delivered, Newest, New, Entries
  <2>3. r \in WorkRecords /\ r.at = "next" /\ r.batch = New
    BY <1>1, <2>1, <2>2 DEF WorkRecords, Places
  <2>4. \A y \in Workers : pending'[NameOf(y)] = IF y = x THEN New ELSE pending[NameOf(y)]
    BY <1>1, <1>3, <2>1 DEF ReadNew, Delivered
  <2>5. Become(x, r) /\ UNCHANGED <<settings, restarts>> /\ owed' = owed /\ ~repeated'
    BY <1>1, <1>3 DEF ReadNew, notes
  <2>6. \A e \in New : owed[e] = {} BY <2>2 DEF Once
  <2> HIDE DEF r
  <2> QED BY <2>2, <2>3, <2>4, <2>5, <2>6, KeepsOnce
<1> QED BY <1>2, <1>3

LEMMA OnceEvaluate ==
    ASSUME IInv, Once, Undisturbed, NEW x \in Workers, Evaluate(x)
    PROVE  Once'
<1>1. /\ Tidy(x) /\ ~repeated /\ work[x] \in WorkRecords /\ last \in Nat
      /\ work[x].at = "next" /\ work[x].batch # {}
  BY Settings DEF Once, Evaluate
<1>2. Entry(x) \in work[x].batch /\ Entry(x) \in Entries
  BY <1>1, EntryOK DEF IInv
<1>3. PICK found \in IF kind = "metrics" THEN SUBSET Anomalies ELSE {Webhooks} :
        /\ Become(x, [work[x] EXCEPT !.at = After(x, found, FALSE), !.found = found,
                                     !.todo = found, !.tries = 0, !.errors = FALSE])
        /\ owed' = [owed EXCEPT ![Entry(x)] = @ \cup {found}]
        /\ repeated' = (repeated \/ owed[Entry(x)] # {})
  BY DEF Evaluate
<1> DEFINE r == [work[x] EXCEPT !.at = After(x, found, FALSE), !.found = found,
                                !.todo = found, !.tries = 0, !.errors = FALSE]
<1>4. found \subseteq Effects BY <1>3 DEF Effects
<1>5. /\ r \in WorkRecords /\ r.at \in {"act", "ack"} /\ r.batch = work[x].batch
  <2>1. After(x, found, FALSE) \in {"act", "ack"} BY DEF After
  <2>2. 0 \in 0..(Attempts - 1) BY CountAssumption
  <2> QED BY <1>1, <1>4, <2>1, <2>2 DEF WorkRecords, Places
<1>6. /\ Become(x, r) /\ UNCHANGED <<settings, restarts>> /\ last' = last /\ pending' = pending
  BY <1>3 DEF Evaluate, group
<1> HIDE DEF r
<1>7. \A e \in Entries : e # Entry(x) => owed'[e] = owed[e]
  BY <1>2, <1>3, Settings
<1>8. \A e \in work[x].batch : owed[e] = {} /\ e \in Entries
  <2>1. work[x].batch \subseteq Entries BY <1>1 DEF WorkRecords
  <2> QED BY <1>1, <2>1 DEF Tidy
<1>9. ~repeated' BY <1>1, <1>2, <1>3, <1>8
<1>10. \A e \in r.batch :
         owed'[e] = {} \/ (r.at \in {"act", "bury", "ack"} /\ e = Least(r.batch))
  BY <1>5, <1>7, <1>8 DEF Entry
<1>11. \A y \in Workers : pending'[NameOf(y)] = IF y = x THEN r.batch ELSE pending[NameOf(y)]
  BY <1>1, <1>5, <1>6 DEF Tidy
<1>12. \A e \in Entries : owed'[e] = owed[e] \/ e \in work[x].batch BY <1>2, <1>7
<1>13. last <= last' /\ last' \in Nat BY <1>1, <1>6
<1> QED BY <1>5, <1>6, <1>9, <1>10, <1>11, <1>12, <1>13, KeepsOnce

LEMMA OnceAck ==
    ASSUME IInv, Once, Undisturbed, NEW x \in Workers, Ack(x)
    PROVE  Once'
<1> DEFINE r == [work[x] EXCEPT !.at = "next", !.batch = @ \ {Entry(x)}]
<1>1. /\ Tidy(x) /\ ~repeated /\ work[x] \in WorkRecords /\ last \in Nat
      /\ work[x].at = "ack" /\ pending \in [Names -> SUBSET (1..last)]
      /\ \A y \in Workers : NameOf(y) \in Names /\ (y # x => NameOf(y) # NameOf(x))
  BY Settings, NamesDiffer DEF Once, Ack, IInv, TypeOK
<1>2. /\ r \in WorkRecords /\ r.at = "next" /\ r.batch = work[x].batch \ {Entry(x)}
  BY <1>1 DEF WorkRecords, Places
<1>3. /\ Become(x, r) /\ UNCHANGED <<settings, restarts, notes>> /\ last' = last
      /\ pending' = [pending EXCEPT ![NameOf(x)] = @ \ {Entry(x)}]
  BY DEF Ack, Acknowledged
<1>4. \A y \in Workers : pending'[NameOf(y)] = IF y = x THEN r.batch ELSE pending[NameOf(y)]
  BY <1>1, <1>2, <1>3 DEF Tidy
<1> HIDE DEF r
<1>5. \A e \in r.batch : e \in work[x].batch /\ owed'[e] = {}
  BY <1>1, <1>2, <1>3 DEF Tidy, notes
<1>6. last <= last' /\ last' \in Nat /\ ~repeated' /\ owed' = owed
  BY <1>1, <1>3 DEF notes
<1> QED BY <1>2, <1>3, <1>4, <1>5, <1>6, KeepsOnce

(* The steps of the loop, one by one.                                       *)
LEMMA OnceFinish ==
    ASSUME IInv, Once, Undisturbed, NEW x \in Workers, Finish(x)
    PROVE  Once'
<1> DEFINE r == [Fresh EXCEPT !.at = "idle"]
<1>1. r \in WorkRecords /\ r.at = "idle" /\ r.batch = {}
  <2>1. Fresh \in WorkRecords /\ Fresh.batch = {} /\ "idle" \in Places
    BY FreshOK DEF Fresh, Places
  <2> QED BY <2>1 DEF WorkRecords
<1>2. Become(x, r) /\ work[x].at = "next" /\ work[x].batch = {}
  BY DEF Finish
<1>3. UNCHANGED <<settings, restarts, notes, last, pending>>
  BY DEF Finish, group
<1> HIDE DEF r
<1> QED BY <1>1, <1>2, <1>3, OnceSame

LEMMA OnceGoto ==
    ASSUME IInv, Once, Undisturbed, NEW x \in Workers,
           EnsureGroup(x) \/ Bury(x)
    PROVE  Once'
<1>1. work[x] \in WorkRecords /\ Tidy(x) BY Settings DEF Once
<1>2. UNCHANGED <<settings, restarts, notes, last, pending>>
  BY DEF EnsureGroup, Bury, Buried, group
<1>3. CASE EnsureGroup(x)
  <2> DEFINE r == [work[x] EXCEPT !.at = "idle"]
  <2>1. r \in WorkRecords /\ r.at = "idle" /\ r.batch = work[x].batch
    BY <1>1 DEF WorkRecords, Places
  <2>2. Become(x, r) /\ work[x].at = "start" /\ work[x].batch = {}
    BY <1>1, <1>3 DEF EnsureGroup, Goto, Tidy
  <2> HIDE DEF r
  <2> QED BY <1>2, <2>1, <2>2, OnceSame
<1>4. CASE Bury(x)
  <2> DEFINE r == [work[x] EXCEPT !.at = "ack"]
  <2>1. r \in WorkRecords /\ r.at = "ack" /\ r.batch = work[x].batch
    BY <1>1 DEF WorkRecords, Places
  <2>2. Become(x, r) BY <1>4 DEF Bury, Goto
  <2> HIDE DEF r
  <2> QED BY <1>2, <2>1, <2>2, OnceSame
<1> QED BY <1>3, <1>4

LEMMA OnceDone ==
    ASSUME IInv, Once, Undisturbed, NEW x \in Workers, NEW failed \in BOOLEAN, Done(x, failed),
           UNCHANGED <<settings, restarts, notes, last, pending>>
    PROVE  Once'
<1> DEFINE todo == work[x].todo \ {Current(x)}
           errors == work[x].errors \/ failed
           r == [work[x] EXCEPT !.at = After(x, todo, errors), !.todo = todo,
                                !.tries = 0, !.errors = errors]
<1>1. errors \in BOOLEAN /\ todo \in SUBSET Effects
  BY Settings DEF WorkRecords
<1>2. After(x, todo, errors) \in {"act", "bury", "ack"} /\ 0 \in 0..(Attempts - 1)
  <2> HIDE DEF todo, errors
  <2> QED BY Bounds DEF After
<1>3. r \in WorkRecords /\ r.at \in {"act", "bury", "ack"} /\ r.batch = work[x].batch
  <2> HIDE DEF todo, errors
  <2> QED BY <1>1, <1>2, Settings DEF WorkRecords, Places
<1>4. Become(x, r) BY DEF Done
<1> HIDE DEF r
<1> QED BY <1>3, <1>4, OnceSame

LEMMA OnceWebhook ==
    ASSUME IInv, Once, Undisturbed, NEW x \in Workers, Act(x) \/ WebhookFails(x)
    PROVE  Once'
<1>1. work[x].at = "act" /\ UNCHANGED <<settings, restarts, notes, last, pending>>
  BY DEF Act, WebhookFails, Reached, group
<1>2. CASE Act(x) BY <1>1, <1>2, OnceDone DEF Act
<1>3. CASE WebhookFails(x) /\ work[x].tries < Attempts - 1
  <2> DEFINE r == [work[x] EXCEPT !.tries = work[x].tries + 1]
  <2>1. work[x].tries + 1 \in 0..(Attempts - 1)
    BY <1>3, Bounds, Settings DEF WorkRecords
  <2>2. r \in WorkRecords /\ r.at = "act" /\ r.batch = work[x].batch
    BY <1>1, <2>1, Settings DEF WorkRecords
  <2>3. Become(x, r) BY <1>3 DEF WebhookFails
  <2> HIDE DEF r
  <2> QED BY <1>1, <2>2, <2>3, OnceSame
<1>4. CASE WebhookFails(x) /\ ~(work[x].tries < Attempts - 1)
  BY <1>1, <1>4, OnceDone DEF WebhookFails
<1> QED BY <1>2, <1>3, <1>4

LEMMA OnceStep == IInv /\ Once /\ [Next]_vars => Once'
<1> SUFFICES ASSUME IInv, Once, [Next]_vars, Undisturbed' PROVE Once'
  BY DEF Once
<1>0. faults \in Nat /\ crashes \in Nat BY Bounds DEF IInv, TypeOK
<1>1. CASE Add
  <2>1. /\ UNCHANGED <<naming, faults, crashes, work, last, pending, life, owed, repeated>>
    BY <1>1 DEF Add, settings, group, restarts, notes
  <2> QED BY <2>1 DEF Once, Undisturbed, Tidy, NameOf, Entry
<1>2. ASSUME NEW x \in Workers, Loop(x) PROVE Once'
  <2>1. UNCHANGED <<settings, restarts, faults>>
    BY <1>2 DEF Loop, EnsureGroup, ReadPending, ReadNew, Evaluate, Finish, Act,
                WebhookFails, Bury, Ack, Wake
  <2>2. Undisturbed BY <2>1 DEF Undisturbed, settings, restarts
  <2>3. CASE ReadPending(x) \/ ReadNew(x) \/ Evaluate(x) \/ Finish(x)
    BY <2>2, <2>3, OnceRead, OnceEvaluate, OnceFinish
  <2>4. CASE EnsureGroup(x) \/ Bury(x) \/ Act(x) \/ WebhookFails(x) \/ Ack(x)
    BY <2>2, <2>4, OnceGoto, OnceWebhook, OnceAck
  <2>5. ~Wake(x) BY <2>2 DEF Wake, Once, Tidy
  <2> QED BY <1>2, <2>3, <2>4, <2>5 DEF Loop
<1>3. ASSUME NEW x \in Workers, RedisFails(x) \/ Crash(x) PROVE FALSE
  BY <1>0, <1>3 DEF RedisFails, Crash, Undisturbed
<1>4. CASE UNCHANGED vars
  BY <1>4 DEF vars, settings, group, restarts, notes, Once, Undisturbed, Tidy, NameOf, Entry
<1> QED BY <1>1, <1>2, <1>3, <1>4 DEF Next

-----------------------------------------------------------------------------
(* The streams, the dead letters and the notes of the workers keep their    *)
(* types.                                                                   *)
THEOREM WorkersTypeCorrect == Spec => []TypeOK
BY WorkerInvariant, PTL DEF IInv

(* No entry is acknowledged before one evaluation of it had all its         *)
(* effects, or it was dead-lettered, whatever fails and whoever restarts.   *)
THEOREM WorkersDeliver == Spec => DeliversAtLeastOnce
<1>1. Spec => Promise!Spec
  BY InitPromise, StepPromise, WorkerInvariant, PTL DEF Spec, Promise!Spec, PromiseStep
<1> QED BY <1>1 DEF DeliversAtLeastOnce

(* While nothing failed and no process was restarted, no entry is evaluated *)
(* twice, however the loops of the processes are interleaved: what a name   *)
(* has pending is what is left of its batch, so that the read of pending    *)
(* entries that each round begins with finds nothing                        *)
(* (the two reads of consume_stream and of consume_anomalies).              *)
THEOREM EntriesHandledOnce == Spec => []HandledOnce
<1>1. IInv /\ Once => HandledOnce
  BY DEF Once, Undisturbed, HandledOnce
<1>2. Spec => [](IInv /\ Once)
  <2>1. Init => IInv /\ Once BY InitIInv, OnceInit
  <2>2. (IInv /\ Once) /\ [Next]_vars => (IInv /\ Once)' BY StepIInv, OnceStep
  <2> QED BY <2>1, <2>2, PTL DEF Spec
<1> QED BY <1>1, <1>2, PTL

-----------------------------------------------------------------------------
(* Telemetry: where an event is.                                            *)

(* A batch is held only while it is written, and the counter is raised only *)
(* for a batch that is not empty.                                           *)
Shaped ==
    \A p \in Writers :
        /\ job[p].at \in {"none", "new", "get", "done"} => job[p].batch = {}
        /\ job[p].at = "write" => job[p].batch # {}

(* How far the worker and the drain are tells how far the shutdown is: the  *)
(* worker is cancelled first and done before the drain, and behind the      *)
(* drain the queue is empty.                                                *)
Staged ==
    \A g \in Gateways :
        /\ phase[g] # "up" => job[Writer(g)].at \notin {"none", "new", "get"}
        /\ phase[g] \in {"drain", "audit", "gone"} => job[Writer(g)].at = "done"
        /\ job[Main(g)].at \notin {"none", "done"} => phase[g] = "drain"
        /\ phase[g] \in {"wait", "drain", "audit"} => ~crashed[g]
        /\ phase[g] = "loop" => crashed[g]
        /\ phase[g] = "audit" \/ OrderlyEnd(g) => queue[g] = {}

(* An event is in one place: in one queue or one batch, and in the stream   *)
(* when its batch was pushed, not before.                                   *)
Apart ==
    /\ \A g, h \in Gateways : g # h => queue[g] \cap queue[h] = {}
    /\ \A p, q \in Writers : p # q => job[p].batch \cap job[q].batch = {}
    /\ \A g \in Gateways : queue[g] \cap pushed = {}
    /\ \A g \in Gateways, p \in Writers : queue[g] \cap job[p].batch = {}
    /\ \A p \in Writers : job[p].at = "push" => job[p].batch \cap pushed = {}
    /\ \A p \in Writers : job[p].at \in {"read", "write"} => job[p].batch \subseteq pushed

(* No event is lost from sight: what is not settled is still in the queue   *)
(* of its process, or in a batch there that is being pushed.                *)
Holds(p, e) == job[p].at = "push" /\ e \in job[p].batch

Placed ==
    \A e \in fired :
        \/ e \in queue[Home[e]] \/ e \in pushed \cup dropped \cup cut
        \/ Holds(Writer(Home[e]), e) \/ Holds(Main(Home[e]), e)

(* The events in the stream that nobody is going to count any more: the     *)
(* counter, and what a transaction read of it, do not exceed their number.  *)
Passed == {e \in pushed : \A p \in Writers : e \notin job[p].batch}

Counts ==
    /\ usage <= Cardinality(Passed)
    /\ \A p \in Writers : job[p].at = "write" => job[p].seen <= Cardinality(Passed)
    /\ ~hindered => usage = Cardinality(Passed)

(* Without a failure a task is past its row only when the row is there, and *)
(* no task is left behind by a process that went down in the orderly way.   *)
Tasks ==
    /\ failures = 0 => \A g \in Gateways : ~crashed[g]
    /\ failures = 0 => \A a \in Audits : audit[a] \in {"stream", "done"} => a \in rows
    /\ \A a \in Audits : OrderlyEnd(Home[a]) => audit[a] \in {"none", "done"}

-----------------------------------------------------------------------------
LEMMA WritersOK ==
    /\ \A g \in Gateways :
          /\ Writer(g) \in Writers /\ Main(g) \in Writers /\ Writer(g) # Main(g)
          /\ Writer(g)[1] = g /\ Main(g)[1] = g
    /\ \A p \in Writers : p[1] \in Gateways /\ (p = Writer(p[1]) \/ p = Main(p[1]))
BY DEF Writers, Writer, Main

LEMMA HomesOK == \A e \in Events \cup Audits : Home[e] \in Gateways
BY HomeAssumption

(* What the actions put into job[p].                                        *)
LEMMA NewJobsOK ==
    /\ \A at \in {"none", "new", "get", "push", "read", "write", "done"} : Idle(at) \in Jobs
    /\ \A B \in SUBSET Events : Writing(B) \in Jobs
    /\ \A p : AfterBatch(p) \in {Idle("get"), Idle("done")}
    /\ \A at : Idle(at).at = at /\ Idle(at).batch = {} /\ Idle(at).seen = 0
    /\ \A B : Writing(B).at = "push" /\ Writing(B).batch = B /\ Writing(B).seen = 0
BY DEF Idle, Writing, AfterBatch, Jobs

(* The types, without the size of the queues.                               *)
Typed ==
    /\ phase \in [Gateways -> Phases]
    /\ crashed \in [Gateways -> BOOLEAN]
    /\ fired \subseteq Events
    /\ queue \in [Gateways -> SUBSET fired]
    /\ job \in [Writers -> Jobs]
    /\ pushed \subseteq fired
    /\ \A p \in Writers : job[p].batch \subseteq fired
    /\ usage \in Nat
    /\ audit \in [Audits -> {"none", "db", "stream", "done"}]
    /\ rows \subseteq Audits
    /\ failures \in 0..MaxFailures
    /\ dropped \subseteq fired /\ cut \subseteq fired
    /\ hindered \in BOOLEAN

LEMMA RaisedOK ==
    ASSUME Typed, NEW p \in Writers
    PROVE  Raised(p) \in Nat
BY DEF Typed, Jobs, Raised

(* What a writer does is seen at its own place only.                        *)
LEMMA Continued ==
    ASSUME Typed, NEW p \in Writers, NEW j \in Jobs, Continue(p, j)
    PROVE  job' \in [Writers -> Jobs] /\ \A q \in Writers : job'[q] = IF q = p THEN j ELSE job[q]
BY DEF Typed, Continue

LEMMA CancelWorkerTyped ==
    ASSUME Typed, NEW g \in Gateways, CancelWorker(g)
    PROVE  /\ queue' \in [Gateways -> SUBSET fired]
           /\ job' \in [Writers -> Jobs]
           /\ pushed' \subseteq fired /\ cut' \subseteq fired
           /\ \A p \in Writers : job'[p].batch \subseteq fired
           /\ usage' \in Nat /\ hindered' \in BOOLEAN
<1> DEFINE p == Writer(g)
           runs == job[p].at \notin {"none", "new"}
           j == IF runs /\ queue[g] # {} THEN Writing(queue[g]) ELSE Idle("done")
<1>1. p \in Writers /\ queue[g] \subseteq fired /\ fired \subseteq Events BY WritersOK DEF Typed
<1>2. j \in Jobs /\ j.batch \subseteq fired BY <1>1, NewJobsOK
<1>3. Continue(p, j) BY DEF CancelWorker
<1>4. job' \in [Writers -> Jobs] /\ \A q \in Writers : job'[q] = IF q = p THEN j ELSE job[q]
  <2> HIDE DEF j, p
  <2> QED BY <1>1, <1>2, <1>3, Continued
<1>5. queue' \in [Gateways -> SUBSET fired] BY <1>1 DEF CancelWorker, Typed
<1>6. job[p].batch \subseteq fired BY <1>1 DEF Typed
<1>7. pushed' \subseteq fired /\ cut' \subseteq fired /\ hindered' \in BOOLEAN
  BY <1>6 DEF CancelWorker, Typed
<1>8. usage' \in Nat BY <1>1, RaisedOK DEF CancelWorker, Typed
<1>9. \A q \in Writers : job'[q].batch \subseteq fired
  <2> HIDE DEF j, p
  <2> QED BY <1>2, <1>4 DEF Typed
<1> QED BY <1>4, <1>5, <1>7, <1>8, <1>9

LEMMA TypedStep ==
    ASSUME Typed, [TelemetryNext]_telemetryVars
    PROVE  Typed'
<1> USE DEF Typed, stores, losses
<1>1. CASE UNCHANGED telemetryVars BY <1>1 DEF telemetryVars
<1>2. ASSUME NEW e \in Events, Fire(e) PROVE Typed'
  <2>1. Home[e] \in Gateways /\ Writer(Home[e]) \in Writers BY HomesOK, WritersOK
  <2>2. job' \in [Writers -> Jobs] /\ \A p \in Writers : job'[p].batch = job[p].batch
    <3>1. CASE job[Writer(Home[e])].at = "none"
      <4>1. job' = [job EXCEPT ![Writer(Home[e])].at = "new"] BY <1>2, <3>1 DEF Fire
      <4> QED BY <2>1, <4>1 DEF Jobs
    <3>2. CASE job[Writer(Home[e])].at # "none" BY <1>2, <3>2 DEF Fire
    <3> QED BY <3>1, <3>2
  <2>3. queue' \in [Gateways -> SUBSET fired'] BY <1>2, <2>1 DEF Fire
  <2> QED BY <1>2, <2>2, <2>3 DEF Fire
<1>3. ASSUME NEW a \in Audits, Audit(a) \/ WriteAudit(a) \/ StreamAudit(a) PROVE Typed'
  BY <1>3 DEF Audit, WriteAudit, StreamAudit
<1>4. ASSUME NEW g \in Gateways, Stop(g) PROVE Typed'
  <2>1. CancelWorker(g) BY <1>4 DEF Stop
  <2>2. phase' \in [Gateways -> Phases] BY <1>4 DEF Stop, Phases
  <2>3. audit' \in [Audits -> {"none", "db", "stream", "done"}] /\ rows' \subseteq Audits
    BY <1>4 DEF Stop, CancelAudits
  <2> QED BY <1>4, <2>1, <2>2, <2>3, CancelWorkerTyped DEF Stop
<1>5. ASSUME NEW g \in Gateways, Take(g) PROVE Typed'
  <2>1. Writer(g) \in Writers /\ queue[g] \in SUBSET Events BY WritersOK
  <2>2. Writing(queue[g]) \in Jobs /\ Writing(queue[g]).batch \subseteq fired BY <2>1, NewJobsOK
  <2> QED BY <1>5, <2>1, <2>2, Continued DEF Take
<1>6. ASSUME NEW p \in Writers, Push(p) PROVE Typed'
  <2>1. [job[p] EXCEPT !.at = "read"] \in Jobs /\ [job[p] EXCEPT !.at = "read"].batch = job[p].batch
    BY DEF Jobs
  <2> QED BY <1>6, <2>1, Continued DEF Push
<1>7. ASSUME NEW p \in Writers, ReadUsage(p) PROVE Typed'
  <2> DEFINE j == IF job[p].batch = {} THEN AfterBatch(p)
                  ELSE [job[p] EXCEPT !.at = "write", !.seen = usage]
  <2>1. j \in Jobs /\ j.batch \subseteq fired
    <3>1. job[p] \in Jobs /\ job[p].batch \subseteq fired OBVIOUS
    <3>2. [job[p] EXCEPT !.at = "write", !.seen = usage] \in Jobs BY <3>1 DEF Jobs
    <3>3. [job[p] EXCEPT !.at = "write", !.seen = usage].batch = job[p].batch BY <3>1 DEF Jobs
    <3>4. AfterBatch(p) \in Jobs /\ AfterBatch(p).batch = {} BY NewJobsOK
    <3> QED BY <3>1, <3>2, <3>3, <3>4
  <2>2. Continue(p, j) BY <1>7 DEF ReadUsage
  <2> HIDE DEF j
  <2> QED BY <1>7, <2>1, <2>2, Continued DEF ReadUsage
<1>8. ASSUME NEW p \in Writers, Counted(p)
      PROVE  job' \in [Writers -> Jobs] /\ \A q \in Writers : job'[q].batch \subseteq fired
  <2>1. PICK e \in job[p].batch : Continue(p, [job[p] EXCEPT !.at = "read", !.batch = @ \ {e}])
    BY <1>8 DEF Counted
  <2> DEFINE j == [job[p] EXCEPT !.at = "read", !.batch = @ \ {e}]
  <2>2. j \in Jobs /\ j.batch \subseteq fired
    <3>1. job[p] \in Jobs /\ job[p].batch \subseteq fired OBVIOUS
    <3> QED BY <3>1 DEF Jobs
  <2>3. Continue(p, j) BY <2>1
  <2> HIDE DEF j
  <2> QED BY <2>2, <2>3, Continued
<1>9. ASSUME NEW p \in Writers, WriteUsage(p) PROVE Typed'
  BY <1>9, <1>8, RaisedOK DEF WriteUsage
<1>10. ASSUME NEW g \in Gateways, EndLoop(g) \/ AwaitWorker(g) \/ FlushAudit(g) PROVE Typed'
  BY <1>10 DEF EndLoop, AwaitWorker, FlushAudit, Phases, DrainNext
<1>11. ASSUME NEW g \in Gateways, Drain(g) PROVE Typed'
  <2>1. CASE queue[g] = {} BY <1>11, <2>1 DEF Drain, Phases
  <2>2. CASE queue[g] # {}
    <3>1. PICK e \in queue[g] :
             queue' = [queue EXCEPT ![g] = @ \ {e}] /\ Continue(Main(g), Writing({e})) /\ UNCHANGED phase
      BY <1>11, <2>2 DEF Drain
    <3>2. Main(g) \in Writers /\ Writing({e}) \in Jobs /\ Writing({e}).batch \subseteq fired
      BY <3>1, WritersOK, NewJobsOK
    <3> QED BY <1>11, <3>1, <3>2, Continued DEF Drain
  <2> QED BY <2>1, <2>2
<1>12. ASSUME Fault PROVE Typed'
  <2>1. failures' \in 0..MaxFailures BY <1>12, QueueAssumption DEF Fault
  <2>2. ASSUME NEW p \in Writers, PushFails(p) PROVE Typed'
    <3>1. GivenUp(p) \in Jobs /\ GivenUp(p).batch = {} BY NewJobsOK DEF GivenUp
    <3> QED BY <1>12, <2>1, <2>2, <3>1, Continued DEF Fault, PushFails
  <2>3. ASSUME NEW p \in Writers, UsageFails(p) PROVE Typed'
    BY <1>12, <2>1, <2>3, <1>8, RaisedOK DEF Fault, UsageFails
  <2>4. ASSUME NEW a \in Audits, AuditFails(a) PROVE Typed'
    BY <1>12, <2>1, <2>4 DEF Fault, AuditFails
  <2>5. ASSUME NEW g \in Gateways, WorkerCrashes(g) PROVE Typed'
    BY <1>12, <2>1, <2>5 DEF Fault, WorkerCrashes
  <2> QED BY <1>12, <2>2, <2>3, <2>4, <2>5 DEF Fault
<1> HIDE DEF Typed
<1>13. \A g \in Gateways : Writer(g) \in Writers /\ Main(g) \in Writers BY WritersOK
<1> QED BY <1>1, <1>2, <1>3, <1>4, <1>5, <1>6, <1>7, <1>9, <1>10, <1>11, <1>12, <1>13
        DEF TelemetryNext, Run, Write, Shutdown

(* Only a request puts something into a queue, and only when there is room. *)
LEMMA QueuesShrink ==
    ASSUME Typed, [TelemetryNext]_telemetryVars, ~ \E e \in Events : Fire(e)
    PROVE  \A g \in Gateways : queue'[g] \subseteq queue[g]
<1> USE DEF Typed
<1>1. CASE UNCHANGED telemetryVars BY <1>1 DEF telemetryVars
<1>2. ASSUME NEW g \in Gateways, Stop(g) \/ Take(g) \/ Drain(g)
      PROVE  \A h \in Gateways : queue'[h] \subseteq queue[h]
  BY <1>2 DEF Stop, CancelWorker, Take, Drain
<1>3. ASSUME queue' = queue PROVE \A h \in Gateways : queue'[h] \subseteq queue[h]
  BY <1>3
<1>4. ASSUME NEW a \in Audits, Audit(a) \/ WriteAudit(a) \/ StreamAudit(a) PROVE queue' = queue
  BY <1>4 DEF Audit, WriteAudit, StreamAudit
<1>5. ASSUME NEW p \in Writers, Write(p) PROVE queue' = queue
  BY <1>5 DEF Write, Push, ReadUsage, WriteUsage
<1>6. ASSUME NEW g \in Gateways, EndLoop(g) \/ AwaitWorker(g) \/ FlushAudit(g) PROVE queue' = queue
  BY <1>6 DEF EndLoop, AwaitWorker, FlushAudit
<1>7. ASSUME Fault PROVE queue' = queue BY <1>7 DEF Fault
<1>8. \A g \in Gateways : Writer(g) \in Writers /\ Main(g) \in Writers BY WritersOK
<1> HIDE DEF Typed
<1> QED BY <1>1, <1>2, <1>3, <1>4, <1>5, <1>6, <1>7, <1>8 DEF TelemetryNext, Run, Shutdown

LEMMA FullOK ==
    ASSUME Typed, NEW g \in Gateways
    PROVE  IsFiniteSet(queue[g]) /\ Cardinality(queue[g]) \in Nat
BY FiniteAssumption, FS_Subset, FS_CardinalityType DEF Typed

Bounded == \A g \in Gateways : Cardinality(queue[g]) <= MaxQueue

LEMMA BoundedStep ==
    ASSUME Typed, Bounded, [TelemetryNext]_telemetryVars
    PROVE  Bounded'
<1>1. Typed' BY TypedStep
<1>2. ASSUME ~ \E e \in Events : Fire(e), NEW g \in Gateways
      PROVE  Cardinality(queue'[g]) <= MaxQueue
  <2>1. queue'[g] \subseteq queue[g] BY <1>2, QueuesShrink
  <2>2. Cardinality(queue'[g]) \in Nat /\ Cardinality(queue'[g]) <= Cardinality(queue[g])
    BY <2>1, FullOK, FS_Subset, FS_CardinalityType
  <2> QED BY <2>2, FullOK, QueueAssumption DEF Bounded
<1>3. ASSUME NEW e \in Events, Fire(e), NEW g \in Gateways
      PROVE  Cardinality(queue'[g]) <= MaxQueue
  <2>1. CASE Home[e] = g /\ Room(g)
    <3>1. queue'[g] = queue[g] \cup {e} BY <1>3, <2>1 DEF Fire, Typed
    <3>2. e \notin queue[g] BY <1>3 DEF Fire, Typed
    <3>3. Cardinality(queue'[g]) = Cardinality(queue[g]) + 1
      BY <3>1, <3>2, FullOK, FS_AddElement
    <3>4. Cardinality(queue[g]) < MaxQueue BY <2>1 DEF Room
    <3> QED BY <3>3, <3>4, FullOK, QueueAssumption
  <2>2. CASE ~(Home[e] = g /\ Room(g))
    <3>1. queue'[g] = queue[g]
      BY <1>3, <2>2, HomesOK DEF Fire, Typed
    <3> QED BY <3>1 DEF Bounded
  <2> QED BY <2>1, <2>2
<1> QED BY <1>2, <1>3 DEF Bounded

-----------------------------------------------------------------------------
LEMMA ShapedStep ==
    ASSUME Typed, Shaped, [TelemetryNext]_telemetryVars
    PROVE  Shaped'
<1> USE DEF Typed, Shaped
<1>1. ASSUME NEW p \in Writers, NEW j \in Jobs, Continue(p, j),
             j.at \in {"none", "new", "get", "done"} => j.batch = {},
             j.at = "write" => j.batch # {}
      PROVE  Shaped'
  BY <1>1, Continued
<1>2. ASSUME job' = job PROVE Shaped' BY <1>2
<1>3. ASSUME NEW e \in Events, Fire(e) PROVE Shaped'
  <2>1. Home[e] \in Gateways /\ Writer(Home[e]) \in Writers BY HomesOK, WritersOK
  <2>2. CASE job[Writer(Home[e])].at = "none"
    <3>1. job' = [job EXCEPT ![Writer(Home[e])].at = "new"] BY <1>3, <2>2 DEF Fire
    <3> QED BY <2>1, <2>2, <3>1 DEF Jobs
  <2>3. CASE job[Writer(Home[e])].at # "none" BY <1>2, <1>3, <2>3 DEF Fire
  <2> QED BY <2>2, <2>3
<1>4. ASSUME NEW a \in Audits, Audit(a) \/ WriteAudit(a) \/ StreamAudit(a) PROVE job' = job
  BY <1>4 DEF Audit, WriteAudit, StreamAudit
<1>5. ASSUME NEW g \in Gateways, Stop(g) PROVE Shaped'
  <2> DEFINE runs == job[Writer(g)].at \notin {"none", "new"}
             j == IF runs /\ queue[g] # {} THEN Writing(queue[g]) ELSE Idle("done")
  <2>1. Continue(Writer(g), j) BY <1>5 DEF Stop, CancelWorker
  <2>2. Writer(g) \in Writers /\ queue[g] \in SUBSET Events BY WritersOK
  <2>3. j \in Jobs /\ j.at \in {"push", "done"} /\ (j.at = "done" => j.batch = {})
    BY <2>2, NewJobsOK
  <2> HIDE DEF j
  <2> QED BY <1>1, <2>1, <2>2, <2>3
<1>6. ASSUME NEW g \in Gateways, Take(g) PROVE Shaped'
  <2>1. Writer(g) \in Writers /\ queue[g] \in SUBSET Events BY WritersOK
  <2>2. Writing(queue[g]) \in Jobs /\ Writing(queue[g]).at = "push" BY <2>1, NewJobsOK
  <2> QED BY <1>1, <1>6, <2>1, <2>2 DEF Take
<1>7. ASSUME NEW p \in Writers, Push(p) PROVE Shaped'
  <2>1. [job[p] EXCEPT !.at = "read"] \in Jobs /\ [job[p] EXCEPT !.at = "read"].at = "read"
    BY DEF Jobs
  <2> QED BY <1>1, <1>7, <2>1 DEF Push
<1>8. ASSUME NEW p \in Writers, ReadUsage(p) PROVE Shaped'
  <2>1. CASE job[p].batch = {}
    <3>1. AfterBatch(p) \in Jobs /\ AfterBatch(p).batch = {} /\ AfterBatch(p).at # "write"
      BY NewJobsOK
    <3> QED BY <1>1, <1>8, <2>1, <3>1 DEF ReadUsage
  <2>2. CASE job[p].batch # {}
    <3> DEFINE j == [job[p] EXCEPT !.at = "write", !.seen = usage]
    <3>1. j \in Jobs /\ j.at = "write" /\ j.batch # {} BY <2>2 DEF Jobs
    <3>2. Continue(p, j) BY <1>8, <2>2 DEF ReadUsage
    <3> HIDE DEF j
    <3> QED BY <1>1, <3>1, <3>2
  <2> QED BY <2>1, <2>2
<1>9. ASSUME NEW p \in Writers, Counted(p) PROVE Shaped'
  <2>1. PICK e \in job[p].batch : Continue(p, [job[p] EXCEPT !.at = "read", !.batch = @ \ {e}])
    BY <1>9 DEF Counted
  <2> DEFINE j == [job[p] EXCEPT !.at = "read", !.batch = @ \ {e}]
  <2>2. j \in Jobs /\ j.at = "read" BY DEF Jobs
  <2>3. Continue(p, j) BY <2>1
  <2> HIDE DEF j
  <2> QED BY <1>1, <2>2, <2>3
<1>10. ASSUME NEW g \in Gateways, EndLoop(g) \/ AwaitWorker(g) \/ FlushAudit(g) PROVE job' = job
  BY <1>10 DEF EndLoop, AwaitWorker, FlushAudit
<1>11. ASSUME NEW g \in Gateways, Drain(g) PROVE Shaped'
  <2>1. CASE queue[g] = {} BY <1>2, <1>11, <2>1 DEF Drain
  <2>2. CASE queue[g] # {}
    <3>1. PICK e \in queue[g] : Continue(Main(g), Writing({e})) BY <1>11, <2>2 DEF Drain
    <3>2. Main(g) \in Writers /\ Writing({e}) \in Jobs /\ Writing({e}).at = "push"
      BY <3>1, WritersOK, NewJobsOK
    <3> QED BY <1>1, <3>1, <3>2
  <2> QED BY <2>1, <2>2
<1>12. ASSUME NEW p \in Writers, PushFails(p) PROVE Shaped'
  <2>1. GivenUp(p) \in Jobs /\ GivenUp(p).batch = {} /\ GivenUp(p).at # "write"
    BY NewJobsOK DEF GivenUp
  <2> QED BY <1>1, <1>12, <2>1 DEF PushFails
<1> HIDE DEF Typed, Shaped
<1>13. ASSUME Fault PROVE Shaped'
  BY <1>2, <1>9, <1>12, <1>13 DEF Fault, UsageFails, AuditFails, WorkerCrashes
<1>14. \A g \in Gateways : Writer(g) \in Writers /\ Main(g) \in Writers BY WritersOK
<1>15. CASE UNCHANGED telemetryVars BY <1>2, <1>15 DEF telemetryVars
<1> QED BY <1>2, <1>3, <1>4, <1>5, <1>6, <1>7, <1>8, <1>9, <1>10, <1>11, <1>13, <1>14, <1>15
        DEF TelemetryNext, Run, Write, Shutdown, WriteUsage

-----------------------------------------------------------------------------
(* What the actions do to the writers, their batches and the queues.        *)
Others(p) == \A q \in Writers : q # p => job'[q] = job[q]
OtherQueues(g) == \A h \in Gateways : h # g => queue'[h] = queue[h]

LEMMA FireEffect ==
    ASSUME Typed, NEW e \in Events, Fire(e)
    PROVE  /\ Home[e] \in Gateways
           /\ \A p \in Writers :
                 /\ job'[p].batch = job[p].batch /\ job'[p].seen = job[p].seen
                 /\ \/ job'[p].at = job[p].at
                    \/ p = Writer(Home[e]) /\ job[p].at = "none" /\ job'[p].at = "new"
           /\ OtherQueues(Home[e])
           /\ queue'[Home[e]] \in {queue[Home[e]], queue[Home[e]] \cup {e}}
           /\ e \in queue'[Home[e]] \cup dropped' /\ dropped \subseteq dropped'
<1> USE DEF Typed, OtherQueues
<1>1. Home[e] \in Gateways /\ Writer(Home[e]) \in Writers BY HomesOK, WritersOK
<1>2. \A p \in Writers :
         /\ job'[p].batch = job[p].batch /\ job'[p].seen = job[p].seen
         /\ \/ job'[p].at = job[p].at
            \/ p = Writer(Home[e]) /\ job[p].at = "none" /\ job'[p].at = "new"
  <2>1. CASE job[Writer(Home[e])].at = "none"
    <3>1. job' = [job EXCEPT ![Writer(Home[e])].at = "new"] BY <2>1 DEF Fire
    <3> QED BY <1>1, <2>1, <3>1 DEF Jobs
  <2>2. CASE job[Writer(Home[e])].at # "none" BY <2>2 DEF Fire
  <2> QED BY <2>1, <2>2
<1>3. CASE Room(Home[e]) BY <1>1, <1>2, <1>3 DEF Fire
<1>4. CASE ~Room(Home[e]) BY <1>1, <1>2, <1>4 DEF Fire
<1> QED BY <1>3, <1>4

LEMMA StopEffect ==
    ASSUME Typed, NEW g \in Gateways, Stop(g)
    PROVE  /\ Writer(g) \in Writers
           /\ Others(Writer(g)) /\ OtherQueues(g)
           /\ job'[Writer(g)].at \in {"push", "done"}
           /\ job'[Writer(g)].batch \subseteq queue[g]
           /\ job'[Writer(g)].at = "done" => job'[Writer(g)].batch = {}
           /\ queue'[g] \subseteq queue[g] /\ queue'[g] \cap job'[Writer(g)].batch = {}
           /\ queue[g] \subseteq queue'[g] \cup job'[Writer(g)].batch
<1> DEFINE p == Writer(g)
           runs == job[p].at \notin {"none", "new"}
           j == IF runs /\ queue[g] # {} THEN Writing(queue[g]) ELSE Idle("done")
<1>1. p \in Writers /\ queue[g] \in SUBSET Events BY WritersOK DEF Typed
<1>2. Continue(p, j) BY DEF Stop, CancelWorker
<1>3. j \in Jobs /\ j.at \in {"push", "done"} /\ (j.at = "done" => j.batch = {})
      /\ (runs => j.batch = queue[g]) /\ (~runs => j.batch = {})
  BY <1>1, NewJobsOK
<1>4. queue' = IF runs THEN [queue EXCEPT ![g] = {}] ELSE queue BY DEF Stop, CancelWorker
<1>5. OtherQueues(g) /\ queue'[g] = IF runs THEN {} ELSE queue[g]
  BY <1>4 DEF OtherQueues, Typed
<1>6. Others(p) /\ job'[p] = j
  <2> HIDE DEF j, p
  <2> QED BY <1>1, <1>2, <1>3, Continued DEF Others
<1> HIDE DEF j, runs
<1> QED BY <1>1, <1>3, <1>5, <1>6

LEMMA TakeEffect ==
    ASSUME Typed, NEW g \in Gateways, Take(g)
    PROVE  /\ Writer(g) \in Writers
           /\ Others(Writer(g)) /\ OtherQueues(g)
           /\ job'[Writer(g)].at = "push" /\ job'[Writer(g)].batch = queue[g] /\ queue'[g] = {}
<1>1. Writer(g) \in Writers /\ Writing(queue[g]) \in Jobs BY WritersOK, NewJobsOK DEF Typed
<1>2. Continue(Writer(g), Writing(queue[g])) /\ queue' = [queue EXCEPT ![g] = {}] BY DEF Take
<1> QED BY <1>1, <1>2, Continued, NewJobsOK DEF Typed, Others, OtherQueues

LEMMA PushEffect ==
    ASSUME Typed, NEW p \in Writers, Push(p)
    PROVE  Others(p) /\ job'[p].at = "read" /\ job'[p].batch = job[p].batch
<1>1. [job[p] EXCEPT !.at = "read"] \in Jobs BY DEF Typed, Jobs
<1>2. Others(p) /\ job'[p] = [job[p] EXCEPT !.at = "read"]
  BY <1>1, Continued DEF Push, Others
<1> QED BY <1>2 DEF Typed, Jobs

LEMMA ReadEffect ==
    ASSUME Typed, NEW p \in Writers, ReadUsage(p)
    PROVE  /\ Others(p) /\ job'[p].batch = job[p].batch
           /\ IF job[p].batch = {} THEN job'[p] = AfterBatch(p)
              ELSE job'[p].at = "write" /\ job'[p].seen = usage
<1>1. CASE job[p].batch = {}
  <2>1. AfterBatch(p) \in Jobs /\ AfterBatch(p).batch = {} BY NewJobsOK
  <2>2. Continue(p, AfterBatch(p)) BY <1>1 DEF ReadUsage
  <2> QED BY <1>1, <2>1, <2>2, Continued DEF Others
<1>2. CASE job[p].batch # {}
  <2>1. [job[p] EXCEPT !.at = "write", !.seen = usage] \in Jobs BY DEF Typed, Jobs
  <2>2. Continue(p, [job[p] EXCEPT !.at = "write", !.seen = usage]) BY <1>2 DEF ReadUsage
  <2>3. Others(p) /\ job'[p] = [job[p] EXCEPT !.at = "write", !.seen = usage]
    BY <2>1, <2>2, Continued DEF Others
  <2> QED BY <1>2, <2>3 DEF Typed, Jobs
<1> QED BY <1>1, <1>2

LEMMA CountedEffect ==
    ASSUME Typed, NEW p \in Writers, Counted(p)
    PROVE  /\ Others(p) /\ job'[p].at = "read"
           /\ \E e \in job[p].batch : job'[p].batch = job[p].batch \ {e}
<1>1. PICK e \in job[p].batch : Continue(p, [job[p] EXCEPT !.at = "read", !.batch = @ \ {e}])
  BY DEF Counted
<1>2. [job[p] EXCEPT !.at = "read", !.batch = @ \ {e}] \in Jobs BY DEF Typed, Jobs
<1>3. Others(p) /\ job'[p] = [job[p] EXCEPT !.at = "read", !.batch = @ \ {e}]
  BY <1>1, <1>2, Continued DEF Others
<1> QED BY <1>3 DEF Typed, Jobs

LEMMA DrainEffect ==
    ASSUME Typed, NEW g \in Gateways, Drain(g)
    PROVE  /\ Main(g) \in Writers
           /\ \/ /\ queue[g] = {} /\ queue' = queue /\ job' = job
                 /\ phase' = [phase EXCEPT ![g] = "audit"]
              \/ /\ Others(Main(g)) /\ OtherQueues(g) /\ phase' = phase
                 /\ job'[Main(g)].at = "push"
                 /\ \E e \in queue[g] : job'[Main(g)].batch = {e} /\ queue'[g] = queue[g] \ {e}
<1>1. CASE queue[g] = {} BY <1>1, WritersOK DEF Drain
<1>2. CASE queue[g] # {}
  <2>1. PICK e \in queue[g] :
           queue' = [queue EXCEPT ![g] = @ \ {e}] /\ Continue(Main(g), Writing({e})) /\ UNCHANGED phase
    BY <1>2 DEF Drain
  <2>2. Main(g) \in Writers /\ Writing({e}) \in Jobs BY <2>1, WritersOK, NewJobsOK DEF Typed
  <2>3. Others(Main(g)) /\ job'[Main(g)] = Writing({e}) BY <2>1, <2>2, Continued DEF Others
  <2>4. OtherQueues(g) /\ queue'[g] = queue[g] \ {e} BY <2>1 DEF OtherQueues, Typed
  <2> QED BY <2>1, <2>2, <2>3, <2>4, NewJobsOK
<1> QED BY <1>1, <1>2

LEMMA PushFailsEffect ==
    ASSUME Typed, NEW p \in Writers, PushFails(p)
    PROVE  Others(p) /\ job'[p] = AfterBatch(p) /\ job'[p].batch = {}
<1>1. AfterBatch(p) \in Jobs /\ AfterBatch(p).batch = {} BY NewJobsOK
<1> QED BY <1>1, Continued DEF PushFails, GivenUp, Others

-----------------------------------------------------------------------------
(* An action that leaves the phases, the crashes and the queues, and moves  *)
(* one writer from a place where it is at work, keeps Staged.               *)
LEMMA WriteStaged ==
    ASSUME Typed, Staged, NEW p \in Writers, Others(p),
           job[p].at \in {"push", "read", "write"},
           job'[p].at \in {"read", "write"} \/ job'[p] = AfterBatch(p),
           UNCHANGED <<phase, crashed, queue>>
    PROVE  Staged'
<1>1. PICK g \in Gateways : g = p[1] /\ (p = Writer(g) \/ p = Main(g)) BY WritersOK
<1>2. ASSUME NEW h \in Gateways, Writer(h) # p PROVE job'[Writer(h)] = job[Writer(h)]
  BY <1>2, WritersOK DEF Others
<1>3. ASSUME NEW h \in Gateways, Main(h) # p PROVE job'[Main(h)] = job[Main(h)]
  BY <1>3, WritersOK DEF Others
<1>4. phase[g] # "up" => job'[p].at \in {"read", "write", "done"}
  BY <1>1, NewJobsOK DEF AfterBatch
<1>5. CASE p = Writer(g)
  <2>1. \A h \in Gateways : Main(h) # p /\ (h # g => Writer(h) # p) BY <1>5, WritersOK
  <2>2. phase[g] \notin {"drain", "audit", "gone"} BY <1>5 DEF Staged
  <2> QED BY <1>2, <1>3, <1>4, <1>5, <2>1, <2>2 DEF Staged, OrderlyEnd
<1>6. CASE p = Main(g)
  <2>1. \A h \in Gateways : Writer(h) # p /\ (h # g => Main(h) # p) BY <1>6, WritersOK
  <2>2. phase[g] = "drain" BY <1>6 DEF Staged
  <2> QED BY <1>2, <1>3, <1>4, <1>6, <2>1, <2>2 DEF Staged, OrderlyEnd
<1> QED BY <1>1, <1>5, <1>6

LEMMA StagedStep ==
    ASSUME Typed, Staged, [TelemetryNext]_telemetryVars
    PROVE  Staged'
<1>0. \A g \in Gateways : Writer(g) \in Writers /\ Main(g) \in Writers BY WritersOK
<1>1. ASSUME UNCHANGED <<phase, crashed, queue, job>> PROVE Staged'
  BY <1>1 DEF Staged, OrderlyEnd
<1>2. ASSUME NEW e \in Events, Fire(e) PROVE Staged'
  <2>1. phase[Home[e]] = "up" /\ UNCHANGED <<phase, crashed>> BY <1>2 DEF Fire
  <2>2. \A g \in Gateways :
           /\ phase[g] # "up" => queue'[g] = queue[g] /\ job'[Writer(g)].at = job[Writer(g)].at
           /\ job'[Main(g)].at = job[Main(g)].at
    BY <1>2, <2>1, FireEffect, WritersOK DEF OtherQueues
  <2> QED BY <2>1, <2>2 DEF Staged, OrderlyEnd
<1>3. ASSUME NEW a \in Audits, Audit(a) \/ WriteAudit(a) \/ StreamAudit(a) PROVE Staged'
  BY <1>1, <1>3 DEF Audit, WriteAudit, StreamAudit
<1>4. ASSUME NEW g \in Gateways, Stop(g) PROVE Staged'
  <2>1. /\ phase[g] = "up" /\ crashed' = crashed
        /\ \/ ~crashed[g] /\ phase' = [phase EXCEPT ![g] = "wait"]
           \/ crashed[g] /\ phase' = [phase EXCEPT ![g] = "loop"]
    BY <1>4 DEF Stop
  <2>2. \A h \in Gateways : h # g => phase'[h] = phase[h] BY <2>1 DEF Typed
  <2>3. phase'[g] = IF crashed[g] THEN "loop" ELSE "wait" BY <2>1 DEF Typed
  <2>4. \A h \in Gateways :
           /\ h # g => job'[Writer(h)] = job[Writer(h)] /\ queue'[h] = queue[h]
           /\ job'[Main(h)] = job[Main(h)]
    BY <1>4, StopEffect, WritersOK DEF Others, OtherQueues
  <2>5. job'[Writer(g)].at \in {"push", "done"} BY <1>4, StopEffect
  <2> QED BY <2>1, <2>2, <2>3, <2>4, <2>5 DEF Staged, OrderlyEnd
<1>5. ASSUME NEW g \in Gateways, Take(g) PROVE Staged'
  <2>1. job[Writer(g)].at \in {"new", "get"} /\ UNCHANGED <<phase, crashed>> BY <1>5 DEF Take
  <2>2. phase[g] = "up" BY <2>1 DEF Staged
  <2>3. \A h \in Gateways :
           /\ h # g => job'[Writer(h)] = job[Writer(h)] /\ queue'[h] = queue[h]
           /\ job'[Main(h)] = job[Main(h)]
    BY <1>5, TakeEffect, WritersOK DEF Others, OtherQueues
  <2> QED BY <2>1, <2>2, <2>3 DEF Staged, OrderlyEnd
<1>6. ASSUME NEW p \in Writers, Write(p) PROVE Staged'
  <2>1. CASE Push(p) BY <2>1, WriteStaged, PushEffect DEF Push
  <2>2. CASE ReadUsage(p)
    <3>1. job'[p].at \in {"read", "write"} \/ job'[p] = AfterBatch(p) BY <2>2, ReadEffect
    <3> QED BY <2>2, <3>1, WriteStaged, ReadEffect DEF ReadUsage
  <2>3. CASE WriteUsage(p) BY <2>3, WriteStaged, CountedEffect DEF WriteUsage
  <2> QED BY <1>6, <2>1, <2>2, <2>3 DEF Write
<1>7. ASSUME NEW g \in Gateways, EndLoop(g) PROVE Staged'
  <2>1. /\ phase[g] = "loop" /\ job[Writer(g)].at = "done" /\ UNCHANGED <<crashed, queue, job>>
        /\ phase'[g] = "gone" /\ \A h \in Gateways : h # g => phase'[h] = phase[h]
    BY <1>7 DEF EndLoop, Typed
  <2> QED BY <2>1 DEF Staged, OrderlyEnd
<1>8. ASSUME NEW g \in Gateways, AwaitWorker(g) PROVE Staged'
  <2>1. /\ phase[g] = "wait" /\ job[Writer(g)].at = "done" /\ UNCHANGED <<crashed, queue, job>>
        /\ phase'[g] = "drain" /\ \A h \in Gateways : h # g => phase'[h] = phase[h]
    BY <1>8 DEF AwaitWorker, DrainNext, Typed
  <2> QED BY <2>1 DEF Staged, OrderlyEnd
<1>9. ASSUME NEW g \in Gateways, Drain(g) PROVE Staged'
  <2>1. phase[g] = "drain" /\ job[Main(g)].at \in {"none", "done"} /\ UNCHANGED crashed
    BY <1>9 DEF Drain
  <2>2. CASE /\ queue[g] = {} /\ UNCHANGED <<queue, job>>
             /\ phase' = [phase EXCEPT ![g] = "audit"]
    <3>1. phase'[g] = "audit" /\ \A h \in Gateways : h # g => phase'[h] = phase[h]
      BY <2>2 DEF Typed
    <3> QED BY <2>1, <2>2, <3>1 DEF Staged, OrderlyEnd
  <2>3. CASE Others(Main(g)) /\ OtherQueues(g) /\ UNCHANGED phase
    <3>1. \A h \in Gateways :
             /\ h # g => job'[Main(h)] = job[Main(h)] /\ queue'[h] = queue[h]
             /\ job'[Writer(h)] = job[Writer(h)]
      BY <2>3, WritersOK DEF Others, OtherQueues
    <3> QED BY <2>1, <2>3, <3>1 DEF Staged, OrderlyEnd
  <2> QED BY <1>9, <2>2, <2>3, DrainEffect
<1>10. ASSUME NEW g \in Gateways, FlushAudit(g) PROVE Staged'
  <2>1. /\ phase[g] = "audit" /\ UNCHANGED <<crashed, queue, job>>
        /\ phase'[g] = "gone" /\ \A h \in Gateways : h # g => phase'[h] = phase[h]
    BY <1>10 DEF FlushAudit, Typed
  <2> QED BY <2>1 DEF Staged, OrderlyEnd
<1>11. ASSUME Fault PROVE Staged'
  <2>1. UNCHANGED <<phase, queue>> BY <1>11 DEF Fault
  <2>2. ASSUME NEW p \in Writers, PushFails(p) PROVE Staged'
    <3>1. job[p].at = "push" /\ UNCHANGED crashed BY <2>2 DEF PushFails
    <3> QED BY <2>1, <2>2, <3>1, WriteStaged, PushFailsEffect
  <2>3. ASSUME NEW p \in Writers, UsageFails(p) PROVE Staged'
    <3>1. job[p].at = "write" /\ UNCHANGED crashed /\ Counted(p) BY <2>3 DEF UsageFails
    <3> QED BY <2>1, <2>3, <3>1, WriteStaged, CountedEffect
  <2>4. ASSUME NEW a \in Audits, AuditFails(a) PROVE Staged'
    BY <1>1, <2>1, <2>4 DEF AuditFails
  <2>5. ASSUME NEW g \in Gateways, WorkerCrashes(g) PROVE Staged'
    <3>1. /\ phase[g] = "up" /\ UNCHANGED job
          /\ \A h \in Gateways : h # g => crashed'[h] = crashed[h]
      BY <2>5 DEF WorkerCrashes, Typed
    <3> QED BY <2>1, <3>1 DEF Staged, OrderlyEnd
  <2> QED BY <1>11, <2>2, <2>3, <2>4, <2>5 DEF Fault
<1>12. CASE UNCHANGED telemetryVars BY <1>1, <1>12 DEF telemetryVars
<1> QED BY <1>0, <1>2, <1>3, <1>4, <1>5, <1>6, <1>7, <1>8, <1>9, <1>10, <1>11, <1>12
        DEF TelemetryNext, Run, Shutdown

-----------------------------------------------------------------------------
LEMMA ApartStep ==
    ASSUME Typed, Shaped, Apart, [TelemetryNext]_telemetryVars
    PROVE  Apart'
<1>0. \A g \in Gateways : Writer(g) \in Writers /\ Main(g) \in Writers BY WritersOK
<1>1. ASSUME UNCHANGED <<queue, job, pushed>> PROVE Apart' BY <1>1 DEF Apart
<1>2. ASSUME NEW e \in Events, Fire(e) PROVE Apart'
  <2>1. e \notin fired /\ pushed' = pushed BY <1>2 DEF Fire, stores
  <2>2. /\ \A g \in Gateways : e \notin queue[g]
        /\ \A p \in Writers : e \notin job[p].batch
        /\ e \notin pushed
    BY <2>1 DEF Typed
  <2>3. \A g \in Gateways :
           \/ queue'[g] = queue[g]
           \/ g = Home[e] /\ queue'[g] = queue[g] \cup {e}
    <3>1. queue'[Home[e]] \in {queue[Home[e]], queue[Home[e]] \cup {e}} BY <1>2, FireEffect
    <3>2. \A g \in Gateways : g # Home[e] => queue'[g] = queue[g]
      BY <1>2, FireEffect DEF OtherQueues
    <3>3. queue'[Home[e]] = queue[Home[e]] \/ queue'[Home[e]] = queue[Home[e]] \cup {e}
      BY <3>1
    <3> QED BY <3>2, <3>3
  <2>4. \A p \in Writers :
           /\ job'[p].batch = job[p].batch
           /\ job'[p].at \in {"push", "read", "write"} => job'[p].at = job[p].at
    BY <1>2, FireEffect
  <2> QED BY <2>1, <2>2, <2>3, <2>4 DEF Apart
<1>3. ASSUME NEW a \in Audits, Audit(a) \/ WriteAudit(a) \/ StreamAudit(a) PROVE Apart'
  BY <1>1, <1>3 DEF Audit, WriteAudit, StreamAudit, stores
<1>4. ASSUME NEW g \in Gateways, Stop(g) PROVE Apart'
  <2>1. pushed' = pushed \/ (job[Writer(g)].at = "push" /\ pushed' = pushed \cup job[Writer(g)].batch)
    BY <1>4 DEF Stop, CancelWorker
  <2>2. /\ \A p \in Writers : p # Writer(g) => job'[p] = job[p]
        /\ \A h \in Gateways : h # g => queue'[h] = queue[h]
    BY <1>4, StopEffect DEF Others, OtherQueues
  <2>3. /\ \A h \in Gateways : queue'[h] \subseteq queue[h]
        /\ job'[Writer(g)].batch \subseteq queue[g] /\ job'[Writer(g)].at \in {"push", "done"}
        /\ queue'[g] \cap job'[Writer(g)].batch = {}
    BY <1>4, <2>2, StopEffect
  <2>4. \A h \in Gateways : queue[h] \cap pushed' = {} BY <1>0, <2>1 DEF Apart
  <2>5. \A p \in Writers : p # Writer(g) =>
           /\ job[p].at = "push" => job[p].batch \cap pushed' = {}
           /\ job[p].at \in {"read", "write"} => job[p].batch \subseteq pushed'
    BY <1>0, <2>1 DEF Apart
  <2>6. \A p \in Writers : p # Writer(g) => job'[p].batch \cap job'[Writer(g)].batch = {}
    BY <2>2, <2>3 DEF Apart
  <2>7. \A p, q \in Writers : p # q => job'[p].batch \cap job'[q].batch = {}
    BY <2>2, <2>6 DEF Apart
  <2>8. \A p \in Writers, h \in Gateways : queue'[h] \cap job'[p].batch = {}
    <3> SUFFICES ASSUME NEW p \in Writers, NEW h \in Gateways
                 PROVE  queue'[h] \cap job'[p].batch = {}
      OBVIOUS
    <3>1. CASE p # Writer(g) BY <3>1, <2>2, <2>3 DEF Apart
    <3>2. CASE p = Writer(g) /\ h # g BY <3>2, <2>2, <2>3 DEF Apart
    <3>3. CASE p = Writer(g) /\ h = g BY <3>3, <2>3
    <3> QED BY <3>1, <3>2, <3>3
  <2>9. \A h, k \in Gateways : h # k => queue'[h] \cap queue'[k] = {} BY <2>3 DEF Apart
  <2>10. \A p \in Writers :
           /\ job'[p].at = "push" => job'[p].batch \cap pushed' = {}
           /\ job'[p].at \in {"read", "write"} => job'[p].batch \subseteq pushed'
    BY <2>2, <2>3, <2>4, <2>5
  <2>11. \A h \in Gateways : queue'[h] \cap pushed' = {} BY <2>3, <2>4
  <2> QED BY <2>7, <2>8, <2>9, <2>10, <2>11 DEF Apart
<1>5. ASSUME NEW p \in Writers, Others(p), pushed' = pushed, NEW g \in Gateways, OtherQueues(g),
             job'[p].at = "push", job'[p].batch \subseteq queue[g],
             queue'[g] \subseteq queue[g], queue'[g] \cap job'[p].batch = {}
      PROVE  Apart'
  <2>1. /\ \A q \in Writers : q # p => job'[q] = job[q]
        /\ \A h \in Gateways : h # g => queue'[h] = queue[h]
    BY <1>5 DEF Others, OtherQueues
  <2>2. \A q \in Writers : q # p => job'[q].batch \cap job'[p].batch = {}
    BY <1>5, <2>1 DEF Apart
  <2>3. \A q, r \in Writers : q # r => job'[q].batch \cap job'[r].batch = {}
    BY <2>1, <2>2 DEF Apart
  <2>4. \A h \in Gateways : queue'[h] \subseteq queue[h] BY <1>5, <2>1
  <2>5. \A q \in Writers, h \in Gateways : queue'[h] \cap job'[q].batch = {}
    <3> SUFFICES ASSUME NEW q \in Writers, NEW h \in Gateways
                 PROVE  queue'[h] \cap job'[q].batch = {}
      OBVIOUS
    <3>1. CASE q # p BY <3>1, <2>1, <2>4 DEF Apart
    <3>2. CASE q = p /\ h # g BY <1>5, <3>2, <2>1 DEF Apart
    <3>3. CASE q = p /\ h = g BY <1>5, <3>3
    <3> QED BY <3>1, <3>2, <3>3
  <2>6. \A h, k \in Gateways : h # k => queue'[h] \cap queue'[k] = {} BY <2>4 DEF Apart
  <2>7. job'[p].batch \cap pushed' = {} BY <1>5 DEF Apart
  <2>8. \A q \in Writers :
           /\ job'[q].at = "push" => job'[q].batch \cap pushed' = {}
           /\ job'[q].at \in {"read", "write"} => job'[q].batch \subseteq pushed'
    BY <1>5, <2>1, <2>7 DEF Apart
  <2>9. \A h \in Gateways : queue'[h] \cap pushed' = {} BY <1>5, <2>4 DEF Apart
  <2> QED BY <2>3, <2>5, <2>6, <2>8, <2>9 DEF Apart
<1>6. ASSUME NEW p \in Writers, Others(p), queue' = queue,
             job'[p].batch \subseteq job[p].batch,
             \/ pushed' = pushed
             \/ job[p].at = "push" /\ pushed' = pushed \cup job[p].batch,
             job'[p].at # "push" /\ (job'[p].batch = {} \/ job[p].batch \subseteq pushed')
      PROVE  Apart'
  <2>1. \A q \in Writers : q # p => job'[q] = job[q] BY <1>6 DEF Others
  <2>2. \A q \in Writers : job'[q].batch \subseteq job[q].batch BY <1>6, <2>1
  <2>3. \A q, r \in Writers : q # r => job'[q].batch \cap job'[r].batch = {}
    BY <2>2 DEF Apart
  <2>4. \A q \in Writers, h \in Gateways : queue'[h] \cap job'[q].batch = {}
    BY <1>6, <2>2 DEF Apart
  <2>5. \A h \in Gateways : queue'[h] \cap pushed' = {} BY <1>6 DEF Apart
  <2>6. \A q \in Writers : q # p =>
           /\ job[q].at = "push" => job[q].batch \cap pushed' = {}
           /\ job[q].at \in {"read", "write"} => job[q].batch \subseteq pushed'
    BY <1>6 DEF Apart
  <2>7. \A q \in Writers :
           /\ job'[q].at = "push" => job'[q].batch \cap pushed' = {}
           /\ job'[q].at \in {"read", "write"} => job'[q].batch \subseteq pushed'
    BY <1>6, <2>1, <2>6
  <2> QED BY <1>6, <2>3, <2>4, <2>5, <2>7 DEF Apart
<1>7. ASSUME NEW g \in Gateways, Take(g) PROVE Apart'
  BY <1>5, <1>7, TakeEffect DEF Take, stores
<1>8. ASSUME NEW p \in Writers, Write(p) PROVE Apart'
  <2>1. CASE Push(p)
    <3>1. UNCHANGED queue /\ pushed' = pushed \cup job[p].batch /\ job[p].at = "push"
      BY <2>1 DEF Push
    <3> QED BY <1>6, <2>1, <3>1, PushEffect
  <2>2. CASE ReadUsage(p)
    <3>1. UNCHANGED <<queue, pushed>> /\ job[p].at = "read" BY <2>2 DEF ReadUsage, stores
    <3>2. job[p].batch \subseteq pushed BY <3>1 DEF Apart
    <3>3. job'[p].at # "push" BY <2>2, ReadEffect, NewJobsOK
    <3> QED BY <1>6, <2>2, <3>1, <3>2, <3>3, ReadEffect
  <2>3. CASE WriteUsage(p)
    <3>1. UNCHANGED <<queue, pushed>> /\ job[p].at = "write" /\ Counted(p)
      BY <2>3 DEF WriteUsage
    <3>2. job[p].batch \subseteq pushed BY <3>1 DEF Apart
    <3> QED BY <1>6, <3>1, <3>2, CountedEffect
  <2> QED BY <1>8, <2>1, <2>2, <2>3 DEF Write
<1>9. ASSUME NEW g \in Gateways, EndLoop(g) \/ AwaitWorker(g) \/ FlushAudit(g) PROVE Apart'
  BY <1>1, <1>9 DEF EndLoop, AwaitWorker, FlushAudit, stores
<1>10. ASSUME NEW g \in Gateways, Drain(g) PROVE Apart'
  <2>1. pushed' = pushed BY <1>10 DEF Drain, stores
  <2>2. CASE UNCHANGED <<queue, job>> BY <1>1, <2>1, <2>2
  <2>3. CASE ~UNCHANGED <<queue, job>>
    <3>1. PICK e \in queue[g] : job'[Main(g)].batch = {e} /\ queue'[g] = queue[g] \ {e}
      BY <1>10, <2>3, DrainEffect
    <3>2. job'[Main(g)].batch \subseteq queue[g] /\ queue'[g] \subseteq queue[g]
          /\ queue'[g] \cap job'[Main(g)].batch = {}
      BY <3>1
    <3>3. Others(Main(g)) /\ OtherQueues(g) /\ job'[Main(g)].at = "push"
      BY <1>10, <2>3, DrainEffect
    <3> QED BY <1>0, <1>5, <2>1, <3>2, <3>3
  <2> QED BY <2>2, <2>3
<1>11. ASSUME Fault PROVE Apart'
  <2>1. UNCHANGED queue BY <1>11 DEF Fault
  <2>2. ASSUME NEW p \in Writers, PushFails(p) PROVE Apart'
    <3>1. /\ job[p].at = "push"
          /\ pushed' = pushed \/ pushed' = pushed \cup job[p].batch
      BY <2>2 DEF PushFails
    <3>2. Others(p) /\ job'[p].batch = {} /\ job'[p].at # "push"
      BY <2>2, PushFailsEffect, NewJobsOK
    <3> QED BY <1>6, <2>1, <3>1, <3>2
  <2>3. ASSUME NEW p \in Writers, UsageFails(p) PROVE Apart'
    <3>1. job[p].at = "write" /\ UNCHANGED pushed /\ Counted(p) BY <2>3 DEF UsageFails
    <3>2. job[p].batch \subseteq pushed BY <3>1 DEF Apart
    <3> QED BY <1>6, <2>1, <3>1, <3>2, CountedEffect
  <2>4. ASSUME NEW a \in Audits, AuditFails(a) PROVE Apart'
    BY <1>1, <2>1, <2>4 DEF AuditFails
  <2>5. ASSUME NEW g \in Gateways, WorkerCrashes(g) PROVE Apart'
    BY <1>1, <2>1, <2>5 DEF WorkerCrashes, stores
  <2> QED BY <1>11, <2>2, <2>3, <2>4, <2>5 DEF Fault
<1>12. CASE UNCHANGED telemetryVars BY <1>1, <1>12 DEF telemetryVars, stores
<1> QED BY <1>0, <1>2, <1>3, <1>4, <1>7, <1>8, <1>9, <1>10, <1>11, <1>12
        DEF TelemetryNext, Run, Shutdown

-----------------------------------------------------------------------------
LEMMA PlacedStep ==
    ASSUME Typed, Placed, [TelemetryNext]_telemetryVars
    PROVE  Placed'
<1>0. \A g \in Gateways : Writer(g) \in Writers /\ Main(g) \in Writers BY WritersOK
<1>1. \A e \in fired : Home[e] \in Gateways BY HomesOK DEF Typed
<1>2. ASSUME UNCHANGED <<fired, queue, job, pushed, dropped, cut>> PROVE Placed'
  BY <1>2 DEF Placed, Holds
(* An action of a writer: the queues stay, and what it pushed is settled.   *)
<1>3. ASSUME NEW p \in Writers, Others(p), UNCHANGED <<fired, queue, dropped>>,
             pushed \subseteq pushed', cut \subseteq cut',
             job[p].at = "push" => job[p].batch \subseteq pushed' \cup cut'
      PROVE  Placed'
  <2>1. \A e \in fired, q \in Writers :
           Holds(q, e) => job'[q] = job[q] \/ e \in pushed' \cup cut'
    BY <1>3 DEF Others, Holds
  <2>2. \A e \in fired, q \in Writers :
           Holds(q, e) => Holds(q, e)' \/ e \in pushed' \cup cut'
    BY <2>1 DEF Holds
  <2> HIDE DEF Holds
  <2> QED BY <1>0, <1>1, <1>3, <2>2 DEF Placed
(* An action that moves events from a queue to a batch of the same process. *)
<1>4. ASSUME NEW g \in Gateways, NEW p \in {Writer(g), Main(g)}, Others(p), OtherQueues(g),
             UNCHANGED <<fired, dropped>>, pushed \subseteq pushed', cut \subseteq cut',
             job[p].at = "push" => job[p].batch \subseteq cut',
             job'[p].at = "push" \/ job'[p].batch = {},
             queue[g] \subseteq queue'[g] \cup job'[p].batch
      PROVE  Placed'
  <2>1. ASSUME NEW e \in fired, NEW q \in Writers, Holds(q, e)
        PROVE  Holds(q, e)' \/ e \in cut'
    <3>1. CASE q = p BY <1>4, <2>1, <3>1 DEF Holds
    <3>2. CASE q # p BY <1>4, <2>1, <3>2 DEF Holds, Others
    <3> QED BY <3>1, <3>2
  <2>2. ASSUME NEW e \in fired, e \in queue[Home[e]]
        PROVE  e \in queue'[Home[e]] \/ Holds(Writer(Home[e]), e)' \/ Holds(Main(Home[e]), e)'
    <3>1. CASE Home[e] = g BY <1>4, <2>2, <3>1 DEF Holds
    <3>2. CASE Home[e] # g BY <1>1, <1>4, <2>2, <3>2 DEF OtherQueues
    <3> QED BY <3>1, <3>2
  <2> HIDE DEF Holds
  <2> QED BY <1>0, <1>1, <1>4, <2>1, <2>2 DEF Placed
<1>5. ASSUME NEW e \in Events, Fire(e) PROVE Placed'
  <2>1. fired' = fired \cup {e} /\ UNCHANGED <<pushed, cut>> BY <1>5 DEF Fire, stores
  <2>2. e \in queue'[Home[e]] \cup dropped' /\ dropped \subseteq dropped' BY <1>5, FireEffect
  <2>3. \A g \in Gateways : queue[g] \subseteq queue'[g]
    <3>1. queue'[Home[e]] \in {queue[Home[e]], queue[Home[e]] \cup {e}} BY <1>5, FireEffect
    <3>2. \A g \in Gateways : g # Home[e] => queue'[g] = queue[g]
      BY <1>5, FireEffect DEF OtherQueues
    <3> QED BY <3>1, <3>2
  <2>4. \A p \in Writers :
           /\ job'[p].batch = job[p].batch
           /\ job[p].at = "push" => job'[p].at = "push"
    BY <1>5, FireEffect
  <2>5. \A d \in fired, p \in Writers : Holds(p, d) => Holds(p, d)' BY <2>4 DEF Holds
  <2> HIDE DEF Holds
  <2> QED BY <1>0, <1>1, <2>1, <2>2, <2>3, <2>5 DEF Placed
<1>6. ASSUME NEW a \in Audits, Audit(a) \/ WriteAudit(a) \/ StreamAudit(a) PROVE Placed'
  BY <1>2, <1>6 DEF Audit, WriteAudit, StreamAudit, stores, losses
<1>7. ASSUME NEW g \in Gateways, Stop(g) PROVE Placed'
  <2>1. UNCHANGED <<fired, dropped>> BY <1>7 DEF Stop
  <2>2. pushed \subseteq pushed' /\ cut \subseteq cut'
        /\ (job[Writer(g)].at = "push" => job[Writer(g)].batch \subseteq cut')
    BY <1>7 DEF Stop, CancelWorker
  <2>3. /\ Others(Writer(g)) /\ OtherQueues(g)
        /\ job'[Writer(g)].at = "push" \/ job'[Writer(g)].batch = {}
        /\ queue[g] \subseteq queue'[g] \cup job'[Writer(g)].batch
    BY <1>7, StopEffect
  <2> QED BY <1>4, <2>1, <2>2, <2>3
<1>8. ASSUME NEW g \in Gateways, Take(g) PROVE Placed'
  <2>1. UNCHANGED <<fired, pushed, dropped, cut>> /\ job[Writer(g)].at # "push"
    BY <1>8 DEF Take, stores, losses
  <2> QED BY <1>4, <1>8, <2>1, TakeEffect
<1>9. ASSUME NEW p \in Writers, Write(p) PROVE Placed'
  <2>1. CASE Push(p) BY <1>3, <2>1, PushEffect DEF Push, losses
  <2>2. CASE ReadUsage(p) BY <1>3, <2>2, ReadEffect DEF ReadUsage, stores, losses
  <2>3. CASE WriteUsage(p) BY <1>3, <2>3, CountedEffect DEF WriteUsage
  <2> QED BY <1>9, <2>1, <2>2, <2>3 DEF Write
<1>10. ASSUME NEW g \in Gateways, EndLoop(g) \/ AwaitWorker(g) \/ FlushAudit(g) PROVE Placed'
  BY <1>2, <1>10 DEF EndLoop, AwaitWorker, FlushAudit, stores, losses
<1>11. ASSUME NEW g \in Gateways, Drain(g) PROVE Placed'
  <2>1. UNCHANGED <<fired, pushed, dropped, cut>> /\ job[Main(g)].at # "push"
    BY <1>11 DEF Drain, stores, losses
  <2>2. CASE UNCHANGED <<queue, job>> BY <1>2, <2>1, <2>2
  <2>3. CASE ~UNCHANGED <<queue, job>>
    <3>1. PICK e \in queue[g] : job'[Main(g)].batch = {e} /\ queue'[g] = queue[g] \ {e}
      BY <1>11, <2>3, DrainEffect
    <3>2. queue[g] \subseteq queue'[g] \cup job'[Main(g)].batch BY <3>1
    <3>3. Others(Main(g)) /\ OtherQueues(g) /\ job'[Main(g)].at = "push"
      BY <1>11, <2>3, DrainEffect
    <3> QED BY <1>4, <2>1, <3>2, <3>3
  <2> QED BY <2>2, <2>3
<1>12. ASSUME Fault PROVE Placed'
  <2>1. UNCHANGED <<fired, queue, dropped>> BY <1>12 DEF Fault
  <2>2. ASSUME NEW p \in Writers, PushFails(p) PROVE Placed'
    <3>1. pushed \subseteq pushed' /\ cut' = cut \cup job[p].batch BY <2>2 DEF PushFails
    <3> QED BY <1>3, <2>1, <2>2, <3>1, PushFailsEffect
  <2>3. ASSUME NEW p \in Writers, UsageFails(p) PROVE Placed'
    BY <1>3, <2>1, <2>3, CountedEffect DEF UsageFails
  <2>4. ASSUME NEW a \in Audits, AuditFails(a) PROVE Placed'
    BY <1>2, <2>1, <2>4 DEF AuditFails
  <2>5. ASSUME NEW g \in Gateways, WorkerCrashes(g) PROVE Placed'
    BY <1>2, <2>1, <2>5 DEF WorkerCrashes, stores
  <2> QED BY <1>12, <2>2, <2>3, <2>4, <2>5 DEF Fault
<1>13. CASE UNCHANGED telemetryVars BY <1>2, <1>13 DEF telemetryVars, stores, losses
<1> QED BY <1>0, <1>5, <1>6, <1>7, <1>8, <1>9, <1>10, <1>11, <1>12, <1>13
        DEF TelemetryNext, Run, Shutdown

-----------------------------------------------------------------------------
LEMMA PassedOK ==
    /\ Typed => IsFiniteSet(Passed) /\ Cardinality(Passed) \in Nat
    /\ Typed' => IsFiniteSet(Passed') /\ Cardinality(Passed') \in Nat
<1>1. Typed => Passed \subseteq Events BY DEF Passed, Typed
<1>2. Typed' => Passed' \subseteq Events BY DEF Passed, Typed
<1> QED BY <1>1, <1>2, FiniteAssumption, FS_Subset, FS_CardinalityType

(* The counter is right after an action when it counts what the action      *)
(* added, and what a transaction read is what it read before, or the        *)
(* counter.                                                                 *)
LEMMA CountsKept ==
    ASSUME Typed, Typed', Counts, Passed \subseteq Passed',
           \A p \in Writers : job'[p].at = "write" =>
              \/ job[p].at = "write" /\ job'[p].seen = job[p].seen
              \/ job'[p].seen = usage,
           usage' = usage \/ usage' <= Cardinality(Passed'),
           ~hindered' => usage' = Cardinality(Passed')
    PROVE  Counts'
<1>1. Cardinality(Passed) \in Nat /\ Cardinality(Passed') \in Nat /\ IsFiniteSet(Passed')
  BY PassedOK
<1>2. Cardinality(Passed) <= Cardinality(Passed') BY <1>1, FS_Subset
<1>3. usage \in Nat /\ usage' \in Nat /\ \A p \in Writers : job[p].seen \in Nat /\ job'[p].seen \in Nat
  BY DEF Typed, Jobs
<1>4. usage' <= Cardinality(Passed') BY <1>1, <1>2, <1>3 DEF Counts
<1>5. ASSUME NEW p \in Writers, job'[p].at = "write" PROVE job'[p].seen <= Cardinality(Passed')
  <2>1. job'[p].seen <= Cardinality(Passed) BY <1>5 DEF Counts
  <2> QED BY <1>1, <1>2, <1>3, <2>1
<1> QED BY <1>4, <1>5 DEF Counts

(* One event less in a batch that is counted is one more that is passed.    *)
LEMMA CountedOne ==
    ASSUME Typed, Typed', Apart, NEW p \in Writers, job[p].at = "write", Counted(p), pushed' = pushed
    PROVE  Passed \subseteq Passed' /\ Cardinality(Passed') = Cardinality(Passed) + 1
<1>1. PICK e \in job[p].batch : job'[p].batch = job[p].batch \ {e} BY CountedEffect
<1>2. \A q \in Writers : q # p => job'[q].batch = job[q].batch /\ e \notin job[q].batch
  BY <1>1, CountedEffect DEF Others, Apart
<1>3. e \in pushed /\ e \notin Passed BY <1>1 DEF Apart, Passed
<1>4. Passed' = Passed \cup {e}
  <2>1. ASSUME NEW d \in Passed' PROVE d \in Passed \cup {e}
    BY <1>1, <1>2, <2>1 DEF Passed
  <2>2. ASSUME NEW d \in Passed \cup {e} PROVE d \in Passed'
    <3>1. d \in pushed' BY <1>3, <2>2 DEF Passed
    <3>2. d \notin job'[p].batch BY <1>1, <2>2 DEF Passed
    <3>3. \A q \in Writers : q # p => d \notin job'[q].batch BY <1>2, <2>2 DEF Passed
    <3> QED BY <3>1, <3>2, <3>3 DEF Passed
  <2> QED BY <2>1, <2>2
<1> QED BY <1>3, <1>4, PassedOK, FS_AddElement

LEMMA RaisedBound ==
    ASSUME Typed, Counts, NEW p \in Writers, job[p].at = "write"
    PROVE  /\ Raised(p) <= Cardinality(Passed) + 1
           /\ ~hindered /\ job[p].seen = usage => Raised(p) = Cardinality(Passed) + 1
<1>1. usage \in Nat /\ job[p].seen \in Nat /\ Cardinality(Passed) \in Nat
  BY PassedOK DEF Typed, Jobs
<1>2. usage <= Cardinality(Passed) /\ job[p].seen <= Cardinality(Passed)
      /\ (~hindered => usage = Cardinality(Passed))
  BY DEF Counts
<1> HIDE DEF Counts
<1>3. CASE Refused(p) BY <1>1, <1>2, <1>3 DEF Raised, Refused
<1>4. CASE ~Refused(p) BY <1>1, <1>2, <1>4 DEF Raised
<1> QED BY <1>3, <1>4

LEMMA CountsStep ==
    ASSUME Typed, Shaped, Apart, Counts, [TelemetryNext]_telemetryVars
    PROVE  Counts'
<1>0. Typed' /\ \A g \in Gateways : Writer(g) \in Writers /\ Main(g) \in Writers
  BY TypedStep, WritersOK
<1>1. ASSUME UNCHANGED <<job, pushed, usage, hindered>> PROVE Counts'
  BY <1>1 DEF Counts, Passed
<1>2. ASSUME Passed' = Passed, UNCHANGED <<usage, hindered>>,
             \A p \in Writers : job'[p].at = "write" =>
                \/ job[p].at = "write" /\ job'[p].seen = job[p].seen
                \/ job'[p].seen = usage
      PROVE  Counts'
  <2>1. ~hindered' => usage' = Cardinality(Passed') BY <1>2 DEF Counts
  <2> QED BY <1>0, <1>2, <2>1, CountsKept
(* Events that are not in the stream change hands.                          *)
<1>3. ASSUME NEW p \in Writers, Others(p), UNCHANGED <<pushed, usage, hindered>>,
             job[p].batch = {}, job'[p].at = "push", job'[p].batch \cap pushed = {}
      PROVE  Counts'
  <2>1. Passed' = Passed BY <1>3 DEF Passed, Others
  <2> QED BY <1>2, <1>3, <2>1 DEF Others
<1>4. ASSUME NEW e \in Events, Fire(e) PROVE Counts'
  <2>1. UNCHANGED <<pushed, usage, hindered>> BY <1>4 DEF Fire, stores
  <2>2. \A p \in Writers :
           /\ job'[p].batch = job[p].batch /\ job'[p].seen = job[p].seen
           /\ job'[p].at = "write" => job[p].at = "write"
    BY <1>4, FireEffect
  <2>3. Passed' = Passed BY <2>1, <2>2 DEF Passed
  <2> QED BY <1>2, <2>1, <2>2, <2>3
<1>5. ASSUME NEW a \in Audits, Audit(a) \/ WriteAudit(a) \/ StreamAudit(a) PROVE Counts'
  BY <1>1, <1>5 DEF Audit, WriteAudit, StreamAudit, stores, losses
<1>6. ASSUME NEW g \in Gateways, Stop(g) PROVE Counts'
  <2> DEFINE p == Writer(g)
  <2>1. /\ p \in Writers /\ \A q \in Writers : q # p => job'[q] = job[q]
        /\ job'[p].at # "write" /\ job'[p].batch \cap pushed = {}
    BY <1>6, StopEffect DEF Others, Apart
  <2>2. hindered' = (hindered \/ job[p].batch # {}) BY <1>6 DEF Stop, CancelWorker
  <2>3. \/ UNCHANGED <<pushed, usage>>
        \/ job[p].at = "push" /\ pushed' = pushed \cup job[p].batch /\ UNCHANGED usage
        \/ job[p].at = "write" /\ usage' = Raised(p) /\ UNCHANGED pushed
    BY <1>6 DEF Stop, CancelWorker
  <2> HIDE DEF p
  <2>4. Passed \subseteq Passed' BY <2>1, <2>3 DEF Passed
  <2>5. usage' = usage \/ usage' <= Cardinality(Passed')
    <3>1. CASE job[p].at = "write" /\ usage' = Raised(p) /\ UNCHANGED pushed
      <4>1. PICK e \in job[p].batch : TRUE BY <2>1, <3>1 DEF Shaped
      <4>2. e \in pushed /\ e \notin Passed BY <2>1, <3>1, <4>1 DEF Apart, Passed
      <4>3. e \in Passed'
        <5>1. \A q \in Writers : q # p => e \notin job'[q].batch BY <2>1, <4>1 DEF Apart
        <5>2. e \notin job'[p].batch BY <2>1, <4>2
        <5> QED BY <3>1, <4>2, <5>1, <5>2 DEF Passed
      <4>4. IsFiniteSet(Passed') /\ Cardinality(Passed') \in Nat BY <1>0, PassedOK
      <4>5. Passed \cup {e} \subseteq Passed' BY <2>4, <4>3
      <4>6. Cardinality(Passed \cup {e}) = Cardinality(Passed) + 1
        BY <4>2, PassedOK, FS_AddElement
      <4>7. Cardinality(Passed) + 1 <= Cardinality(Passed') BY <4>4, <4>5, <4>6, FS_Subset
      <4>8. Raised(p) <= Cardinality(Passed) + 1 /\ Raised(p) \in Nat
        BY <2>1, <3>1, RaisedBound, RaisedOK
      <4> QED BY <3>1, <4>4, <4>7, <4>8, PassedOK
    <3> QED BY <2>3, <3>1
  <2>6. ASSUME ~hindered' PROVE usage' = Cardinality(Passed')
    <3>1. ~hindered /\ job[p].batch = {} BY <2>2, <2>6
    <3>2. job[p].at # "write" BY <2>1, <3>1 DEF Shaped
    <3>3. pushed' = pushed /\ usage' = usage BY <2>3, <3>1, <3>2
    <3>4. Passed' = Passed BY <2>1, <3>1, <3>3 DEF Passed
    <3> QED BY <3>1, <3>3, <3>4 DEF Counts
  <2>7. \A q \in Writers : job'[q].at = "write" => job[q].at = "write" /\ job'[q].seen = job[q].seen
    BY <2>1
  <2> QED BY <1>0, <2>4, <2>5, <2>6, <2>7, CountsKept
<1>7. ASSUME NEW g \in Gateways, Take(g) PROVE Counts'
  <2>1. UNCHANGED <<pushed, usage, hindered>> /\ job[Writer(g)].at \in {"new", "get"}
    BY <1>7 DEF Take, stores, losses
  <2>2. job[Writer(g)].batch = {} /\ queue[g] \cap pushed = {} BY <1>0, <2>1 DEF Shaped, Apart
  <2> QED BY <1>3, <1>7, <2>1, <2>2, TakeEffect
<1>8. ASSUME NEW p \in Writers, Push(p) PROVE Counts'
  <2>1. /\ job[p].at = "push" /\ pushed' = pushed \cup job[p].batch
        /\ UNCHANGED <<usage, hindered>>
    BY <1>8 DEF Push, losses
  <2>2. \A q \in Writers : job'[q].batch = job[q].batch BY <1>8, PushEffect DEF Others
  <2>3. Passed' = Passed BY <2>1, <2>2 DEF Passed
  <2>4. \A q \in Writers : job'[q].at = "write" => job[q].at = "write" /\ job'[q].seen = job[q].seen
    BY <1>8, PushEffect DEF Others
  <2> QED BY <1>2, <2>1, <2>3, <2>4
<1>9. ASSUME NEW p \in Writers, ReadUsage(p) PROVE Counts'
  <2>1. UNCHANGED <<pushed, usage, hindered>> BY <1>9 DEF ReadUsage, stores, losses
  <2>2. \A q \in Writers : job'[q].batch = job[q].batch BY <1>9, ReadEffect DEF Others
  <2>3. Passed' = Passed BY <2>1, <2>2 DEF Passed
  <2>4. job'[p].at = "write" => job'[p].seen = usage BY <1>9, ReadEffect, NewJobsOK
  <2>5. \A q \in Writers : q # p => job'[q] = job[q] BY <1>9, ReadEffect DEF Others
  <2> QED BY <1>2, <2>1, <2>3, <2>4, <2>5
<1>10. ASSUME NEW p \in Writers, WriteUsage(p) PROVE Counts'
  <2>1. /\ job[p].at = "write" /\ Counted(p) /\ usage' = Raised(p) /\ UNCHANGED pushed
        /\ hindered' = (hindered \/ job[p].seen # usage)
    BY <1>10 DEF WriteUsage
  <2>2. Passed \subseteq Passed' /\ Cardinality(Passed') = Cardinality(Passed) + 1
    BY <1>0, <2>1, CountedOne
  <2>3. usage' <= Cardinality(Passed') /\ (~hindered' => usage' = Cardinality(Passed'))
    BY <2>1, <2>2, RaisedBound
  <2>4. \A q \in Writers : job'[q].at = "write" => job[q].at = "write" /\ job'[q].seen = job[q].seen
    BY <2>1, CountedEffect DEF Others
  <2> QED BY <1>0, <2>2, <2>3, <2>4, CountsKept
<1>11. ASSUME NEW g \in Gateways, EndLoop(g) \/ AwaitWorker(g) \/ FlushAudit(g) PROVE Counts'
  BY <1>1, <1>11 DEF EndLoop, AwaitWorker, FlushAudit, stores, losses
<1>12. ASSUME NEW g \in Gateways, Drain(g) PROVE Counts'
  <2>1. UNCHANGED <<pushed, usage, hindered>> /\ job[Main(g)].at \in {"none", "done"}
    BY <1>12 DEF Drain, stores, losses
  <2>2. CASE UNCHANGED job BY <1>1, <2>1, <2>2
  <2>3. CASE ~UNCHANGED job
    <3>1. PICK e \in queue[g] : job'[Main(g)].batch = {e} BY <1>12, <2>3, DrainEffect
    <3>2. job'[Main(g)].batch \cap pushed = {} BY <3>1 DEF Apart
    <3>3. job[Main(g)].batch = {} BY <1>0, <2>1 DEF Shaped
    <3>4. Others(Main(g)) /\ job'[Main(g)].at = "push" BY <1>12, <2>3, DrainEffect
    <3> QED BY <1>0, <1>3, <2>1, <3>2, <3>3, <3>4
  <2> QED BY <2>2, <2>3
<1>13. ASSUME Fault PROVE Counts'
  <2>1. ASSUME NEW p \in Writers, PushFails(p) PROVE Counts'
    <3>1. pushed \subseteq pushed' /\ hindered' = TRUE /\ UNCHANGED usage BY <2>1 DEF PushFails
    <3>2. /\ \A q \in Writers : q # p => job'[q] = job[q]
          /\ job'[p].batch = {} /\ job'[p].at # "write"
      BY <2>1, PushFailsEffect, NewJobsOK DEF Others
    <3>3. Passed \subseteq Passed' BY <3>1, <3>2 DEF Passed
    <3> QED BY <1>0, <3>1, <3>2, <3>3, CountsKept
  <2>2. ASSUME NEW p \in Writers, UsageFails(p) PROVE Counts'
    <3>1. /\ job[p].at = "write" /\ Counted(p) /\ usage' \in {usage, Raised(p)}
          /\ UNCHANGED pushed /\ hindered' = TRUE
      BY <2>2 DEF UsageFails
    <3>2. Passed \subseteq Passed' /\ Cardinality(Passed') = Cardinality(Passed) + 1
      BY <1>0, <3>1, CountedOne
    <3>3. usage' = usage \/ usage' <= Cardinality(Passed') BY <3>1, <3>2, RaisedBound
    <3>4. \A q \in Writers : job'[q].at = "write" => job[q].at = "write" /\ job'[q].seen = job[q].seen
      BY <3>1, CountedEffect DEF Others
    <3> QED BY <1>0, <3>1, <3>2, <3>3, <3>4, CountsKept
  <2>3. ASSUME NEW a \in Audits, AuditFails(a) PROVE Counts'
    BY <1>1, <2>3 DEF AuditFails
  <2>4. ASSUME NEW g \in Gateways, WorkerCrashes(g) PROVE Counts'
    BY <1>1, <2>4 DEF WorkerCrashes, stores
  <2> QED BY <1>13, <2>1, <2>2, <2>3, <2>4 DEF Fault
<1>14. CASE UNCHANGED telemetryVars BY <1>1, <1>14 DEF telemetryVars, stores, losses
<1>15. ASSUME NEW p \in Writers, Write(p) PROVE Counts'
  BY <1>8, <1>9, <1>10, <1>15 DEF Write
<1> QED BY <1>0, <1>4, <1>5, <1>6, <1>7, <1>15, <1>11, <1>12, <1>13, <1>14
        DEF TelemetryNext, Run, Shutdown

-----------------------------------------------------------------------------
LEMMA TasksStep ==
    ASSUME Typed, Staged, Tasks, [TelemetryNext]_telemetryVars
    PROVE  Tasks'
<1>0. \A g \in Gateways : Writer(g) \in Writers /\ Main(g) \in Writers BY WritersOK
<1>11. \A a \in Audits : Home[a] \in Gateways BY HomesOK
<1>1. ASSUME UNCHANGED <<phase, crashed, audit, rows, failures>> PROVE Tasks'
  BY <1>1 DEF Tasks, OrderlyEnd
<1>2. ASSUME NEW e \in Events, Fire(e) PROVE Tasks'
  BY <1>1, <1>2 DEF Fire, stores
<1>3. ASSUME NEW a \in Audits, Audit(a) \/ WriteAudit(a) \/ StreamAudit(a) PROVE Tasks'
  <2>1. UNCHANGED <<phase, crashed, failures>> BY <1>3 DEF Audit, WriteAudit, StreamAudit
  <2>2. /\ ~OrderlyEnd(Home[a])
        /\ \A b \in Audits : b # a => audit'[b] = audit[b]
        /\ rows \subseteq rows'
        /\ \/ audit'[a] = "db"
           \/ audit'[a] = "stream" /\ a \in rows'
           \/ audit[a] = "stream"
    BY <1>3 DEF Audit, WriteAudit, StreamAudit, stores, OrderlyEnd, Typed
  <2> QED BY <2>1, <2>2 DEF Tasks, OrderlyEnd
<1>4. ASSUME NEW g \in Gateways, Stop(g) PROVE Tasks'
  <2>1. UNCHANGED <<crashed, failures>> BY <1>4 DEF Stop
  <2>2. \A h \in Gateways : phase'[h] = "gone" => phase[h] = "gone" BY <1>4 DEF Stop, Typed
  <2>3. CASE UNCHANGED <<audit, rows>> BY <1>11, <2>1, <2>2, <2>3 DEF Tasks, OrderlyEnd
  <2>4. CASE crashed[g] /\ CancelAudits(g)
    <3>1. failures # 0 BY <2>4 DEF Tasks
    <3>2. \A a \in Audits : audit[a] \in {"none", "done"} => audit'[a] = audit[a]
      BY <2>4 DEF CancelAudits
    <3> QED BY <1>11, <2>1, <2>2, <3>1, <3>2 DEF Tasks, OrderlyEnd
  <2> QED BY <1>4, <2>3, <2>4 DEF Stop
<1>5. ASSUME NEW g \in Gateways, Take(g) PROVE Tasks'
  BY <1>1, <1>5 DEF Take, stores
<1>6. ASSUME NEW p \in Writers, Write(p) PROVE Tasks'
  BY <1>1, <1>6 DEF Write, Push, ReadUsage, WriteUsage, stores
<1>7. ASSUME NEW g \in Gateways, EndLoop(g) \/ AwaitWorker(g) \/ Drain(g) PROVE Tasks'
  <2>1. UNCHANGED <<crashed, audit, rows, failures>>
    BY <1>7 DEF EndLoop, AwaitWorker, Drain, stores
  <2>2. \A h \in Gateways : phase'[h] = "gone" /\ ~crashed[h] => phase[h] = "gone"
    <3>1. CASE EndLoop(g)
      <4>1. crashed[g] BY <3>1 DEF EndLoop, Staged
      <4> QED BY <3>1, <4>1 DEF EndLoop, Typed
    <3>2. CASE AwaitWorker(g) BY <3>2 DEF AwaitWorker, DrainNext, Typed
    <3>3. CASE Drain(g) BY <3>3, DrainEffect DEF Typed
    <3> QED BY <1>7, <3>1, <3>2, <3>3
  <2> QED BY <1>11, <2>1, <2>2 DEF Tasks, OrderlyEnd
<1>8. ASSUME NEW g \in Gateways, FlushAudit(g) PROVE Tasks'
  <2>1. UNCHANGED <<crashed, audit, rows, failures>> BY <1>8 DEF FlushAudit, stores
  <2>2. \A a \in Audits : Home[a] = g => audit[a] \in {"none", "done"}
    BY <1>8 DEF FlushAudit, Flushed
  <2>3. \A h \in Gateways : h # g => phase'[h] = phase[h] BY <1>8 DEF FlushAudit, Typed
  <2> QED BY <1>11, <2>1, <2>2, <2>3 DEF Tasks, OrderlyEnd
<1>9. ASSUME Fault PROVE Tasks'
  <2>1. failures' # 0 /\ UNCHANGED phase BY <1>9, QueueAssumption DEF Fault, Typed
  <2>2. \A g \in Gateways : crashed[g] => crashed'[g]
    <3>1. crashed' = crashed \/ \E h \in Gateways : crashed' = [crashed EXCEPT ![h] = TRUE]
      BY <1>9 DEF Fault, PushFails, UsageFails, AuditFails, WorkerCrashes
    <3>2. crashed \in [Gateways -> BOOLEAN] BY DEF Typed
    <3> QED BY <3>1, <3>2
  <2>3. \A a \in Audits : audit[a] \in {"none", "done"} => audit'[a] = audit[a]
    <3>1. \/ audit' = audit
          \/ \E b \in Audits : audit[b] \in {"db", "stream"} /\ audit' = [audit EXCEPT ![b] = "done"]
      BY <1>9 DEF Fault, PushFails, UsageFails, AuditFails, WorkerCrashes, stores
    <3>2. audit \in [Audits -> {"none", "db", "stream", "done"}] BY DEF Typed
    <3> QED BY <3>1, <3>2
  <2> QED BY <1>11, <2>1, <2>2, <2>3 DEF Tasks, OrderlyEnd
<1>10. CASE UNCHANGED telemetryVars BY <1>1, <1>10 DEF telemetryVars, stores
<1> QED BY <1>0, <1>2, <1>3, <1>4, <1>5, <1>6, <1>7, <1>8, <1>9, <1>10
        DEF TelemetryNext, Run, Shutdown

-----------------------------------------------------------------------------
TelemetryIInv == Typed /\ Bounded /\ Shaped /\ Staged /\ Apart /\ Placed /\ Counts /\ Tasks

LEMMA TelemetryStart == TelemetryInit => TelemetryIInv
<1> SUFFICES ASSUME TelemetryInit PROVE TelemetryIInv
  OBVIOUS
<1>0. \A g \in Gateways : Writer(g) \in Writers /\ Main(g) \in Writers BY WritersOK
<1>1. Typed
  <2>1. Idle("none") \in Jobs /\ Idle("none").batch = {} BY NewJobsOK
  <2>2. /\ phase \in [Gateways -> Phases] /\ crashed \in [Gateways -> BOOLEAN]
        /\ queue \in [Gateways -> SUBSET fired]
        /\ audit \in [Audits -> {"none", "db", "stream", "done"}]
    BY DEF TelemetryInit, Phases
  <2>3. job \in [Writers -> Jobs] /\ \A p \in Writers : job[p].batch \subseteq fired
    BY <2>1 DEF TelemetryInit
  <2>4. /\ fired = {} /\ pushed = {} /\ usage = 0 /\ rows = {} /\ failures = 0
        /\ dropped = {} /\ cut = {} /\ hindered = FALSE
    BY DEF TelemetryInit
  <2>5. 0 \in 0..MaxFailures BY QueueAssumption
  <2> QED BY <2>2, <2>3, <2>4, <2>5 DEF Typed
<1>2. Bounded BY FS_EmptySet, QueueAssumption DEF TelemetryInit, Bounded
<1>3. \A p \in Writers : job[p].at = "none" /\ job[p].batch = {} BY NewJobsOK DEF TelemetryInit
<1>4. Shaped BY <1>3 DEF Shaped
<1>5. Staged BY <1>0, <1>3 DEF TelemetryInit, Staged, OrderlyEnd
<1>6. Apart BY <1>3 DEF TelemetryInit, Apart
<1>7. Placed BY DEF TelemetryInit, Placed
<1>8. Counts
  <2>1. Passed = {} /\ usage = 0 BY DEF TelemetryInit, Passed
  <2> QED BY <1>3, <2>1, FS_EmptySet DEF Counts
<1>9. Tasks BY <1>0, HomesOK DEF TelemetryInit, Tasks, OrderlyEnd
<1> QED BY <1>1, <1>2, <1>4, <1>5, <1>6, <1>7, <1>8, <1>9 DEF TelemetryIInv

LEMMA TelemetryStep == TelemetryIInv /\ [TelemetryNext]_telemetryVars => TelemetryIInv'
BY TypedStep, BoundedStep, ShapedStep, StagedStep, ApartStep, PlacedStep, CountsStep, TasksStep
   DEF TelemetryIInv

LEMMA TelemetryInvariant == TelemetrySpec => []TelemetryIInv
BY TelemetryStart, TelemetryStep, PTL DEF TelemetrySpec

(* The queue never holds more than its maxsize, whatever is fired while the *)
(* worker is busy, cancelled or gone (fire_telemetry, put_nowait), and the  *)
(* batches, stores and tasks are what they may be.                          *)
THEOREM TelemetryTypeCorrect == TelemetrySpec => []TelemetryTypeOK
<1>1. TelemetryIInv => TelemetryTypeOK
  BY DEF TelemetryIInv, Typed, Bounded, TelemetryTypeOK
<1> QED BY <1>1, TelemetryInvariant, PTL

(* flush_telemetry: of what a process fired, an orderly shutdown leaves     *)
(* nothing behind in the queue or in a batch.  Each event is in the stream, *)
(* or found no room, or was in a batch that failed or was cancelled.        *)
THEOREM ShutdownSettlesEvents == TelemetrySpec => []EventsSettled
<1>1. TelemetryIInv => EventsSettled
  <2> SUFFICES ASSUME TelemetryIInv, NEW e \in fired, OrderlyEnd(Home[e])
               PROVE  e \in pushed \cup dropped \cup cut
    BY DEF EventsSettled
  <2> DEFINE g == Home[e]
  <2>1. g \in Gateways BY HomesOK DEF TelemetryIInv, Typed
  <2>2. queue[g] = {} /\ job[Writer(g)].at = "done" /\ job[Main(g)].at # "push"
    BY <2>1 DEF TelemetryIInv, Staged, OrderlyEnd
  <2> QED BY <2>2 DEF TelemetryIInv, Placed, Holds
<1> QED BY <1>1, TelemetryInvariant, PTL

(* record_usage, called for one event after another by every process: two   *)
(* transactions at the same time, a failure or a cancellation lose counts   *)
(* and never invent one, and nothing else loses any.                        *)
THEOREM UsageNeverExceeds == TelemetrySpec => []UsageCounts
<1>1. TelemetryIInv => UsageCounts
  <2> SUFFICES ASSUME TelemetryIInv PROVE UsageCounts
    OBVIOUS
  <2>1. Typed /\ Counts /\ Apart /\ Shaped BY DEF TelemetryIInv
  <2>2. Passed \subseteq pushed /\ IsFiniteSet(pushed) /\ Cardinality(pushed) \in Nat
    BY <2>1, FiniteAssumption, FS_Subset, FS_CardinalityType DEF Typed, Passed
  <2>3. Cardinality(Passed) <= Cardinality(pushed) BY <2>2, FS_Subset
  <2>4. usage <= Cardinality(pushed)
    BY <2>1, <2>2, <2>3, PassedOK DEF Counts, Typed
  <2>5. ASSUME ~hindered, ~Counting PROVE usage = Cardinality(pushed)
    <3>1. \A p \in Writers : job[p].batch \cap pushed = {}
      BY <2>1, <2>5 DEF Counting, Apart, Shaped, Typed, Jobs
    <3>2. Passed = pushed BY <3>1 DEF Passed
    <3> QED BY <2>1, <2>5, <3>2 DEF Counts
  <2> QED BY <2>4, <2>5 DEF UsageCounts
<1> QED BY <1>1, TelemetryInvariant, PTL

(* flush_audit: the shutdown waits for the tasks of log_admin_async, so     *)
(* that every audit event a process started to write has its row, however   *)
(* many there are, when nothing failed.                                     *)
THEOREM ShutdownKeepsAudits == TelemetrySpec => []AuditKept
<1>1. TelemetryIInv => AuditKept
  BY DEF TelemetryIInv, Tasks, AuditKept
<1> QED BY <1>1, TelemetryInvariant, PTL
=============================================================================
