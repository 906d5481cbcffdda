---------------------------- MODULE PortalProofs ----------------------------
(***************************************************************************)
(* Proofs about Portal, for any customers, any number of calls in flight,  *)
(* clicks and faults.                                                      *)
(*                                                                         *)
(* The page knows a key only once it was in the field (told).  The         *)
(* argument is that a key some rotation has made stays untold, and so      *)
(* cannot be rotated away, until the answer of that rotation is heard.     *)
(***************************************************************************)
EXTENDS Portal, FiniteSetTheorems, TLAPS

(* Calls are made with keys that were in the field, and those were issued.  *)
Told ==
    /\ \A k \in told : owner[k] # Nobody
    /\ field \in told \cup {NoKey}
    /\ \A c \in Calls : call[c].at # "free" => call[c].key \in told

(* A key that is on its way to the page works, was never in the field,      *)
(* belongs to the owner of the key it replaces, and to one call alone.      *)
NewKeys ==
    \A c \in Calls :
        /\ call[c].new # NoKey =>
              /\ call[c].op = "rotate" /\ call[c].at \in {"saved", "dropping", "done"}
              /\ call[c].new \in valid \ told
              /\ owner[call[c].new] = owner[call[c].key]
              /\ \A d \in Calls \ {c} : call[d].new # call[c].new
        /\ call[c].at \in {"saved", "dropping"} \/ Coming(c) => call[c].new # NoKey

(* Until a new key strays, every answer to a rotation is heard.             *)
Heard ==
    ~strayed => \A c \in Calls : call[c].op = "rotate" /\ call[c].at # "free" => call[c].heard

(* Every customer has a key in the stores.                                  *)
Owned == \A u \in Users : \E k \in valid : owner[k] = u

(* A rotation is at work alone with its key.                                *)
Apart ==
    \A c, d \in Calls :
        /\ AtWork(c) /\ AtWork(d)
        /\ call[c].key = call[d].key /\ call[c].op = "rotate"
        => c = d

(* The row of its key is there until it deletes it, and nothing is saved    *)
(* again.                                                                   *)
Kept ==
    \A c \in Calls :
        /\ call[c].op = "rotate" /\ call[c].at \in {"row", "admitted", "saved"}
              => call[c].key \in row
        /\ call[c].at = "copy" => call[c].key \notin valid
        /\ call[c].at \notin {"commit", "write"}
        /\ call[c].at = "dropping" => call[c].key \notin row

(* A copy without a row, and a second key of a customer, are a rotation's   *)
(* that is not through.                                                     *)
Second ==
    /\ \A k \in copy \ row : \E c \in Calls : call[c].at = "dropping" /\ call[c].key = k
    /\ \A k, l \in valid : owner[k] = owner[l] =>
          k = l \/ \E c \in Calls : /\ call[c].at \in {"saved", "dropping"}
                                    /\ {k, l} = {call[c].key, call[c].new}

Alone == ~overlapped => Apart /\ Kept /\ Second

(* The tier requests that were stored and not yet called submitted.         *)
Due(u) == {c \in Calls : /\ call[c].op = "tier" /\ call[c].at = "done" /\ call[c].ok
                         /\ owner[call[c].key] = u}

Counted == \A u \in Users : thanked[u] + Cardinality(Due(u)) <= tickets[u]

IInv ==
    /\ TypeOK /\ Told /\ NewKeys /\ Heard /\ Owned /\ Alone /\ Counted
    /\ FieldWorks /\ CustomerHasKey

-----------------------------------------------------------------------------
LEMMA Becomes ==
    ASSUME TypeOK, NEW c \in Calls, NEW r \in CallRecords, Become(c, r)
    PROVE  /\ call' \in [Calls -> CallRecords]
           /\ call'[c] = r
           /\ \A d \in Calls \ {c} : call'[d] = call[d]
BY DEF TypeOK, Become

LEMMA Finishes ==
    ASSUME TypeOK, NEW c \in Calls, NEW ok \in BOOLEAN, Finish(c, ok)
    PROVE  /\ call' \in [Calls -> CallRecords]
           /\ call'[c].at = "done" /\ call'[c].ok = ok /\ call'[c].op = call[c].op
           /\ call'[c].key = call[c].key /\ call'[c].new = call[c].new
           /\ call'[c].heard = call[c].heard
           /\ \A d \in Calls \ {c} : call'[d] = call[d]
<1> DEFINE r == [call[c] EXCEPT !.at = "done", !.ok = ok]
<1>1. /\ r \in CallRecords /\ r.at = "done" /\ r.ok = ok /\ r.op = call[c].op
      /\ r.key = call[c].key /\ r.new = call[c].new /\ r.heard = call[c].heard
  BY DEF TypeOK, CallRecords, Places
<1>2. Become(c, r) BY DEF Finish
<1> HIDE DEF r
<1> QED BY <1>1, <1>2, Becomes

LEMMA Founds ==
    ASSUME TypeOK, NEW c \in Calls, Found(c)
    PROVE  /\ call' \in [Calls -> CallRecords]
           /\ call'[c].at \in {"admitted", "row"} /\ call'[c].op = call[c].op
           /\ call'[c].key = call[c].key /\ call'[c].new = call[c].new
           /\ call'[c].heard = call[c].heard
           /\ \A d \in Calls \ {c} : call'[d] = call[d]
<1> DEFINE r == [call[c] EXCEPT !.at = "admitted", !.stage = "resolve"]
           s == [call[c] EXCEPT !.at = "row", !.stage = "reload"]
<1>1. /\ r \in CallRecords /\ r.at = "admitted" /\ r.op = call[c].op
      /\ r.key = call[c].key /\ r.new = call[c].new /\ r.heard = call[c].heard
  BY DEF TypeOK, CallRecords, Places
<1>2. /\ s \in CallRecords /\ s.at = "row" /\ s.op = call[c].op
      /\ s.key = call[c].key /\ s.new = call[c].new /\ s.heard = call[c].heard
  BY DEF TypeOK, CallRecords, Places
<1>3. Become(c, r) \/ Become(c, s) BY DEF Found
<1> HIDE DEF r, s
<1>4. CASE Become(c, r) BY <1>1, <1>4, Becomes
<1>5. CASE Become(c, s) BY <1>2, <1>5, Becomes
<1> QED BY <1>3, <1>4, <1>5

(* A step that moves a call to another place.                               *)
LEMMA Moves ==
    ASSUME TypeOK, NEW c \in Calls, NEW p \in Places,
           Become(c, [call[c] EXCEPT !.at = p])
    PROVE  /\ call' \in [Calls -> CallRecords]
           /\ call'[c].at = p /\ call'[c].op = call[c].op /\ call'[c].ok = call[c].ok
           /\ call'[c].key = call[c].key /\ call'[c].new = call[c].new
           /\ call'[c].heard = call[c].heard
           /\ \A d \in Calls \ {c} : call'[d] = call[d]
<1> DEFINE r == [call[c] EXCEPT !.at = p]
<1>1. /\ r \in CallRecords /\ r.at = p /\ r.op = call[c].op /\ r.ok = call[c].ok
      /\ r.key = call[c].key /\ r.new = call[c].new /\ r.heard = call[c].heard
  BY DEF TypeOK, CallRecords
<1>2. Become(c, r) OBVIOUS
<1> HIDE DEF r
<1> QED BY <1>1, <1>2, Becomes

LEMMA Freed ==
    /\ Free \in CallRecords /\ Free.at = "free" /\ Free.op = "quota" /\ Free.new = NoKey
BY DEF Free, CallRecords, Places, Ops

(* What SMT needs of the types.                                             *)
LEMMA Types ==
    ASSUME TypeOK
    PROVE  /\ field \in Keys \cup {NoKey} /\ shown \in Users \cup {Nobody}
           /\ owner \in [Keys -> Users \cup {Nobody}] /\ valid \subseteq Keys
           /\ row \subseteq Keys /\ copy \subseteq Keys
           /\ \A k \in valid : owner[k] # Nobody
           /\ told \subseteq Keys /\ NoKey \notin Keys /\ Nobody \notin Users
           /\ tickets \in [Users -> Nat] /\ thanked \in [Users -> Nat]
           /\ \A c \in Calls : /\ call[c] \in CallRecords /\ call[c].key \in Keys \cup {NoKey}
                               /\ call[c].new \in Keys \cup {NoKey}
                               /\ call[c].ok \in BOOLEAN /\ call[c].heard \in BOOLEAN
                               /\ call[c].op \in Ops
BY NamesAssumption DEF TypeOK, CallRecords, valid

LEMMA DueFinite == \A u \in Users : IsFiniteSet(Due(u)) /\ Cardinality(Due(u)) \in Nat
<1> SUFFICES ASSUME NEW u \in Users PROVE IsFiniteSet(Due(u)) /\ Cardinality(Due(u)) \in Nat
  OBVIOUS
<1>1. Due(u) \subseteq Calls BY DEF Due
<1> QED BY <1>1, CallsAssumption, FS_Subset, FS_CardinalityType

(* What is due becomes no more.                                             *)
LEMMA CountedKept ==
    ASSUME TypeOK, Counted, UNCHANGED <<tickets, thanked>>,
           \A u \in Users : Due(u)' \subseteq Due(u)
    PROVE  Counted'
<1> SUFFICES ASSUME NEW u \in Users PROVE thanked'[u] + Cardinality(Due(u)') <= tickets'[u]
  BY DEF Counted
<1>1. Cardinality(Due(u)') <= Cardinality(Due(u)) /\ Cardinality(Due(u)') \in Nat
  BY DueFinite, FS_Subset, FS_CardinalityType
<1> QED BY <1>1, DueFinite, Types DEF Counted

-----------------------------------------------------------------------------
LEMMA InitIInv == Init => IInv
<1> SUFFICES ASSUME Init PROVE IInv OBVIOUS
<1>1. /\ \A u \in Users : First[u] \in Keys /\ owner[First[u]] = u
      /\ owner \in [Keys -> Users \cup {Nobody}]
  BY FirstAssumption DEF Init
<1>2. /\ row \subseteq Keys /\ copy = row /\ valid = row /\ told = valid /\ \A u \in Users : First[u] \in valid
      /\ \A k \in valid : owner[k] # Nobody
  <2>1. \A k \in valid : \E u \in Users : k = First[u] BY DEF Init, valid
  <2> QED BY <1>1, <2>1, NamesAssumption DEF Init, valid
<1>3. /\ \A c \in Calls : call[c] = Free
      /\ call \in [Calls -> CallRecords]
  BY Freed DEF Init
<1>4. TypeOK /\ Told /\ NewKeys /\ Heard /\ Owned /\ Alone
  <2>1. TypeOK
    <3>1. /\ field = NoKey /\ shown = Nobody /\ clicks = 0 /\ faults = 0
          /\ strayed = FALSE /\ overlapped = FALSE
          /\ tickets \in [Users -> Nat] /\ thanked \in [Users -> Nat]
      BY DEF Init
    <3>2. clicks \in 0..MaxClicks /\ faults \in 0..MaxFaults BY <3>1, BoundsAssumption
    <3> QED BY <1>1, <1>2, <1>3, <3>1, <3>2 DEF TypeOK
  <2>2. Told BY <1>2, <1>3, Freed DEF Init, Told
  <2>3. NewKeys BY <1>3, Freed DEF NewKeys, Coming
  <2>4. Heard BY <1>3, Freed DEF Heard
  <2>5. Owned BY <1>1, <1>2 DEF Owned
  <2>6. \A k, l \in valid : owner[k] = owner[l] => k = l
    <3>1. \A k \in valid : \E u \in Users : k = First[u] BY DEF Init, valid
    <3> QED BY <1>1, <3>1
  <2>7. Alone BY <1>2, <1>3, <2>6, Freed DEF Alone, Apart, Kept, Second, AtWork
  <2> QED BY <2>1, <2>2, <2>3, <2>4, <2>5, <2>7
<1>5. Counted
  <2> SUFFICES ASSUME NEW u \in Users PROVE thanked[u] + Cardinality(Due(u)) <= tickets[u]
    BY DEF Counted
  <2>1. Due(u) = {} BY Freed DEF Init, Due
  <2> QED BY <2>1, FS_EmptySet DEF Init
<1>6. FieldWorks /\ CustomerHasKey
  BY <1>1, <1>2 DEF Init, FieldWorks, CustomerHasKey
<1> QED BY <1>4, <1>5, <1>6 DEF IInv

-----------------------------------------------------------------------------
(* The steps of one call, which leave the page alone.                       *)

OthersStay(c) ==
    /\ call' \in [Calls -> CallRecords]
    /\ \A d \in Calls \ {c} : call'[d] = call[d]

(* What such a step may make of call c.                                     *)
Proper(c) ==
    /\ call'[c].at # "free" => call'[c].key \in told
    /\ call'[c].new # NoKey =>
          /\ call'[c].new = call[c].new /\ call'[c].key = call[c].key
          /\ call'[c].op = "rotate" /\ call'[c].at \in {"saved", "dropping", "done"}
    /\ call'[c].at \in {"saved", "dropping"} \/ Coming(c)' => call'[c].new # NoKey
    /\ call'[c].at = "done" /\ call'[c].op = "tier" /\ call'[c].ok
          => call[c].at = "done" /\ call[c].op = "tier" /\ call[c].ok /\ call'[c].key = call[c].key

(* The histories tell what else happened to it: until a new key strays, an  *)
(* answer to come is to come still, or the old key works.                   *)
Noted(c) ==
    /\ strayed' \in BOOLEAN /\ overlapped' \in BOOLEAN
    /\ strayed => strayed'
    /\ overlapped => overlapped'
    /\ ~strayed' =>
          /\ call'[c].op = "rotate" /\ call'[c].at # "free" => call'[c].heard
          /\ Coming(c) => \/ /\ Coming(c)' /\ call'[c].key = call[c].key
                             /\ call'[c].new = call[c].new
                          \/ call[c].key \in valid'

(* Of the keys it changes its own alone, and a rotation that takes the key  *)
(* away answers, or a key strays.                                           *)
OwnKey(c) ==
    /\ row' \subseteq Keys /\ copy' \subseteq Keys
    /\ valid' \subseteq valid \cup {call[c].key}
    /\ valid \subseteq valid' \cup {call[c].key}
    /\ valid' # valid => call[c].at # "free"
    /\ call[c].key \in valid \ valid' =>
          /\ call[c].at \in {"saved", "dropping"}
          /\ call'[c].key = call[c].key /\ call'[c].new = call[c].new
          /\ strayed' \/ Coming(c)'

LEMMA CallStep ==
    ASSUME IInv, NEW c \in Calls, OthersStay(c), Proper(c), Noted(c), OwnKey(c), Alone',
           UNCHANGED <<page, owner, tickets, thanked>>,
           clicks' \in 0..MaxClicks, faults' \in 0..MaxFaults
    PROVE  IInv'
<1> DEFINE key == call[c].key
           new == call[c].new
<1>0. /\ field' = field /\ told' = told /\ owner' = owner
      /\ tickets' = tickets /\ thanked' = thanked /\ shown' = shown
  BY DEF page
<1>1. valid' # valid => key \in told /\ owner[key] # Nobody
  BY DEF IInv, Told, OwnKey
<1>2. key \in valid \ valid' =>
        new \in valid' /\ new # NoKey /\ new # key /\ owner[new] = owner[key]
  BY <1>1 DEF IInv, NewKeys, OwnKey
<1>3. TypeOK'
  <2>1. \A k \in valid' : owner[k] # Nobody
    BY <1>1, Types DEF IInv, OwnKey
  <2> QED BY <1>0, <2>1 DEF IInv, TypeOK, OthersStay, Noted, OwnKey
<1>4. Told'
  BY <1>0 DEF IInv, Told, OthersStay, Proper
<1>5. NewKeys'
  <2>1. \A e \in Calls : call'[e].new \in {call[e].new, NoKey}
    BY DEF OthersStay, Proper
  <2>2. \A e \in Calls : call[e].new # NoKey => call[e].new \in valid' \ told
    BY <1>1 DEF IInv, NewKeys, OwnKey
  <2>3. \A e \in Calls \ {c} : Coming(e)' <=> Coming(e)
    BY DEF OthersStay, Coming
  <2> SUFFICES ASSUME NEW d \in Calls
               PROVE  /\ call'[d].new # NoKey =>
                            /\ call'[d].op = "rotate"
                            /\ call'[d].at \in {"saved", "dropping", "done"}
                            /\ call'[d].new \in valid' \ told
                            /\ owner[call'[d].new] = owner[call'[d].key]
                            /\ \A e \in Calls \ {d} : call'[e].new # call'[d].new
                      /\ call'[d].at \in {"saved", "dropping"} \/ Coming(d)' => call'[d].new # NoKey
    BY <1>0 DEF NewKeys
  <2>4. CASE d = c BY <2>1, <2>2, <2>4 DEF IInv, NewKeys, OthersStay, Proper
  <2>5. CASE d # c BY <2>1, <2>2, <2>3, <2>5 DEF IInv, NewKeys, OthersStay
  <2> QED BY <2>4, <2>5
<1>6. Heard' BY DEF IInv, Heard, OthersStay, Noted
<1>7. Owned'
  <2> SUFFICES ASSUME NEW u \in Users PROVE \E k \in valid' : owner[k] = u
    BY <1>0 DEF Owned
  <2>1. PICK k \in valid : owner[k] = u BY DEF IInv, Owned
  <2>2. CASE k \in valid' BY <2>1, <2>2
  <2>3. CASE k \notin valid' BY <2>1, <2>3, <1>2 DEF OwnKey
  <2> QED BY <2>2, <2>3
<1>8. Counted'
  <2>1. \A u \in Users : Due(u)' \subseteq Due(u)
    BY <1>0 DEF Due, OthersStay, Proper
  <2> QED BY <2>1, <1>0, CountedKept DEF IInv
<1>9. \A d \in Calls \ {c} :
        Coming(d) => Coming(d)' /\ call'[d].key = call[d].key /\ call'[d].new = call[d].new
  BY DEF OthersStay, Coming
<1>10. FieldWorks'
  <2> SUFFICES ASSUME ~strayed', field # NoKey, field \notin valid' PROVE Replacing(field)'
    BY <1>0 DEF FieldWorks
  <2>1. CASE field \in valid
    <3>1. field = key BY <2>1 DEF OwnKey
    <3>2. Coming(c)' /\ call'[c].key = field BY <2>1, <3>1 DEF OwnKey
    <3> QED BY <3>2, <1>0 DEF Replacing
  <2>2. CASE field \notin valid
    <3>1. PICK d \in Calls : Coming(d) /\ call[d].key = field
      BY <2>2 DEF IInv, FieldWorks, Noted, Replacing
    <3>2. Coming(d)' /\ call'[d].key = field BY <3>1, <1>9 DEF Noted
    <3> QED BY <3>2, <1>0 DEF Replacing
  <2> QED BY <2>1, <2>2
<1>11. CustomerHasKey'
  <2> SUFFICES ASSUME ~strayed', NEW u \in Users
               PROVE  \E k \in valid' : /\ owner[k] = u
                                        /\ k \in told \/ \E d \in Calls : Coming(d)' /\ call'[d].new = k
    BY <1>0 DEF CustomerHasKey
  <2>1. PICK k \in valid : owner[k] = u /\ (k \in told \/ \E d \in Calls : Coming(d) /\ call[d].new = k)
    BY DEF IInv, CustomerHasKey, Noted
  <2>2. CASE k \notin valid'
    <3>1. k = key BY <2>1, <2>2 DEF OwnKey
    <3>2. Coming(c)' /\ call'[c].new = new BY <2>1, <2>2, <3>1 DEF OwnKey
    <3> QED BY <2>1, <2>2, <3>1, <3>2, <1>2
  <2>3. CASE k \in valid' /\ k \in told BY <2>1, <2>3
  <2>4. ASSUME k \in valid', NEW d \in Calls, Coming(d), call[d].new = k
        PROVE  \E l \in valid' : /\ owner[l] = u
                                 /\ l \in told \/ \E e \in Calls : Coming(e)' /\ call'[e].new = l
    <3>1. CASE Coming(d)' /\ call'[d].new = k BY <2>1, <2>4, <3>1
    <3>2. CASE ~(Coming(d)' /\ call'[d].new = k)
      <4>1. d = c /\ key \in valid' BY <2>4, <3>2, <1>9 DEF Noted
      <4>2. k # NoKey BY <2>1, Types DEF IInv
      <4>3. owner[key] = u BY <2>1, <2>4, <4>1, <4>2 DEF IInv, NewKeys
      <4>4. key \in told BY <2>4, <4>1 DEF IInv, Told, Coming
      <4> QED BY <4>1, <4>3, <4>4
    <3> QED BY <3>1, <3>2
  <2> QED BY <2>1, <2>2, <2>3, <2>4
<1> QED BY <1>3, <1>4, <1>5, <1>6, <1>7, <1>8, <1>10, <1>11 DEF IInv

(* The steps among them that change no store.                               *)
Fits(c) ==
    ~overlapped' =>
        /\ AtWork(c)' => /\ call'[c].key = call[c].key /\ call'[c].op = call[c].op
                         /\ AtWork(c) \/ ~Meets(c)
        /\ call'[c].op = "rotate" /\ call'[c].at \in {"row", "admitted", "saved"}
              => call'[c].key \in row
        /\ call'[c].at = "copy" => call'[c].key \notin valid
        /\ call'[c].at \notin {"commit", "write"}
        /\ call'[c].at = "dropping" => call[c].at = "dropping"
        /\ call[c].at \in {"saved", "dropping"} =>
              call'[c].at = call[c].at /\ call'[c].key = call[c].key /\ call'[c].new = call[c].new

LEMMA AloneStays ==
    ASSUME IInv, NEW c \in Calls, OthersStay(c), Fits(c), overlapped => overlapped',
           UNCHANGED <<owner, row, copy>>
    PROVE  Alone'
<1> SUFFICES ASSUME ~overlapped' PROVE Apart' /\ Kept' /\ Second'
  BY DEF Alone
<1>0. Apart /\ Kept /\ Second /\ valid' = valid
  BY DEF IInv, Alone, valid
<1>1. \A d \in Calls \ {c} : call'[d] = call[d] /\ (AtWork(d)' <=> AtWork(d))
  BY DEF OthersStay, AtWork
<1>2. Apart'
  <2>1. ASSUME NEW d \in Calls \ {c}, AtWork(c)', AtWork(d)', call'[c].key = call'[d].key
        PROVE  call'[c].op # "rotate" /\ call'[d].op # "rotate"
    <3>1. AtWork(d) /\ call[c].key = call[d].key /\ call'[c].op = call[c].op /\ call'[d].op = call[d].op
      BY <2>1, <1>1 DEF Fits
    <3>2. CASE AtWork(c) BY <3>1, <3>2, <1>0 DEF Apart
    <3>3. CASE ~Meets(c) BY <3>1, <3>3 DEF Meets
    <3> QED BY <2>1, <3>2, <3>3 DEF Fits
  <2>2. ASSUME NEW d \in Calls \ {c}, NEW e \in Calls \ {c}, AtWork(d)', AtWork(e)',
               call'[d].key = call'[e].key, call'[d].op = "rotate"
        PROVE  d = e
    BY <2>2, <1>0, <1>1 DEF Apart
  <2> QED BY <2>1, <2>2 DEF Apart
<1>3. Kept'
  BY <1>0, <1>1 DEF Kept, Fits
<1>4. Second'
  <2>1. \A d \in Calls : call[d].at \in {"saved", "dropping"} =>
          call'[d].at = call[d].at /\ call'[d].key = call[d].key /\ call'[d].new = call[d].new
    BY <1>1 DEF Fits
  <2>2. \A k \in copy' \ row' : \E d \in Calls : call'[d].at = "dropping" /\ call'[d].key = k
    BY <2>1, <1>0 DEF Second
  <2>3. ASSUME NEW k \in valid, NEW l \in valid, owner[k] = owner[l], k # l
        PROVE  \E d \in Calls : /\ call'[d].at \in {"saved", "dropping"}
                                /\ {k, l} = {call'[d].key, call'[d].new}
    <3>1. PICK d \in Calls : call[d].at \in {"saved", "dropping"} /\ {k, l} = {call[d].key, call[d].new}
      BY <2>3, <1>0 DEF Second
    <3> QED BY <2>1, <3>1
  <2> QED BY <2>2, <2>3, <1>0 DEF Second
<1> QED BY <1>2, <1>3, <1>4

LEMMA StoresStay ==
    ASSUME IInv, NEW c \in Calls, OthersStay(c), Proper(c), Noted(c), Fits(c),
           UNCHANGED <<page, stores, thanked>>,
           clicks' \in 0..MaxClicks, faults' \in 0..MaxFaults
    PROVE  IInv'
<1>1. UNCHANGED <<owner, row, copy, tickets>> BY DEF stores
<1>2. valid' = valid BY <1>1 DEF valid
<1>3. OwnKey(c) BY <1>1, <1>2, Types DEF IInv, OwnKey
<1>4. Alone' BY <1>1, AloneStays DEF Noted
<1> QED BY <1>1, <1>3, <1>4, CallStep

LEMMA Counters ==
    ASSUME IInv
    PROVE  clicks \in 0..MaxClicks /\ faults \in 0..MaxFaults
           /\ strayed \in BOOLEAN /\ overlapped \in BOOLEAN
BY DEF IInv, TypeOK

LEMMA ClickStep ==
    ASSUME IInv, NEW op \in Ops, Click(op)
    PROVE  IInv'
<1>1. PICK c \in Calls :
        /\ call[c].at = "free"
        /\ Become(c, [Free EXCEPT !.at = "sent", !.op = op, !.key = field, !.heard = TRUE])
  BY DEF Click
<1> DEFINE r == [Free EXCEPT !.at = "sent", !.op = op, !.key = field, !.heard = TRUE]
<1>2. /\ r \in CallRecords /\ r.at = "sent" /\ r.op = op /\ r.key = field /\ r.new = NoKey
      /\ r.heard = TRUE
  BY Freed, Types DEF IInv, CallRecords, Places, Free
<1>3. Become(c, r) BY <1>1
<1> HIDE DEF r
<1>4. call'[c] = r /\ OthersStay(c) BY <1>2, <1>3, Becomes DEF IInv, OthersStay
<1>5. /\ UNCHANGED <<page, stores, thanked, strayed, overlapped>>
      /\ clicks' \in 0..MaxClicks /\ faults' \in 0..MaxFaults
  BY Counters, BoundsAssumption DEF Click, notes
<1>6. Proper(c) BY <1>2, <1>4 DEF Proper, IInv, Told, Click, Coming
<1>7. Noted(c) BY <1>1, <1>2, <1>4, <1>5, Counters DEF Noted, Coming
<1>8. Fits(c) BY <1>1, <1>2, <1>4 DEF Fits, AtWork
<1> QED BY <1>4, <1>5, <1>6, <1>7, <1>8, StoresStay

LEMMA ReadRowStep ==
    ASSUME IInv, NEW c \in Calls, ReadRow(c)
    PROVE  IInv'
<1>1. /\ UNCHANGED <<page, stores, thanked, strayed>>
      /\ clicks' \in 0..MaxClicks /\ faults' \in 0..MaxFaults
  BY Counters DEF ReadRow, bounds
<1>2. /\ call[c].at \in {"sent", "row"} /\ call[c].new = NoKey /\ call[c].key \in told
      /\ overlapped' = (overlapped \/ (call[c].at = "sent" /\ Meets(c)))
  BY DEF ReadRow, IInv, NewKeys, Told
<1>3. /\ OthersStay(c) /\ call'[c].at \in {"row", "admitted", "copy"}
      /\ call'[c].at = "copy" <=> call[c].key \notin row
      /\ call'[c].op = call[c].op /\ call'[c].key = call[c].key /\ call'[c].new = NoKey
      /\ call'[c].heard = call[c].heard
  <2>1. CASE call[c].key \in row
    BY <1>2, <2>1, Founds DEF ReadRow, IInv, OthersStay
  <2>2. CASE call[c].key \notin row
    BY <1>2, <2>2, Moves DEF ReadRow, IInv, OthersStay, Places
  <2> QED BY <2>1, <2>2
<1>4. Proper(c) BY <1>2, <1>3 DEF Proper, Coming
<1>5. overlapped' \in BOOLEAN /\ (overlapped => overlapped') BY <1>2, Counters
<1>6. Noted(c)
  BY <1>1, <1>2, <1>3, <1>5, Counters DEF Noted, IInv, Heard, Coming
<1>7. Fits(c)
  <2> SUFFICES ASSUME ~overlapped' PROVE Fits(c) BY DEF Fits
  <2>1. Apart /\ Second BY <1>5 DEF IInv, Alone
  <2>2. AtWork(c) \/ ~Meets(c) BY <1>2 DEF AtWork
  <2>3. ASSUME call[c].key \notin row PROVE call[c].key \notin copy
    <3> SUFFICES ASSUME call[c].key \in copy PROVE FALSE OBVIOUS
    <3>1. PICK d \in Calls : call[d].at = "dropping" /\ call[d].key = call[c].key
      BY <2>1, <2>3 DEF Second
    <3>2. AtWork(d) /\ call[d].op = "rotate" /\ d # c
      BY <3>1, <1>2 DEF IInv, NewKeys, AtWork
    <3> QED BY <2>1, <2>2, <3>1, <3>2 DEF Apart, Meets
  <2> QED BY <1>2, <1>3, <2>2, <2>3 DEF Fits, valid
<1> QED BY <1>1, <1>3, <1>4, <1>6, <1>7, StoresStay

LEMMA ReadCopyStep ==
    ASSUME IInv, NEW c \in Calls, ReadCopy(c)
    PROVE  IInv'
<1>1. /\ UNCHANGED <<page, stores, thanked, strayed, overlapped>>
      /\ clicks' \in 0..MaxClicks /\ faults' \in 0..MaxFaults
  BY Counters DEF ReadCopy, bounds, notes
<1>2. call[c].at = "copy" /\ call[c].new = NoKey /\ call[c].key \in told
  BY DEF ReadCopy, IInv, NewKeys, Told
<1>3. /\ OthersStay(c) /\ call'[c].op = call[c].op /\ call'[c].key = call[c].key
      /\ call'[c].new = NoKey /\ call'[c].heard = call[c].heard
      /\ \/ call'[c].at = "commit" /\ call[c].key \in copy
         \/ call'[c].at = "done" /\ call'[c].ok = FALSE
  <2>1. CASE call[c].key \in copy
    BY <1>2, <2>1, Moves DEF ReadCopy, IInv, OthersStay, Places
  <2>2. CASE call[c].key \notin copy
    BY <1>2, <2>2, Finishes DEF ReadCopy, IInv, OthersStay
  <2> QED BY <2>1, <2>2
<1>4. Proper(c) BY <1>2, <1>3 DEF Proper, Coming
<1>5. Noted(c) BY <1>1, <1>2, <1>3, Counters DEF Noted, IInv, Heard, Coming
<1>6. ~overlapped' => call[c].key \notin copy
  BY <1>1, <1>2 DEF IInv, Alone, Kept, valid
<1>7. Fits(c) BY <1>2, <1>3, <1>6 DEF Fits, AtWork
<1> QED BY <1>1, <1>3, <1>4, <1>5, <1>7, StoresStay

(* What is saved again was in the field, and where it is saved a rotation   *)
(* met another call.                                                        *)
LEMMA SaveFoundStep ==
    ASSUME IInv, NEW c \in Calls, CommitFound(c) \/ WriteFound(c)
    PROVE  IInv'
<1>1. /\ UNCHANGED <<page, owner, tickets, thanked, strayed, overlapped>>
      /\ clicks' \in 0..MaxClicks /\ faults' \in 0..MaxFaults
  BY Counters DEF CommitFound, WriteFound, bounds, notes
<1>2. /\ call[c].at \in {"commit", "write"} /\ call[c].new = NoKey /\ call[c].key \in told
      /\ call[c].key \in Keys
  <2>1. call[c].at \in {"commit", "write"} /\ call[c].new = NoKey /\ call[c].key \in told
    BY DEF CommitFound, WriteFound, IInv, NewKeys, Told
  <2> QED BY <2>1, Types DEF IInv
<1>3. /\ OthersStay(c) /\ call'[c].at \in {"write", "row", "admitted"}
      /\ call'[c].op = call[c].op /\ call'[c].key = call[c].key /\ call'[c].new = NoKey
      /\ call'[c].heard = call[c].heard
  <2>1. CASE CommitFound(c)
    BY <1>2, <2>1, Moves DEF CommitFound, IInv, OthersStay, Places
  <2>2. CASE WriteFound(c)
    BY <1>2, <2>2, Founds DEF WriteFound, IInv, OthersStay
  <2> QED BY <2>1, <2>2
<1>4. /\ row' \subseteq row \cup {call[c].key} /\ copy' \subseteq copy \cup {call[c].key}
      /\ row \subseteq row' /\ copy \subseteq copy'
  BY DEF CommitFound, WriteFound
<1>5. OwnKey(c) BY <1>2, <1>4, Types DEF IInv, OwnKey, valid
<1>6. Proper(c) BY <1>2, <1>3 DEF Proper, Coming
<1>7. Noted(c) BY <1>1, <1>2, <1>3, Counters DEF Noted, IInv, Heard, Coming
<1>8. Alone' BY <1>1, <1>2 DEF IInv, Alone, Kept
<1> QED BY <1>1, <1>3, <1>5, <1>6, <1>7, <1>8, CallStep

LEMMA GetQuotaStep ==
    ASSUME IInv, NEW c \in Calls, GetQuota(c)
    PROVE  IInv'
<1>1. /\ UNCHANGED <<page, stores, thanked, strayed, overlapped>>
      /\ clicks' \in 0..MaxClicks /\ faults' \in 0..MaxFaults
  BY Counters DEF GetQuota, bounds, notes
<1>2. call[c].at = "admitted" /\ call[c].op = "quota" /\ call[c].new = NoKey /\ call[c].key \in told
  BY DEF GetQuota, IInv, NewKeys, Told
<1>3. /\ OthersStay(c) /\ call'[c].at = "done" /\ call'[c].new = NoKey
      /\ call'[c].op = "quota" /\ call'[c].key = call[c].key
  BY <1>2, Finishes DEF GetQuota, IInv, OthersStay
<1>4. Proper(c) BY <1>2, <1>3 DEF Proper, Coming
<1>5. Noted(c) BY <1>1, <1>2, <1>3, Counters DEF Noted, Coming
<1>6. Fits(c) BY <1>2, <1>3 DEF Fits, AtWork
<1> QED BY <1>1, <1>3, <1>4, <1>5, <1>6, StoresStay

(* A deletion that fails after it took effect strays its new key.           *)
LEMMA BreakStep ==
    ASSUME IInv, NEW c \in Calls, Break(c), UNCHANGED clicks, faults' \in 0..MaxFaults
    PROVE  IInv'
<1>1. /\ UNCHANGED <<page, owner, row, tickets, thanked>> /\ clicks' \in 0..MaxClicks
      /\ call[c].at \notin {"free", "done"}
      /\ strayed' = (strayed \/ (call[c].at = "dropping" /\ call[c].key \notin valid'))
      /\ overlapped' = (overlapped \/ Rotating(c))
  BY Counters DEF Break, AtWork, valid
<1>2. /\ OthersStay(c) /\ call'[c].at = "done" /\ call'[c].ok = FALSE /\ call'[c].new = call[c].new
      /\ call'[c].op = call[c].op /\ call'[c].key = call[c].key /\ call'[c].heard = call[c].heard
  BY Finishes DEF Break, IInv, OthersStay
<1>3. Proper(c)
  BY <1>1, <1>2 DEF Proper, IInv, Told, NewKeys, Coming
<1>4. /\ strayed' \in BOOLEAN /\ (strayed => strayed')
      /\ overlapped' \in BOOLEAN /\ (overlapped => overlapped')
  BY <1>1, Counters DEF Rotating
<1>5. Noted(c)
  <2>1. ~strayed' => (call'[c].op = "rotate" /\ call'[c].at # "free" => call'[c].heard)
    BY <1>1, <1>2, <1>4 DEF IInv, Heard
  <2>2. ~strayed' => (Coming(c) => call[c].key \in valid')
    BY <1>1 DEF Coming
  <2> QED BY <1>4, <2>1, <2>2 DEF Noted
<1>6. call[c].at \in {"saved", "dropping"} => Rotating(c)
  BY DEF IInv, NewKeys, Rotating
<1>7. CASE copy' = copy
  <2>1. UNCHANGED stores BY <1>1, <1>7 DEF stores
  <2>2. Fits(c) BY <1>1, <1>2, <1>6 DEF Fits, AtWork
  <2> QED BY <1>1, <1>2, <1>3, <1>5, <2>1, <2>2, StoresStay
<1>8. CASE call[c].at = "dropping" /\ copy' = Without(c)
  <2>1. OwnKey(c)
    BY <1>1, <1>2, <1>8, Types DEF IInv, OwnKey, Without, valid
  <2>2. Alone' BY <1>1, <1>6, <1>8 DEF Alone
  <2> QED BY <1>1, <1>2, <1>3, <1>5, <2>1, <2>2, CallStep
<1> QED BY <1>7, <1>8 DEF Break

LEMMA ForgiveStep ==
    ASSUME IInv, NEW c \in Calls, Forgive(c), UNCHANGED clicks, faults' \in 0..MaxFaults
    PROVE  IInv'
<1>1. /\ UNCHANGED <<page, stores, thanked, strayed, overlapped>> /\ clicks' \in 0..MaxClicks
      /\ call[c].at \in {"commit", "write"}
  BY Counters DEF Forgive, notes
<1>2. call[c].new = NoKey /\ call[c].key \in told
  BY <1>1 DEF IInv, NewKeys, Told
<1>3. /\ OthersStay(c) /\ call'[c].at \in {"row", "admitted"}
      /\ call'[c].op = call[c].op /\ call'[c].key = call[c].key /\ call'[c].new = NoKey
      /\ call'[c].heard = call[c].heard
  BY <1>2, Founds DEF Forgive, IInv, OthersStay
<1>4. Proper(c) BY <1>2, <1>3 DEF Proper, Coming
<1>5. Noted(c) BY <1>1, <1>3, Counters DEF Noted, IInv, Heard, Coming
<1>6. overlapped' BY <1>1 DEF IInv, Alone, Kept
<1>7. Fits(c) BY <1>6 DEF Fits
<1> QED BY <1>1, <1>3, <1>4, <1>5, <1>7, StoresStay

LEMMA LoseStep ==
    ASSUME IInv, NEW c \in Calls, Lose(c), UNCHANGED clicks, faults' \in 0..MaxFaults
    PROVE  IInv'
<1>1. UNCHANGED <<page, stores, thanked, overlapped>> /\ clicks' \in 0..MaxClicks
  BY Counters DEF Lose
<1> DEFINE r == [call[c] EXCEPT !.heard = FALSE]
<1>2. /\ r \in CallRecords /\ r.at = call[c].at /\ r.op = call[c].op /\ r.key = call[c].key
      /\ r.new = call[c].new /\ r.ok = call[c].ok
  BY Types DEF IInv, CallRecords
<1>3. Become(c, r) /\ strayed' = (strayed \/ call[c].op = "rotate")
  BY DEF Lose
<1> HIDE DEF r
<1>4. call'[c] = r /\ OthersStay(c) BY <1>2, <1>3, Becomes DEF IInv, OthersStay
<1>5. Proper(c)
  <2>1. Coming(c)' <=> Coming(c) BY <1>2, <1>4 DEF Coming
  <2> QED BY <1>2, <1>4, <2>1 DEF Proper, IInv, Told, NewKeys
<1>6. strayed' \in BOOLEAN /\ (strayed => strayed') BY <1>3, Counters
<1>7. Noted(c)
  BY <1>1, <1>2, <1>3, <1>4, <1>6, Counters DEF Noted, Coming
<1>8. Fits(c)
  <2> SUFFICES ASSUME ~overlapped' PROVE Fits(c) BY DEF Fits
  <2>1. Kept BY <1>1 DEF IInv, Alone
  <2> QED BY <1>2, <1>4, <2>1 DEF Fits, Kept, AtWork
<1> QED BY <1>1, <1>4, <1>5, <1>7, <1>8, StoresStay

LEMMA ForgetStep ==
    ASSUME IInv, NEW c \in Calls, Forget(c)
    PROVE  IInv'
<1>1. /\ UNCHANGED <<page, stores, thanked, strayed, overlapped>>
      /\ clicks' \in 0..MaxClicks /\ faults' \in 0..MaxFaults
  BY Counters DEF Forget, bounds, notes
<1>2. call'[c] = Free /\ OthersStay(c)
  BY Freed, Becomes DEF Forget, IInv, OthersStay
<1>3. Proper(c) BY <1>2, Freed DEF Proper, Coming
<1>4. call[c].at = "done" BY DEF Forget
<1>5. Noted(c)
  <2>1. ~strayed => call[c].op # "rotate" BY DEF Forget, IInv, Heard
  <2> QED BY <1>1, <1>2, <1>4, <2>1, Freed, Counters DEF Noted, Coming
<1>6. Fits(c) BY <1>2, <1>4, Freed DEF Fits, AtWork
<1> QED BY <1>1, <1>2, <1>3, <1>5, <1>6, StoresStay

-----------------------------------------------------------------------------
(* The steps that change the page.                                         *)

LEMMA TypeStep ==
    ASSUME IInv, Type
    PROVE  IInv'
<1>1. /\ UNCHANGED <<shown, told, call, owner, row, copy, valid, tickets, clicks, faults>>
      /\ UNCHANGED <<strayed, overlapped, thanked>>
      /\ field' \in (told \cap valid) \cup {NoKey}
  BY DEF Type, stores, bounds, notes, valid
<1>2. TypeOK' BY <1>1, Types DEF IInv, TypeOK
<1>3. Told' /\ NewKeys' /\ Heard' /\ Owned' /\ Alone'
  <2>1. Told' /\ NewKeys' /\ Heard' /\ Owned'
    BY <1>1 DEF IInv, Told, NewKeys, Heard, Owned, Coming
  <2>2. Alone' BY <1>1 DEF IInv, Alone, Apart, Kept, Second, AtWork
  <2> QED BY <2>1, <2>2
<1>4. Counted'
  <2>1. \A u \in Users : Due(u)' = Due(u) BY <1>1 DEF Due
  <2> QED BY <1>1, <2>1, CountedKept DEF IInv
<1>5. FieldWorks' BY <1>1 DEF FieldWorks
<1>6. CustomerHasKey' BY <1>1 DEF IInv, CustomerHasKey, Coming
<1> QED BY <1>2, <1>3, <1>4, <1>5, <1>6 DEF IInv

LEMMA ReloadStep ==
    ASSUME IInv, Reload, UNCHANGED clicks, faults' \in 0..MaxFaults
    PROVE  IInv'
<1>1. /\ UNCHANGED <<told, owner, row, copy, valid, tickets, overlapped, thanked>>
      /\ field' = NoKey /\ shown' = Nobody
      /\ strayed' = (strayed \/ \E c \in Calls : call[c].op = "rotate" /\ call[c].heard)
  BY DEF Reload, stores, valid
<1>2. /\ call' \in [Calls -> CallRecords]
      /\ \A c \in Calls : /\ call'[c].at = call[c].at /\ call'[c].op = call[c].op
                          /\ call'[c].key = call[c].key /\ call'[c].new = call[c].new
                          /\ call'[c].ok = call[c].ok
  <2>1. \A c \in Calls :
          LET r == [call[c] EXCEPT !.heard = FALSE]
          IN  /\ r \in CallRecords /\ r.at = call[c].at /\ r.op = call[c].op
              /\ r.key = call[c].key /\ r.new = call[c].new /\ r.ok = call[c].ok
    BY Types DEF IInv, CallRecords
  <2>2. call' = [c \in Calls |-> [call[c] EXCEPT !.heard = FALSE]] BY DEF Reload
  <2> QED BY <2>1, <2>2
<1>3. strayed' \in BOOLEAN /\ (strayed => strayed')
  BY <1>1, Counters
<1>4. TypeOK' BY <1>1, <1>2, <1>3, Counters DEF IInv, TypeOK
<1>5. Told' BY <1>1, <1>2 DEF IInv, Told
<1>6. NewKeys'
  <2>1. \A c \in Calls : Coming(c)' <=> Coming(c) BY <1>2 DEF Coming
  <2> QED BY <1>1, <1>2, <2>1 DEF IInv, NewKeys
<1>7. Heard'
  BY <1>1, <1>2 DEF IInv, Heard
<1>8. Owned' BY <1>1 DEF IInv, Owned
<1>9. Alone'
  <2>1. \A c \in Calls : AtWork(c)' <=> AtWork(c) BY <1>2 DEF AtWork
  <2>2. Apart => Apart' BY <1>2, <2>1 DEF Apart
  <2>3. Kept => Kept' BY <1>1, <1>2 DEF Kept
  <2>4. Second => Second' BY <1>1, <1>2 DEF Second
  <2> QED BY <1>1, <2>2, <2>3, <2>4 DEF IInv, Alone
<1>10. Counted'
  <2>1. \A u \in Users : Due(u)' = Due(u) BY <1>1, <1>2 DEF Due
  <2> QED BY <1>1, <2>1, CountedKept DEF IInv
<1>11. FieldWorks' BY <1>1 DEF FieldWorks
<1>12. CustomerHasKey' BY <1>1, <1>2, <1>3 DEF IInv, CustomerHasKey, Coming
<1> QED BY <1>4, <1>5, <1>6, <1>7, <1>8, <1>9, <1>10, <1>11, <1>12 DEF IInv

(* An answer: a rotation's new key is told, and the call is free again.     *)
LEMMA ReceiveStep ==
    ASSUME IInv, NEW c \in Calls, Receive(c)
    PROVE  IInv'
<1>0. /\ UNCHANGED <<owner, row, copy, valid, tickets, clicks, faults, strayed, overlapped>>
      /\ call[c].at = "done" /\ call[c].key \in told /\ owner[call[c].key] \in Users
      /\ call[c].key \in Keys
  <2>1. call[c].at = "done" /\ call[c].key \in told /\ owner[call[c].key] # Nobody
    BY DEF Receive, IInv, Told
  <2> QED BY <2>1, Types DEF Receive, stores, bounds, IInv, valid
<1>1. call'[c] = Free /\ OthersStay(c)
  BY Freed, Becomes DEF Receive, IInv, OthersStay
<1>2. \/ /\ call[c].op = "rotate" /\ call[c].ok /\ call[c].new \in valid \ told
         /\ field' = call[c].new /\ told' = told \cup {call[c].new}
      \/ /\ ~(call[c].op = "rotate" /\ call[c].ok)
         /\ field' = field /\ told' = told
  <2>1. CASE call[c].op = "rotate" /\ call[c].ok
    <3>1. call[c].new # NoKey /\ call[c].new \in valid \ told
      BY <1>0, <2>1 DEF IInv, NewKeys, Coming
    <3> QED BY <2>1, <3>1 DEF Receive, FieldAfter
  <2>2. CASE ~(call[c].op = "rotate" /\ call[c].ok)
    <3>1. field' = field BY <2>2 DEF Receive, FieldAfter
    <3>2. told' = told \cup ({field} \ {NoKey}) BY <2>2 DEF Receive, FieldAfter
    <3> QED BY <2>2, <3>1, <3>2 DEF IInv, Told
  <2> QED BY <2>1, <2>2
<1>3. told \subseteq told' /\ field' \in told' \cup {NoKey} /\ told' \subseteq told \cup valid
  BY <1>2 DEF IInv, Told
<1>4. TypeOK'
  <2>1. thanked' \in [Users -> Nat]
    BY <1>0, Types DEF Receive, ThankedAfter, IInv
  <2>2. shown' \in Users \cup {Nobody}
    BY <1>0, Types DEF Receive, ShownAfter, IInv
  <2>3. told' \subseteq Keys /\ field' \in Keys \cup {NoKey}
    BY <1>3, Types DEF IInv
  <2> QED BY <1>0, <1>1, <2>1, <2>2, <2>3 DEF IInv, TypeOK, OthersStay
<1>5. Told'
  <2>1. \A k \in told' : owner'[k] # Nobody
    BY <1>0, <1>3, Types DEF IInv, Told
  <2> QED BY <1>1, <1>3, <2>1, Freed DEF IInv, Told, OthersStay
<1>6. NewKeys'
  <2> SUFFICES ASSUME NEW d \in Calls \ {c}
               PROVE  /\ call[d].new # NoKey =>
                            /\ call[d].op = "rotate" /\ call[d].at \in {"saved", "dropping", "done"}
                            /\ call[d].new \in valid \ told'
                            /\ owner[call[d].new] = owner[call[d].key]
                            /\ \A e \in Calls \ {d} : call'[e].new # call[d].new
                      /\ call[d].at \in {"saved", "dropping"} \/ Coming(d) => call[d].new # NoKey
    <3>1. ~Coming(c)' /\ \A d \in Calls \ {c} : Coming(d)' <=> Coming(d)
      BY <1>1, Freed DEF OthersStay, Coming
    <3> QED BY <1>0, <1>1, <3>1, Freed DEF NewKeys, OthersStay
  <2>1. call[d].new # NoKey => call[d].new # call[c].new BY DEF IInv, NewKeys
  <2>2. call[d].new # NoKey => call[d].new \in valid \ told'
    BY <2>1, <1>2 DEF IInv, NewKeys
  <2>3. \A e \in Calls : call'[e].new \in {call[e].new, NoKey} BY <1>1, Freed DEF OthersStay
  <2> QED BY <2>2, <2>3 DEF IInv, NewKeys
<1>7. Heard' BY <1>0, <1>1, Freed DEF IInv, Heard, OthersStay
<1>8. Owned' BY <1>0 DEF IInv, Owned
<1>9. Alone'
  <2>1. Fits(c) BY <1>0, <1>1, Freed DEF Fits, AtWork
  <2> QED BY <1>0, <1>1, <2>1, AloneStays
<1>10. Counted'
  <2> SUFFICES ASSUME NEW u \in Users PROVE thanked'[u] + Cardinality(Due(u)') <= tickets'[u]
    BY DEF Counted
  <2>1. Due(u)' = Due(u) \ {c}
    BY <1>0, <1>1, Freed DEF Due, OthersStay
  <2>2. thanked[u] + Cardinality(Due(u)) <= tickets[u] /\ thanked[u] \in Nat /\ tickets[u] \in Nat
    BY Types DEF IInv, Counted
  <2>3. CASE c \in Due(u)
    <3>1. Cardinality(Due(u)') = Cardinality(Due(u)) - 1
      BY <2>1, <2>3, DueFinite, FS_RemoveElement
    <3>2. thanked'[u] = thanked[u] + 1
      BY <2>3, Types DEF Due, Receive, ThankedAfter, IInv
    <3> QED BY <2>2, <3>1, <3>2, DueFinite, <1>0
  <2>4. CASE c \notin Due(u)
    <3>1. Due(u)' = Due(u) BY <2>1, <2>4
    <3>2. thanked'[u] = thanked[u]
      BY <2>4, <1>0, Types DEF Due, Receive, ThankedAfter, IInv
    <3> QED BY <2>2, <3>1, <3>2, <1>0
  <2> QED BY <2>3, <2>4
<1>11. FieldWorks'
  <2> SUFFICES ASSUME ~strayed, field' = field, field # NoKey, field \notin valid,
                      ~(call[c].op = "rotate" /\ call[c].ok)
               PROVE  Replacing(field)'
    BY <1>0, <1>2 DEF FieldWorks
  <2>1. PICK d \in Calls : Coming(d) /\ call[d].key = field
    BY DEF IInv, FieldWorks, Replacing
  <2>2. d # c BY <2>1, <1>0 DEF Coming
  <2>3. call'[d] = call[d] /\ Coming(d)' BY <1>1, <2>1, <2>2 DEF Coming, OthersStay
  <2> QED BY <2>1, <2>3 DEF Replacing
<1>12. CustomerHasKey'
  <2> SUFFICES ASSUME ~strayed, NEW u \in Users
               PROVE  \E k \in valid : /\ owner[k] = u
                                       /\ k \in told' \/ \E d \in Calls : Coming(d)' /\ call'[d].new = k
    BY <1>0 DEF CustomerHasKey
  <2>1. PICK k \in valid : owner[k] = u /\ (k \in told \/ \E d \in Calls : Coming(d) /\ call[d].new = k)
    BY DEF IInv, CustomerHasKey
  <2>2. CASE k \in told BY <2>1, <2>2, <1>3
  <2>3. ASSUME NEW d \in Calls, Coming(d), call[d].new = k
        PROVE  k \in told' \/ (Coming(d)' /\ call'[d].new = k)
    <3>1. CASE d = c BY <3>1, <2>3, <1>0, <1>2 DEF Coming
    <3>2. CASE d # c BY <3>2, <2>3, <1>1 DEF Coming, OthersStay
    <3> QED BY <3>1, <3>2
  <2> QED BY <2>1, <2>2, <2>3
<1> QED BY <1>4, <1>5, <1>6, <1>7, <1>8, <1>9, <1>10, <1>11, <1>12 DEF IInv

-----------------------------------------------------------------------------
(* The steps that change the stores.                                       *)

LEMMA StoreTierStep ==
    ASSUME IInv, NEW c \in Calls, StoreTier(c)
    PROVE  IInv'
<1>0. /\ UNCHANGED <<field, shown, told, owner, row, copy, valid, clicks, faults>>
      /\ UNCHANGED <<strayed, overlapped, thanked>>
      /\ call[c].at = "admitted" /\ call[c].op = "tier" /\ call[c].new = NoKey
      /\ call[c].key \in told /\ owner[call[c].key] \in Users
  <2>1. call[c].at = "admitted" /\ call[c].op = "tier" /\ call[c].new = NoKey
        /\ call[c].key \in told /\ owner[call[c].key] # Nobody
    BY DEF StoreTier, IInv, Told, NewKeys
  <2> QED BY <2>1, Types DEF StoreTier, page, bounds, notes, IInv, valid
<1> DEFINE v == owner[call[c].key]
<1>1. tickets' = [tickets EXCEPT ![v] = @ + 1] /\ tickets' \in [Users -> Nat]
  BY <1>0, Types DEF StoreTier, TicketsWith, IInv
<1>2. /\ OthersStay(c) /\ call'[c].at = "done" /\ call'[c].op = "tier" /\ call'[c].ok
      /\ call'[c].key = call[c].key /\ call'[c].new = NoKey
  BY <1>0, Finishes DEF StoreTier, IInv, OthersStay
<1>3. TypeOK' BY <1>0, <1>1, <1>2 DEF IInv, TypeOK, OthersStay
<1>4. Told' BY <1>0, <1>2 DEF IInv, Told, OthersStay
<1>5. NewKeys'
  <2>1. \A d \in Calls : call'[d].new = call[d].new BY <1>0, <1>2 DEF OthersStay
  <2>2. \A d \in Calls : Coming(d)' <=> Coming(d) BY <1>0, <1>2 DEF Coming, OthersStay
  <2> QED BY <1>0, <1>2, <2>1, <2>2 DEF IInv, NewKeys, OthersStay
<1>6. Heard' /\ Owned' BY <1>0, <1>2 DEF IInv, Heard, Owned, OthersStay
<1>7. Alone'
  <2>1. Fits(c) BY <1>0, <1>2 DEF Fits, AtWork
  <2> QED BY <1>0, <1>2, <2>1, AloneStays
<1>8. Counted'
  <2> SUFFICES ASSUME NEW u \in Users PROVE thanked'[u] + Cardinality(Due(u)') <= tickets'[u]
    BY DEF Counted
  <2>1. thanked[u] + Cardinality(Due(u)) <= tickets[u] /\ thanked[u] \in Nat /\ tickets[u] \in Nat
    BY Types DEF IInv, Counted
  <2>2. CASE u = v
    <3>1. Due(u)' = Due(u) \cup {c} /\ c \notin Due(u)
      BY <2>2, <1>0, <1>2 DEF Due, OthersStay
    <3>2. Cardinality(Due(u)') = Cardinality(Due(u)) + 1
      BY <3>1, DueFinite, FS_AddElement
    <3>3. tickets'[u] = tickets[u] + 1 BY <2>2, <1>1, Types DEF IInv
    <3> QED BY <2>1, <3>2, <3>3, DueFinite, <1>0
  <2>3. CASE u # v
    <3>1. Due(u)' = Due(u) BY <2>3, <1>0, <1>2 DEF Due, OthersStay
    <3>2. tickets'[u] = tickets[u] BY <2>3, <1>1, Types DEF IInv
    <3> QED BY <2>1, <3>1, <3>2, <1>0
  <2> QED BY <2>2, <2>3
<1>9. \A d \in Calls : Coming(d) => Coming(d)' /\ call'[d] = call[d]
  BY <1>0, <1>2 DEF Coming, OthersStay
<1>10. FieldWorks'
  <2>1. Replacing(field) => Replacing(field)' BY <1>0, <1>9 DEF Replacing
  <2> QED BY <1>0, <2>1 DEF IInv, FieldWorks
<1>11. CustomerHasKey' BY <1>0, <1>9 DEF IInv, CustomerHasKey
<1> QED BY <1>3, <1>4, <1>5, <1>6, <1>7, <1>8, <1>10, <1>11 DEF IInv

(* The new key is nobody's: no call, no history and no customer knows it.   *)
LEMMA SaveNewStep ==
    ASSUME IInv, NEW c \in Calls, SaveNew(c)
    PROVE  IInv'
<1>0. /\ UNCHANGED <<field, shown, told, tickets, clicks, faults, strayed, overlapped, thanked>>
      /\ call[c].at = "admitted" /\ call[c].op = "rotate" /\ call[c].new = NoKey
      /\ call[c].key \in told /\ owner[call[c].key] \in Users /\ call[c].key \in Keys
  <2>1. call[c].at = "admitted" /\ call[c].op = "rotate" /\ call[c].new = NoKey
        /\ call[c].key \in told /\ owner[call[c].key] # Nobody
    BY DEF SaveNew, IInv, Told, NewKeys
  <2> QED BY <2>1, Types DEF SaveNew, page, bounds, notes, IInv
<1>1. PICK n \in Keys : /\ owner[n] = Nobody /\ owner' = Issued(c, n)
                        /\ row' = row \cup {n} /\ copy' = copy \cup {n}
                        /\ valid' = valid \cup {n}
                        /\ Become(c, [call[c] EXCEPT !.at = "saved", !.new = n])
  BY DEF SaveNew, valid
<1>2. /\ owner' \in [Keys -> Users \cup {Nobody}] /\ owner'[n] = owner[call[c].key]
      /\ \A k \in Keys : owner[k] # Nobody => owner'[k] = owner[k]
      /\ n \notin valid /\ n \notin told /\ n # NoKey
  BY <1>0, <1>1, Types DEF Issued, IInv, Told
<1> DEFINE r == [call[c] EXCEPT !.at = "saved", !.new = n]
<1>3. /\ r \in CallRecords /\ r.at = "saved" /\ r.op = "rotate" /\ r.key = call[c].key /\ r.new = n
      /\ r.heard = call[c].heard
  BY <1>0, Types DEF IInv, CallRecords, Places
<1>4. Become(c, r) BY <1>1
<1> HIDE DEF r
<1>5. call'[c] = r /\ OthersStay(c) BY <1>3, <1>4, Becomes DEF IInv, OthersStay
<1>6. \A k \in told \cup valid : owner[k] # Nobody /\ owner'[k] = owner[k] /\ k # n
  BY <1>2, Types DEF IInv, Told
<1>7. \A d \in Calls : /\ call[d].new # NoKey => call[d].new \in valid /\ call[d].new # n
                       /\ call[d].at # "free" => /\ call[d].key \in told /\ call[d].key # n
                                                 /\ owner'[call[d].key] = owner[call[d].key]
  BY <1>6 DEF IInv, NewKeys, Told
<1>8. TypeOK'
  BY <1>0, <1>1, <1>2, <1>5, <1>6, Types DEF IInv, TypeOK, OthersStay
<1>9. Told'
  BY <1>0, <1>3, <1>5, <1>6 DEF IInv, Told, OthersStay
<1>10. NewKeys'
  <2> SUFFICES ASSUME NEW d \in Calls
               PROVE  /\ call'[d].new # NoKey =>
                            /\ call'[d].op = "rotate"
                            /\ call'[d].at \in {"saved", "dropping", "done"}
                            /\ call'[d].new \in valid' \ told
                            /\ owner'[call'[d].new] = owner'[call'[d].key]
                            /\ \A e \in Calls \ {d} : call'[e].new # call'[d].new
                      /\ call'[d].at \in {"saved", "dropping"} \/ Coming(d)' => call'[d].new # NoKey
    BY <1>0 DEF NewKeys
  <2>1. CASE d = c
    <3>1. owner'[n] = owner'[call[c].key] BY <1>0, <1>2, <1>7
    <3>2. \A e \in Calls \ {c} : call'[e].new # n BY <1>2, <1>5, <1>7 DEF OthersStay
    <3> QED BY <2>1, <3>1, <3>2, <1>1, <1>2, <1>3, <1>5
  <2>2. CASE d # c
    <3>1. call'[d] = call[d] BY <2>2, <1>5 DEF OthersStay
    <3>2. call[d].new # NoKey =>
             /\ call[d].op = "rotate" /\ call[d].at \in {"saved", "dropping", "done"}
             /\ call[d].new \in valid \ told /\ owner[call[d].new] = owner[call[d].key]
             /\ \A e \in Calls \ {d} : call[e].new # call[d].new
      BY DEF IInv, NewKeys
    <3>3. call[d].new # NoKey => owner'[call[d].new] = owner'[call[d].key]
      BY <3>2, <1>6, <1>7
    <3>4. call[d].new # NoKey => \A e \in Calls \ {d} : call'[e].new # call[d].new
      BY <3>2, <1>3, <1>5, <1>7 DEF OthersStay
    <3>5. call[d].at \in {"saved", "dropping"} \/ Coming(d) => call[d].new # NoKey
      BY DEF IInv, NewKeys
    <3>6. Coming(d)' <=> Coming(d) BY <3>1 DEF Coming
    <3> QED BY <3>1, <3>2, <3>3, <3>4, <3>5, <3>6, <1>1
  <2> QED BY <2>1, <2>2
<1>11. Heard' BY <1>0, <1>3, <1>5 DEF IInv, Heard, OthersStay
<1>12. Owned' BY <1>1, <1>6 DEF IInv, Owned
<1>13. Alone'
  <2> SUFFICES ASSUME ~overlapped PROVE Apart' /\ Kept' /\ Second'
    BY <1>0 DEF Alone
  <2>1. Apart /\ Kept /\ Second BY DEF IInv, Alone
  <2>2. /\ \A d \in Calls \ {c} : call'[d] = call[d] /\ (AtWork(d)' <=> AtWork(d))
        /\ AtWork(c) /\ call'[c].at = "saved" /\ call'[c].key = call[c].key
        /\ call'[c].op = "rotate" /\ call'[c].new = n
    BY <1>0, <1>3, <1>5 DEF OthersStay, AtWork
  <2>3. Apart' BY <2>1, <2>2, <1>0 DEF Apart
  <2>4. call[c].key \in row /\ call[c].key \in valid BY <2>1, <1>0 DEF Kept, valid
  <2>5. Kept'
    <3> SUFFICES ASSUME NEW d \in Calls \ {c}
                 PROVE  /\ call[d].op = "rotate" /\ call[d].at \in {"row", "admitted", "saved"}
                              => call[d].key \in row'
                        /\ call[d].at = "copy" => call[d].key \notin valid'
                        /\ call[d].at \notin {"commit", "write"}
                        /\ call[d].at = "dropping" => call[d].key \notin row'
      BY <1>1, <2>2, <2>4 DEF Kept
    <3> QED BY <2>1, <1>1, <1>7 DEF Kept
  <2>6. \A k \in copy' \ row' : \E d \in Calls : call'[d].at = "dropping" /\ call'[d].key = k
    <3> SUFFICES ASSUME NEW k \in copy \ row
                 PROVE  \E d \in Calls : call'[d].at = "dropping" /\ call'[d].key = k
      BY <1>1
    <3>1. PICK d \in Calls : call[d].at = "dropping" /\ call[d].key = k BY <2>1 DEF Second
    <3> QED BY <3>1, <1>0, <2>2
  <2>7. \A l \in valid : owner[l] = owner[call[c].key] => l = call[c].key
    <3> SUFFICES ASSUME NEW l \in valid, owner[l] = owner[call[c].key], l # call[c].key
                 PROVE  FALSE
      OBVIOUS
    <3>1. PICK d \in Calls : /\ call[d].at \in {"saved", "dropping"}
                             /\ {l, call[c].key} = {call[d].key, call[d].new}
      BY <2>1, <2>4 DEF Second
    <3>2. call[d].new # NoKey /\ call[d].new \notin told BY <3>1 DEF IInv, NewKeys
    <3>3. call[c].key = call[d].key BY <3>1, <3>2, <1>0
    <3>4. AtWork(d) BY <3>1 DEF AtWork
    <3> QED BY <3>1, <3>3, <3>4, <2>1, <2>2, <1>0 DEF Apart
  <2>8. ASSUME NEW k \in valid', NEW l \in valid', owner'[k] = owner'[l], k # l
        PROVE  \E d \in Calls : /\ call'[d].at \in {"saved", "dropping"}
                                /\ {k, l} = {call'[d].key, call'[d].new}
    <3>1. CASE k \in valid /\ l \in valid
      <4>1. PICK d \in Calls : /\ call[d].at \in {"saved", "dropping"}
                               /\ {k, l} = {call[d].key, call[d].new}
        BY <2>1, <2>8, <3>1, <1>6 DEF Second
      <4> QED BY <4>1, <2>2, <1>0
    <3>2. CASE ~(k \in valid /\ l \in valid)
      <4>1. \/ k = n /\ l \in valid /\ owner[l] = owner[call[c].key]
            \/ l = n /\ k \in valid /\ owner[k] = owner[call[c].key]
        BY <3>2, <2>8, <1>1, <1>2, <1>6
      <4>2. {k, l} = {call[c].key, n} BY <4>1, <2>7
      <4> QED BY <4>2, <2>2
    <3> QED BY <3>1, <3>2
  <2>9. Second' BY <2>6, <2>8 DEF Second
  <2> QED BY <2>3, <2>5, <2>9
<1>14. Counted'
  <2>1. \A u \in Users : Due(u)' \subseteq Due(u)
    BY <1>3, <1>5, <1>7 DEF Due, OthersStay
  <2> QED BY <2>1, <1>0, CountedKept DEF IInv
<1>15. \A d \in Calls : Coming(d) => Coming(d)' /\ call'[d] = call[d]
  BY <1>0, <1>5 DEF Coming, OthersStay
<1>16. FieldWorks'
  <2>1. Replacing(field) => Replacing(field)' BY <1>0, <1>15 DEF Replacing
  <2> QED BY <1>0, <1>1, <2>1 DEF IInv, FieldWorks
<1>17. CustomerHasKey'
  BY <1>0, <1>1, <1>6, <1>15 DEF IInv, CustomerHasKey
<1> QED
  BY <1>8, <1>9, <1>10, <1>11, <1>12, <1>13, <1>14, <1>16, <1>17 DEF IInv

(* The row of the old key is gone; its copy makes it work still, or the new *)
(* key is on its way.                                                       *)
LEMMA DeleteRowStep ==
    ASSUME IInv, NEW c \in Calls, DeleteRow(c)
    PROVE  IInv'
<1> DEFINE key == call[c].key
           new == call[c].new
<1>1. /\ UNCHANGED <<page, owner, copy, tickets, thanked, strayed, overlapped>>
      /\ clicks' \in 0..MaxClicks /\ faults' \in 0..MaxFaults
      /\ call[c].at = "saved" /\ row' = row \ {key}
  BY Counters DEF DeleteRow, bounds, notes
<1>2. /\ new # NoKey /\ call[c].op = "rotate" /\ new \in valid \ told /\ key \in told /\ key # new
  BY <1>1 DEF IInv, NewKeys, Told
<1>3. /\ OthersStay(c) /\ call'[c].op = "rotate" /\ call'[c].key = key /\ call'[c].new = new
      /\ call'[c].heard = call[c].heard
      /\ \/ call'[c].at = "dropping" /\ key \in row
         \/ call'[c].at = "done" /\ call'[c].ok /\ key \notin row
  <2>1. CASE key \in row
    BY <1>2, <2>1, Moves DEF DeleteRow, IInv, OthersStay, Places
  <2>2. CASE key \notin row
    BY <1>2, <2>2, Finishes DEF DeleteRow, IInv, OthersStay
  <2> QED BY <2>1, <2>2
<1>4. Coming(c)' BY <1>3 DEF Coming
<1>5. Proper(c) BY <1>2, <1>3 DEF Proper
<1>6. Noted(c)
  BY <1>1, <1>2, <1>3, <1>4, Counters DEF Noted, IInv, Heard
<1>7. OwnKey(c)
  BY <1>1, <1>3, <1>4, Types DEF IInv, OwnKey, valid
<1>8. Alone'
  <2> SUFFICES ASSUME ~overlapped PROVE Apart' /\ Kept' /\ Second'
    BY <1>1 DEF Alone
  <2>1. Apart /\ Kept /\ Second BY DEF IInv, Alone
  <2>2. key \in row /\ call'[c].at = "dropping" BY <1>1, <1>2, <1>3, <2>1 DEF Kept
  <2>3. /\ AtWork(c) /\ AtWork(c)'
        /\ \A d \in Calls \ {c} : call'[d] = call[d] /\ (AtWork(d)' <=> AtWork(d))
    BY <1>1, <1>3, <2>2 DEF OthersStay, AtWork
  <2>4. Apart'
    BY <2>1, <2>3, <1>2, <1>3 DEF Apart
  <2>5. valid' \subseteq valid BY <1>1 DEF valid
  <2>6. Kept'
    <3> SUFFICES ASSUME NEW d \in Calls \ {c}
                 PROVE  /\ call[d].op = "rotate" /\ call[d].at \in {"row", "admitted", "saved"}
                              => call[d].key \in row'
                        /\ call[d].at = "copy" => call[d].key \notin valid'
                        /\ call[d].at \notin {"commit", "write"}
                        /\ call[d].at = "dropping" => call[d].key \notin row'
      BY <1>1, <1>3, <2>2, <2>3 DEF Kept
    <3>1. call[d].op = "rotate" /\ call[d].at \in {"row", "admitted", "saved"} => call[d].key # key
      BY <2>1, <2>3 DEF Apart, AtWork
    <3> QED BY <3>1, <1>1, <2>1, <2>5 DEF Kept
  <2>7. \A k \in copy' \ row' : \E d \in Calls : call'[d].at = "dropping" /\ call'[d].key = k
    <3> SUFFICES ASSUME NEW k \in copy \ row, k # key
                 PROVE  \E d \in Calls : call'[d].at = "dropping" /\ call'[d].key = k
      BY <1>1, <1>3, <2>2
    <3>1. PICK d \in Calls : call[d].at = "dropping" /\ call[d].key = k BY <2>1 DEF Second
    <3> QED BY <3>1, <1>1, <2>3
  <2>8. ASSUME NEW k \in valid', NEW l \in valid', owner[k] = owner[l], k # l
        PROVE  \E d \in Calls : /\ call'[d].at \in {"saved", "dropping"}
                                /\ {k, l} = {call'[d].key, call'[d].new}
    <3>1. PICK d \in Calls : call[d].at \in {"saved", "dropping"} /\ {k, l} = {call[d].key, call[d].new}
      BY <2>1, <2>5, <2>8 DEF Second
    <3>2. CASE d = c BY <3>1, <3>2, <1>3, <2>2
    <3>3. CASE d # c BY <3>1, <3>3, <2>3
    <3> QED BY <3>2, <3>3
  <2>9. Second' BY <2>7, <2>8, <1>1 DEF Second
  <2> QED BY <2>4, <2>6, <2>9
<1> QED BY <1>1, <1>3, <1>5, <1>6, <1>7, <1>8, CallStep

(* The copy of the old key is gone, and the new one is on its way.          *)
LEMMA DropCopyStep ==
    ASSUME IInv, NEW c \in Calls, DropCopy(c)
    PROVE  IInv'
<1> DEFINE key == call[c].key
           new == call[c].new
<1>1. /\ UNCHANGED <<page, owner, row, tickets, thanked, strayed, overlapped>>
      /\ clicks' \in 0..MaxClicks /\ faults' \in 0..MaxFaults
      /\ call[c].at = "dropping" /\ copy' = copy \ {key}
  BY Counters DEF DropCopy, Without, bounds, notes
<1>2. /\ new # NoKey /\ call[c].op = "rotate" /\ new \in valid \ told /\ key \in told /\ key # new
  BY <1>1 DEF IInv, NewKeys, Told
<1>3. /\ OthersStay(c) /\ call'[c].op = "rotate" /\ call'[c].key = key /\ call'[c].new = new
      /\ call'[c].heard = call[c].heard /\ call'[c].at = "done" /\ call'[c].ok
  BY <1>2, Finishes DEF DropCopy, IInv, OthersStay
<1>4. Coming(c)' BY <1>3 DEF Coming
<1>5. Proper(c) BY <1>2, <1>3 DEF Proper
<1>6. Noted(c)
  BY <1>1, <1>2, <1>3, <1>4, Counters DEF Noted, IInv, Heard
<1>7. OwnKey(c)
  BY <1>1, <1>3, <1>4, Types DEF IInv, OwnKey, valid
<1>8. Alone'
  <2> SUFFICES ASSUME ~overlapped PROVE Apart' /\ Kept' /\ Second'
    BY <1>1 DEF Alone
  <2>1. Apart /\ Kept /\ Second BY DEF IInv, Alone
  <2>2. key \notin valid' /\ valid' \subseteq valid BY <1>1, <2>1 DEF Kept, valid
  <2>3. /\ ~AtWork(c)'
        /\ \A d \in Calls \ {c} : call'[d] = call[d] /\ (AtWork(d)' <=> AtWork(d))
    BY <1>3 DEF OthersStay, AtWork
  <2>4. Apart' BY <2>1, <2>3 DEF Apart
  <2>5. Kept' BY <1>1, <1>3, <2>1, <2>2, <2>3 DEF Kept
  <2>6. \A k \in copy' \ row' : \E d \in Calls : call'[d].at = "dropping" /\ call'[d].key = k
    <3> SUFFICES ASSUME NEW k \in copy \ row, k # key
                 PROVE  \E d \in Calls : call'[d].at = "dropping" /\ call'[d].key = k
      BY <1>1
    <3>1. PICK d \in Calls : call[d].at = "dropping" /\ call[d].key = k BY <2>1 DEF Second
    <3> QED BY <3>1, <2>3
  <2>7. ASSUME NEW k \in valid', NEW l \in valid', owner[k] = owner[l], k # l
        PROVE  \E d \in Calls : /\ call'[d].at \in {"saved", "dropping"}
                                /\ {k, l} = {call'[d].key, call'[d].new}
    <3>1. PICK d \in Calls : call[d].at \in {"saved", "dropping"} /\ {k, l} = {call[d].key, call[d].new}
      BY <2>1, <2>2, <2>7 DEF Second
    <3>2. d # c BY <3>1, <2>2, <2>7
    <3> QED BY <3>1, <3>2, <2>3
  <2>8. Second' BY <2>6, <2>7, <1>1 DEF Second
  <2> QED BY <2>4, <2>5, <2>8
<1> QED BY <1>1, <1>3, <1>5, <1>6, <1>7, <1>8, CallStep

-----------------------------------------------------------------------------
(* Every step preserves the invariant.                                      *)
LEMMA StepIInv == IInv /\ [Next]_vars => IInv'
<1> SUFFICES ASSUME IInv, [Next]_vars PROVE IInv' OBVIOUS
<1>1. CASE Type BY <1>1, TypeStep
<1>2. CASE ClickLoad \/ ClickRotate \/ SubmitTier
  BY <1>2, ClickStep DEF ClickLoad, ClickRotate, SubmitTier, Ops
<1>3. ASSUME NEW c \in Calls, Serve(c) \/ Receive(c) \/ Forget(c) PROVE IInv'
  BY <1>3, ReadRowStep, ReadCopyStep, SaveFoundStep, GetQuotaStep, StoreTierStep,
     SaveNewStep, DeleteRowStep, DropCopyStep, ReceiveStep, ForgetStep DEF Serve
<1>4. CASE Fault
  <2>1. UNCHANGED clicks /\ faults' \in 0..MaxFaults
    BY <1>4, Counters, BoundsAssumption DEF Fault
  <2> QED BY <1>4, <2>1, BreakStep, ForgiveStep, LoseStep, ReloadStep DEF Fault
<1>5. CASE UNCHANGED vars
  <2>1. \A u \in Users : Due(u)' = Due(u)
    BY <1>5 DEF Due, vars, page, stores, bounds, notes
  <2>2. Counted'
    BY <1>5, <2>1, CountedKept DEF IInv, vars, page, stores, bounds, notes
  <2>3. /\ UNCHANGED <<field, shown, told, call, owner, row, copy, valid, tickets>>
        /\ UNCHANGED <<clicks, faults, strayed, overlapped, thanked>>
    BY <1>5 DEF vars, page, stores, bounds, notes, valid
  <2>4. TypeOK' /\ Told' /\ NewKeys' BY <2>3 DEF IInv, TypeOK, Told, NewKeys, Coming
  <2>5. Heard' /\ Owned' BY <2>3 DEF IInv, Heard, Owned
  <2>6. Alone' BY <2>3 DEF IInv, Alone, Apart, Kept, Second, AtWork
  <2>7. FieldWorks' /\ CustomerHasKey'
    BY <2>3 DEF IInv, FieldWorks, Replacing, CustomerHasKey, Coming
  <2> QED BY <2>2, <2>4, <2>5, <2>6, <2>7 DEF IInv
<1> QED BY <1>1, <1>2, <1>3, <1>4, <1>5 DEF Next

LEMMA PortalInvariant == Spec => []IInv
BY InitIInv, StepIInv, PTL DEF Spec

-----------------------------------------------------------------------------
(* The page, its calls and the stores keep their types.                     *)
THEOREM PortalTypeCorrect == Spec => []TypeOK
BY PortalInvariant, PTL DEF IInv

(* However many calls run at once, whatever one saves again of a key that   *)
(* another deletes, and in whatever order their answers come: while no new  *)
(* key strayed, the key in the field works or is about to be replaced.      *)
THEOREM TheFieldWorks == Spec => []FieldWorks
BY PortalInvariant, PTL DEF IInv

(* ... and every customer has a key that the page knows or will be told.    *)
THEOREM NobodyIsLockedOut == Spec => []CustomerHasKey
BY PortalInvariant, PTL DEF IInv

(* Rotations that never break off, nor run beside another call with their   *)
(* key, leave a customer one key.                                           *)
THEOREM OneKeyIsLeft == Spec => []OneKeyAtRest
<1>1. IInv => OneKeyAtRest
  <2> SUFFICES ASSUME IInv, ~overlapped, Resting, NEW u \in Users
               PROVE  Cardinality({k \in valid : owner[k] = u}) = 1
    BY DEF OneKeyAtRest
  <2>1. PICK k \in valid : owner[k] = u BY DEF IInv, Owned
  <2>2. \A c \in Calls : call[c].at \notin {"saved", "dropping"}
    BY DEF Resting, Rotating, IInv, NewKeys
  <2>3. \A l \in valid : owner[l] = u => l = k
    BY <2>1, <2>2 DEF IInv, Alone, Second
  <2>4. {l \in valid : owner[l] = u} = {k} BY <2>1, <2>3
  <2> QED BY <2>4, FS_Singleton
<1> QED BY <1>1, PortalInvariant, PTL

(* What the page called submitted is stored.                                *)
THEOREM RequestsAreStored == Spec => []TicketsStored
<1>1. IInv => TicketsStored
  <2> SUFFICES ASSUME IInv, NEW u \in Users PROVE thanked[u] <= tickets[u]
    BY DEF TicketsStored
  <2>1. thanked[u] + Cardinality(Due(u)) <= tickets[u] BY DEF IInv, Counted
  <2> QED BY <2>1, DueFinite, Types DEF IInv
<1> QED BY <1>1, PortalInvariant, PTL
=============================================================================
