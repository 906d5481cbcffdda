------------------------------- MODULE Portal -------------------------------
(***************************************************************************)
(* The developer portal: the page in a customer's browser                  *)
(* (gateflow/static/portal/app.js) and the endpoints it calls              *)
(* (gateflow/portal.py): quota, key rotation and tier requests.            *)
(*                                                                         *)
(* Nothing on the page waits for anything else: every click starts a call  *)
(* with the key that is in the field at that moment, any number of calls   *)
(* are in flight, and each answer changes the page when it arrives.        *)
(*                                                                         *)
(* An endpoint resolves its key in the stores as get_key_record does: the  *)
(* row in the database, then the copy in Redis, which is saved again; each *)
(* is a step, and other calls run between any two.  A quota stands for     *)
(* every call with a key that does not change it, a proxied request too;   *)
(* counters, the records themselves and what the gateways cache of them    *)
(* are module KeyStore's.  Messages of the page are left out, but for the  *)
(* one that says that a tier request was submitted.                        *)
(***************************************************************************)
EXTENDS Naturals, FiniteSets

CONSTANTS
    Keys,           \* API keys, more than will ever be issued
    Users,          \* the customers who share the browser
    NoKey,
    Nobody,
    First,          \* First[u]: the key customer u has at the start
    Calls,          \* calls in flight, used again and again
    MaxClicks,      \* bound: clicks
    MaxFaults       \* bound: calls that break, lost answers and reloads

ASSUME FirstAssumption ==
    /\ First \in [Users -> Keys]
    /\ \A u, v \in Users : First[u] = First[v] => u = v
ASSUME CallsAssumption == IsFiniteSet(Calls)
ASSUME NamesAssumption == NoKey \notin Keys /\ Nobody \notin Users
ASSUME BoundsAssumption == MaxClicks \in Nat /\ MaxFaults \in Nat

VARIABLES
    field,          \* the key in the input field, or NoKey
    shown,          \* whose quota the page shows; with it the actions appear
    call,           \* call[c]: what call c is doing
    owner,          \* owner[k]: to whom k was issued, or Nobody
    row,            \* the keys in the database
    copy,           \* the keys with a copy in Redis
    tickets,        \* tickets[u]: tier requests stored for u
    clicks,         \* clicks so far
    faults,         \* calls broken, answers lost and reloads so far
    told,           \* history: the keys that were in the field
    strayed,        \* history: a new key never reached the page: the answer
                    \* got lost, or became an error when the old key was gone
    overlapped,     \* history: a rotation ran beside another call with its
                    \* key, or broke off
    thanked         \* history: thanked[u]: tier requests the page called submitted

page == <<field, shown, told>>
stores == <<owner, row, copy, tickets>>
bounds == <<clicks, faults>>
notes == <<strayed, overlapped, thanked>>
vars == <<page, call, stores, bounds, notes>>

-----------------------------------------------------------------------------
Ops == {"quota", "rotate", "tier"}

(* A call is on its way (sent), reads its key (row, copy), saves what it    *)
(* found in the copy (commit, write), is authenticated (admitted), deletes  *)
(* the key it replaced (saved, dropping), or is done.                       *)
Places == {"free", "sent", "row", "copy", "commit", "write", "admitted", "saved",
           "dropping", "done"}

(* authenticate reads the record of the key it has resolved a second time,  *)
(* unless it is cached.  Nobody hears the answer of a call whose connection *)
(* was lost.                                                                *)
CallRecords == [at : Places, stage : {"resolve", "reload"}, op : Ops,
                key : Keys \cup {NoKey}, new : Keys \cup {NoKey},
                ok : BOOLEAN, heard : BOOLEAN]

Free == [at |-> "free", stage |-> "resolve", op |-> "quota", key |-> NoKey, new |-> NoKey,
         ok |-> FALSE, heard |-> FALSE]

(* The keys that are accepted.                                              *)
valid == row \cup copy

TypeOK ==
    /\ field \in Keys \cup {NoKey}
    /\ shown \in Users \cup {Nobody}
    /\ call \in [Calls -> CallRecords]
    /\ owner \in [Keys -> Users \cup {Nobody}]
    /\ row \subseteq Keys
    /\ copy \subseteq Keys
    /\ \A k \in valid : owner[k] # Nobody
    /\ tickets \in [Users -> Nat]
    /\ clicks \in 0..MaxClicks
    /\ faults \in 0..MaxFaults
    /\ told \subseteq Keys
    /\ strayed \in BOOLEAN
    /\ overlapped \in BOOLEAN
    /\ thanked \in [Users -> Nat]

Init ==
    /\ field = NoKey
    /\ shown = Nobody
    /\ call = [c \in Calls |-> Free]
    /\ owner = [k \in Keys |->
                  IF \E u \in Users : First[u] = k THEN CHOOSE u \in Users : First[u] = k
                                                   ELSE Nobody]
    /\ row = {First[u] : u \in Users}
    /\ copy = row
    /\ tickets = [u \in Users |-> 0]
    /\ clicks = 0
    /\ faults = 0
    /\ told = {First[u] : u \in Users}
    /\ strayed = FALSE
    /\ overlapped = FALSE
    /\ thanked = [u \in Users |-> 0]

Become(c, r) == call' = [call EXCEPT ![c] = r]

AtWork(c) == call[c].at \notin {"free", "sent", "done"}

(* A rotation that changes the stores.                                      *)
Rotating(c) == call[c].op = "rotate" /\ call[c].at \in {"admitted", "saved", "dropping"}

-----------------------------------------------------------------------------
(* The page.                                                               *)

(* The customer types a key that works, or clears the field.                *)
Type ==
    /\ field' \in (told \cap valid) \cup {NoKey}
    /\ UNCHANGED <<shown, told, call, stores, bounds, notes>>

(* withKey: with an empty field there is no call.                           *)
Click(op) ==
    /\ field # NoKey
    /\ clicks < MaxClicks
    /\ clicks' = clicks + 1
    /\ \E c \in Calls :
        /\ call[c].at = "free"
        /\ Become(c, [Free EXCEPT !.at = "sent", !.op = op, !.key = field, !.heard = TRUE])
    /\ UNCHANGED <<page, stores, faults, notes>>

ClickLoad == Click("quota")

(* These two buttons are hidden until a quota was shown.                    *)
ClickRotate == shown # Nobody /\ Click("rotate")
SubmitTier == shown # Nobody /\ Click("tier")

(* What an answer changes: loadQuota shows a quota, and with it the         *)
(* buttons; rotateKey puts the new key into the field; requestTier says     *)
(* that the request was submitted.  An error changes nothing but a message. *)
ShownAfter(c) ==
    IF call[c].op = "quota" /\ call[c].ok THEN owner[call[c].key] ELSE shown

FieldKept(c) == field
FieldAfter(c) ==
    IF call[c].op = "rotate" /\ call[c].ok THEN call[c].new ELSE field

ThankedAfter(c) ==
    IF call[c].op = "tier" /\ call[c].ok
    THEN [thanked EXCEPT ![owner[call[c].key]] = @ + 1] ELSE thanked

Receive(c) ==
    /\ call[c].at = "done"
    /\ call[c].heard
    /\ shown' = ShownAfter(c)
    /\ field' = FieldAfter(c)
    /\ told' = told \cup ({FieldAfter(c)} \ {NoKey})
    /\ thanked' = ThankedAfter(c)
    /\ Become(c, Free)
    /\ UNCHANGED <<stores, bounds, strayed, overlapped>>

-----------------------------------------------------------------------------
(* The endpoints.                                                          *)

Finish(c, ok) == Become(c, [call[c] EXCEPT !.at = "done", !.ok = ok])

(* The key was found.  Whether it is cached is any of the two.              *)
Found(c) ==
    \/ Become(c, [call[c] EXCEPT !.at = "admitted", !.stage = "resolve"])
    \/ /\ call[c].stage = "resolve"
       /\ Become(c, [call[c] EXCEPT !.at = "row", !.stage = "reload"])

(* Another call with the key of c is at work, and one of them rotates it.   *)
Meets(c) ==
    \E d \in Calls \ {c} :
        /\ AtWork(d) /\ call[d].key = call[c].key
        /\ call[c].op = "rotate" \/ call[d].op = "rotate"

ReadRow(c) ==
    /\ call[c].at \in {"sent", "row"}
    /\ IF call[c].key \in row
       THEN Found(c)
       ELSE Become(c, [call[c] EXCEPT !.at = "copy"])
    /\ overlapped' = (overlapped \/ (call[c].at = "sent" /\ Meets(c)))
    /\ UNCHANGED <<page, stores, bounds, strayed, thanked>>

ReadCopy(c) ==
    /\ call[c].at = "copy"
    /\ IF call[c].key \in copy
       THEN Become(c, [call[c] EXCEPT !.at = "commit"])
       ELSE Finish(c, FALSE)
    /\ UNCHANGED <<page, stores, bounds, notes>>

(* The backfill: the key that was in the copy is saved in both stores.      *)
CommitFound(c) ==
    /\ call[c].at = "commit"
    /\ row' = row \cup {call[c].key}
    /\ Become(c, [call[c] EXCEPT !.at = "write"])
    /\ UNCHANGED <<page, owner, copy, tickets, bounds, notes>>

WriteFound(c) ==
    /\ call[c].at = "write"
    /\ copy' = copy \cup {call[c].key}
    /\ Found(c)
    /\ UNCHANGED <<page, owner, row, tickets, bounds, notes>>

GetQuota(c) ==
    /\ call[c].at = "admitted" /\ call[c].op = "quota"
    /\ Finish(c, TRUE)
    /\ UNCHANGED <<page, stores, bounds, notes>>

(* create_tier_request: the row; the message on the stream may fail and     *)
(* changes nothing.                                                         *)
TicketsWith(u) == [tickets EXCEPT ![u] = @ + 1]

StoreTier(c) ==
    /\ call[c].at = "admitted" /\ call[c].op = "tier"
    /\ tickets' = TicketsWith(owner[call[c].key])
    /\ Finish(c, TRUE)
    /\ UNCHANGED <<page, owner, row, copy, bounds, notes>>

(* rotate_api_key: the record is saved under a key never issued before,     *)
(* which nobody can use yet, so that both stores are one step; then the     *)
(* row of the old key is deleted, and after it the copy.  With no row to    *)
(* delete the copy is left alone and the new key is answered all the same.  *)
IssuedToNobody(c, k) == owner
Issued(c, k) == [owner EXCEPT ![k] = owner[call[c].key]]

SaveNew(c) ==
    /\ call[c].at = "admitted" /\ call[c].op = "rotate"
    /\ \E k \in Keys :
        /\ owner[k] = Nobody
        /\ owner' = Issued(c, k)
        /\ row' = row \cup {k}
        /\ copy' = copy \cup {k}
        /\ Become(c, [call[c] EXCEPT !.at = "saved", !.new = k])
    /\ UNCHANGED <<page, tickets, bounds, notes>>

DeleteRow(c) ==
    /\ call[c].at = "saved"
    /\ IF call[c].key \in row
       THEN Become(c, [call[c] EXCEPT !.at = "dropping"])
       ELSE Finish(c, TRUE)
    /\ row' = row \ {call[c].key}
    /\ UNCHANGED <<page, owner, copy, tickets, bounds, notes>>

WithoutNothing(c) == copy
Without(c) == copy \ {call[c].key}

DropCopy(c) ==
    /\ call[c].at = "dropping"
    /\ copy' = Without(c)
    /\ Finish(c, TRUE)
    /\ UNCHANGED <<page, owner, row, tickets, bounds, notes>>

-----------------------------------------------------------------------------
(* Failures.                                                               *)

(* An endpoint breaks off: the answer is an error.  A command that had its  *)
(* effect and fails all the same breaks off after its step, and the last    *)
(* one, which deletes the copy, takes the old key away and no answer tells  *)
(* the new one.                                                             *)
Break(c) ==
    /\ call[c].at = "sent" \/ AtWork(c)
    /\ Finish(c, FALSE)
    /\ \/ UNCHANGED copy
       \/ call[c].at = "dropping" /\ copy' = Without(c)
    /\ strayed' = (strayed \/ (call[c].at = "dropping" /\ call[c].key \notin row \cup copy'))
    /\ overlapped' = (overlapped \/ Rotating(c))
    /\ UNCHANGED <<page, owner, row, tickets, thanked>>

(* get_key_record forgives a find that could not be saved.                  *)
Forgive(c) ==
    /\ call[c].at \in {"commit", "write"}
    /\ Found(c)
    /\ UNCHANGED <<page, stores, notes>>

(* The connection is lost; the endpoint goes on.                            *)
Lose(c) ==
    /\ call[c].at # "free" /\ call[c].heard
    /\ Become(c, [call[c] EXCEPT !.heard = FALSE])
    /\ strayed' = (strayed \/ call[c].op = "rotate")
    /\ UNCHANGED <<page, stores, overlapped, thanked>>

(* The page is loaded again, and hears none of its calls.                   *)
Reload ==
    /\ field' = NoKey
    /\ shown' = Nobody
    /\ call' = [c \in Calls |-> [call[c] EXCEPT !.heard = FALSE]]
    /\ strayed' = (strayed \/ \E c \in Calls : call[c].op = "rotate" /\ call[c].heard)
    /\ UNCHANGED <<told, stores, overlapped, thanked>>

Fault ==
    /\ faults < MaxFaults
    /\ faults' = faults + 1
    /\ UNCHANGED clicks
    /\ \/ \E c \in Calls : Break(c) \/ Forgive(c) \/ Lose(c)
       \/ Reload

(* Nobody reads an answer that is not heard.                                *)
Forget(c) ==
    /\ call[c].at = "done" /\ ~call[c].heard
    /\ Become(c, Free)
    /\ UNCHANGED <<page, stores, bounds, notes>>

-----------------------------------------------------------------------------
Serve(c) ==
    \/ ReadRow(c) \/ ReadCopy(c) \/ CommitFound(c) \/ WriteFound(c)
    \/ GetQuota(c) \/ StoreTier(c) \/ SaveNew(c) \/ DeleteRow(c) \/ DropCopy(c)

Next ==
    \/ Type \/ ClickLoad \/ ClickRotate \/ SubmitTier
    \/ \E c \in Calls : Serve(c) \/ Receive(c) \/ Forget(c)
    \/ Fault

Spec == Init /\ [][Next]_vars

-----------------------------------------------------------------------------
(* Safety.                                                                 *)

(* A rotation that took the row of its key away, and whose answer is to     *)
(* come.                                                                    *)
Coming(c) ==
    /\ call[c].op = "rotate"
    /\ call[c].at = "dropping" \/ (call[c].at = "done" /\ call[c].ok)

Replacing(k) == \E c \in Calls : Coming(c) /\ call[c].key = k

(* However many calls are clicked at once, whatever they save again of a    *)
(* key that another deletes, and in whatever order their answers arrive: if *)
(* no new key strayed, the key in the field works or is about to be         *)
(* replaced.                                                                *)
FieldWorks ==
    ~strayed => field = NoKey \/ field \in valid \/ Replacing(field)

(* Until a new key strays, every customer has a key that works and that was *)
(* in the field, or is on its way there.                                    *)
CustomerHasKey ==
    ~strayed =>
        \A u \in Users : \E k \in valid :
            /\ owner[k] = u
            /\ k \in told \/ \E c \in Calls : Coming(c) /\ call[c].new = k

(* Rotations that are not broken off and run beside no other call with the  *)
(* same key leave every customer one key, whatever becomes of their         *)
(* answers.                                                                 *)
Resting == \A c \in Calls : ~Rotating(c)

OneKeyAtRest ==
    ~overlapped /\ Resting
        => \A u \in Users : Cardinality({k \in valid : owner[k] = u}) = 1

(* What the page called submitted is stored.                                *)
TicketsStored == \A u \in Users : thanked[u] <= tickets[u]
=============================================================================
