--------------------------- MODULE KeyStoreProofs ---------------------------
(***************************************************************************)
(* Proofs about KeyStore, for any number of keys, gateways, handlers and   *)
(* failures, and for any mix of operations the clients use.                *)
(*                                                                         *)
(* None of the three safety properties is inductive.  What a handler has   *)
(* read is true when it uses it only if nobody else is at work on its key: *)
(* Knows says what it may rely on then.  A rotation deletes a key because  *)
(* it made another, which a second rotation may be deleting by then, and   *)
(* so on: Successors orders the keys, so that there is always a last one.  *)
(***************************************************************************)
EXTENDS KeyStore, TLAPS

(* Handler h is at work on key k.                                           *)
On(h, k) == proc[h].at # "idle" /\ k \in {proc[h].key, proc[h].new}

(* What a handler can be at, and with what in hand.                         *)
Shape(p) ==
    /\ p.at # "idle" => p.op \in use.ops
    /\ p.at \in {"row", "copy"} => p.stage # "work"
    /\ p.at \in {"cache", "serve"} => p.stage = "resolve" /\ p.op \in {"request", "rotate"}
    /\ p.at = "keep" => p.stage = "reload" /\ p.rec \in Recs
    /\ p.stage = "reload" => p.op \in {"request", "rotate"} /\ p.at # "idle"
    /\ p.at \in {"commit", "write"} => p.rec \in Recs
    /\ p.at \in {"commit", "write"} /\ p.stage = "work" => p.op \in {"create", "update", "rotate"}
    /\ p.at = "count" => p.stage = "work" /\ p.op = "request" /\ p.rec = NoRec
    /\ p.at \in {"delete", "drop"} =>
          p.stage = "work" /\ p.op \in {"delete", "rotate"} /\ p.rec = NoRec
    /\ p.at = "evict" /\ p.stage # "work" => p.rec \in Recs
    /\ p.at = "evict" /\ p.stage = "work" =>
          \/ p.op \in {"request", "delete"} /\ p.rec = NoRec
          \/ p.op \in {"create", "update"} /\ p.rec \in Recs
          \/ p.op = "rotate"

Shapes == \A h \in Handlers : Shape(proc[h])

(* A key at which there were no two handlers at once has at most one now.   *)
Alone ==
    \A k \in Keys \ shared : \A h, i \in Handlers : On(h, k) /\ On(i, k) => h = i

(* A deletion from its commit on.                                           *)
Deleted(p) == p.at = "drop" \/ (p.at = "evict" /\ p.op \in {"delete", "rotate"} /\ p.rec = NoRec)

(* A handler that has found a row and did not yet delete it.                *)
Holds(p) ==
    \/ p.at \in {"cache", "keep", "serve", "delete"}
    \/ p.stage = "reload"
    \/ p.at \in {"commit", "write", "evict"} /\ p.op = "rotate" /\ p.stage = "work" /\ p.rec # NoRec

(* What a handler may rely on as long as it is alone with its key; of the   *)
(* row, only if its find was not one the database would not take.           *)
Knows(h) ==
    LET p == proc[h] IN
    /\ p.key \notin shared =>
        /\ p.at = "copy" => row[p.key] = NoRec
        /\ p.at = "commit" /\ p.stage # "work" => row[p.key] = NoRec /\ copy[p.key] = p.rec
        /\ p.at = "keep" => p.rec = row[p.key] \/ writer[p.key] = NoRec
    /\ Target(h) \notin shared =>
        /\ p.at \in {"write", "evict"} /\ p.rec # NoRec => row[Target(h)] = p.rec
        /\ Deleted(p) => row[Target(h)] = NoRec
        /\ Deleted(p) /\ p.at = "evict" => copy[Target(h)] \notin Recs
    /\ p.key \notin shared \cup unsaved => (Holds(p) => row[p.key] # NoRec)
    /\ Target(h) \notin shared \cup unsaved =>
        (p.at = "commit" /\ ~(p.op = "create" /\ p.stage = "work") => Target(h) \notin gone)

Known == \A h \in Handlers : Knows(h)

(* Between the commit of h and the invalidation the cache may be behind.    *)
Midway(h, k) == proc[h].at \in {"write", "drop", "evict"} /\ Target(h) = k

Seen ==
    \A g \in Gateways, k \in Keys \ shared :
        writer[k] = g /\ (\A h \in Handlers : Midway(h, k) => Home[h] # g)
            => cache[g][k] \in {NoRec, row[k]}

(* Where a deletion was finished there is no record in the copy, ...        *)
Agrees ==
    \A k \in Keys \ shared :
        /\ writer[k] # NoRec /\ row[k] = NoRec
        /\ \A h \in Handlers : proc[h].at = "drop" => Target(h) # k
        => copy[k] \notin Recs

(* ... and none comes back.                                                 *)
Gone == \A k \in gone \ (shared \cup unsaved) : row[k] = NoRec /\ copy[k] \notin Recs

(* A rotation that has chosen its new key, and one that has committed it    *)
(* and did not yet delete the old one.                                      *)
Chosen(h) == proc[h].at # "idle" /\ proc[h].op = "rotate" /\ proc[h].stage = "work"
Replacing(h) ==
    /\ Chosen(h)
    /\ \/ proc[h].at = "delete"
       \/ proc[h].at \in {"write", "evict"} /\ proc[h].rec # NoRec

(* A key that works and that no rotation is about to delete.                *)
Safe(k) == row[k] # NoRec /\ \A h \in Handlers : Replacing(h) => proc[h].key # k

(* New keys are younger than the old ones, and from every rotation on there *)
(* is a safe key that is at least as young as the one it made.              *)
Younger(age, top) ==
    /\ \A k \in Keys : age[k] <= top
    /\ \A h \in Handlers : Chosen(h) => age[proc[h].key] < age[proc[h].new]
    /\ \A h \in Handlers : Replacing(h) =>
          \E k \in Keys : Safe(k) /\ age[proc[h].new] <= age[k]

Successors ==
    "delete" \notin use.ops =>
        /\ \E k \in Keys : Safe(k)
        /\ \E age \in [Keys -> Nat], top \in Nat : Younger(age, top)

IInv == TypeOK /\ Shapes /\ Alone /\ Known /\ Seen /\ Agrees /\ Gone /\ Successors

-----------------------------------------------------------------------------
(* How a step of one handler moves it, and what it leaves alone.            *)

(* What the provers need of the types.                                      *)
LEMMA Types ==
    ASSUME TypeOK
    PROVE  /\ NoRec \notin Recs /\ NoRec # Partial /\ NoRec \notin Gateways
           /\ SomeKey \in Keys /\ Resting \in Procs /\ use.keys \subseteq Keys
           /\ \A h \in Handlers :
                 /\ proc[h] \in Procs /\ Home[h] \in Gateways
                 /\ proc[h].at \in Places /\ proc[h].stage \in Stages /\ proc[h].op \in AllOps
                 /\ proc[h].key \in Keys /\ proc[h].new \in Keys /\ Target(h) \in Keys
                 /\ Target(h) \in {proc[h].key, proc[h].new}
                 /\ proc[h].rec \in Recs \cup {NoRec} /\ proc[h].payload \in Recs
<1>1. SomeKey \in Keys /\ use.keys \subseteq Keys BY UsesAssumption DEF TypeOK
<1>2. Resting \in Procs
  BY <1>1 DEF Resting, Procs, Places, Stages, AllOps, Recs
<1>3. ASSUME NEW h \in Handlers
      PROVE  /\ proc[h] \in Procs /\ Home[h] \in Gateways
             /\ proc[h].at \in Places /\ proc[h].stage \in Stages /\ proc[h].op \in AllOps
             /\ proc[h].key \in Keys /\ proc[h].new \in Keys
             /\ proc[h].rec \in Recs \cup {NoRec} /\ proc[h].payload \in Recs
  BY HomeAssumption DEF TypeOK, Procs
<1> QED BY <1>1, <1>2, <1>3, NoRecAssumption DEF Target

LEMMA RestingShape == Shape(Resting) /\ Resting.at = "idle"
BY DEF Shape, Resting

(* A handler that goes on as p.                                             *)
LEMMA Becomes ==
    ASSUME TypeOK, Shapes, NEW h \in Handlers, NEW p \in Procs, Shape(p), Become(h, p),
           UNCHANGED use
    PROVE  /\ proc' \in [Handlers -> Procs]
           /\ Shapes'
           /\ proc'[h] = p
           /\ \A i \in Handlers \ {h} : proc'[i] = proc[i]
<1>1. /\ proc' \in [Handlers -> Procs]
      /\ proc'[h] = p
      /\ \A i \in Handlers \ {h} : proc'[i] = proc[i]
  BY DEF TypeOK, Become
<1>2. Shapes'
  <2> SUFFICES ASSUME NEW i \in Handlers PROVE Shape(proc[i])' BY DEF Shapes
  <2>1. proc'[i] = p \/ proc'[i] = proc[i] BY <1>1
  <2> QED BY <2>1 DEF Shapes, Shape
<1> QED BY <1>1, <1>2

(* The step of h is about one of its keys, k; what the others know stays    *)
(* true, for they are not alone with k.                                     *)
About(h, k) ==
    /\ On(h, k)
    /\ UNCHANGED <<use, shared>>
    /\ unsaved \subseteq unsaved'
    /\ \A j \in Keys \ {k} :
          row'[j] = row[j] /\ copy'[j] = copy[j] /\ writer'[j] = writer[j]
          /\ (j \in gone' => j \in gone)

SameKeys(h, p) ==
    p.at = "idle" \/ (p.key = proc[h].key /\ p.new = proc[h].new)

LEMMA OthersKnow ==
    ASSUME IInv, NEW h \in Handlers, NEW k \in Keys, About(h, k),
           NEW i \in Handlers \ {h}, proc'[i] = proc[i]
    PROVE  Knows(i)'
<1> DEFINE p == proc[i]
<1>1. /\ p.key \in Keys /\ Target(i) \in Keys /\ Target(i) \in {p.key, p.new}
      /\ Target(i)' = Target(i) /\ shared' = shared
  BY Types DEF IInv, About, Target
<1>2. ASSUME p.at # "idle", NEW j \in {p.key, p.new}, j \in Keys, j \notin shared
      PROVE  /\ row'[j] = row[j] /\ copy'[j] = copy[j] /\ writer'[j] = writer[j]
             /\ (j \in gone' => j \in gone)
  <2>1. On(i, j) BY <1>2 DEF On
  <2>2. j # k BY <2>1, <1>2 DEF IInv, Alone, About
  <2> QED BY <2>2, <1>2 DEF About
<1>3. Knows(i) BY DEF IInv, Known
<1>4. CASE p.at = "idle"
  <2>1. p.stage # "reload" BY <1>4 DEF IInv, Shapes, Shape
  <2> QED BY <1>4, <2>1 DEF Knows, Deleted, Holds
<1>5. CASE p.at # "idle"
  <2>1. ASSUME p.key \notin shared
        PROVE  /\ p.at = "copy" => row'[p.key] = NoRec
               /\ p.at = "commit" /\ p.stage # "work" =>
                     row'[p.key] = NoRec /\ copy'[p.key] = p.rec
               /\ p.at = "keep" => p.rec = row'[p.key] \/ writer'[p.key] = NoRec
    <3>1. row'[p.key] = row[p.key] /\ copy'[p.key] = copy[p.key] /\ writer'[p.key] = writer[p.key]
      BY <1>1, <1>2, <1>5, <2>1
    <3> QED BY <3>1, <2>1, <1>3 DEF Knows
  <2>2. ASSUME Target(i) \notin shared
        PROVE  /\ p.at \in {"write", "evict"} /\ p.rec # NoRec => row'[Target(i)] = p.rec
               /\ Deleted(p) => row'[Target(i)] = NoRec
               /\ Deleted(p) /\ p.at = "evict" => copy'[Target(i)] \notin Recs
    <3>1. row'[Target(i)] = row[Target(i)] /\ copy'[Target(i)] = copy[Target(i)]
      BY <1>1, <1>2, <1>5, <2>2
    <3> QED BY <3>1, <2>2, <1>3 DEF Knows
  <2>3. ASSUME p.key \notin shared \cup unsaved, Holds(p) PROVE row'[p.key] # NoRec
    <3>1. row'[p.key] = row[p.key] BY <1>1, <1>2, <1>5, <2>3
    <3> QED BY <3>1, <2>3, <1>3 DEF Knows
  <2>4. ASSUME Target(i) \notin shared \cup unsaved, p.at = "commit",
               ~(p.op = "create" /\ p.stage = "work")
        PROVE  Target(i) \notin gone'
    <3>1. Target(i) \in gone' => Target(i) \in gone BY <1>1, <1>2, <1>5, <2>4
    <3> QED BY <3>1, <2>4, <1>3 DEF Knows
  <2>5. unsaved \subseteq unsaved' BY DEF About
  <2> QED BY <2>1, <2>2, <2>3, <2>4, <2>5, <1>1 DEF Knows, Deleted, Holds
<1> QED BY <1>4, <1>5

(* A handler that stays with its keys, or rests.                            *)
LEMMA Frame ==
    ASSUME IInv, NEW h \in Handlers, NEW p \in Procs, Shape(p), Become(h, p), SameKeys(h, p),
           NEW k \in Keys, About(h, k)
    PROVE  /\ proc' \in [Handlers -> Procs] /\ Shapes' /\ Alone'
           /\ proc'[h] = p /\ \A i \in Handlers \ {h} : proc'[i] = proc[i]
           /\ Knows(h)' => Known'
<1>1. /\ proc' \in [Handlers -> Procs] /\ Shapes'
      /\ proc'[h] = p /\ \A i \in Handlers \ {h} : proc'[i] = proc[i]
  BY Becomes DEF IInv, About
<1>2. Alone'
  <2>1. \A i \in Handlers, j \in Keys : On(i, j)' => On(i, j)
    BY <1>1 DEF SameKeys, On, About
  <2>2. shared' = shared BY DEF About
  <2> QED BY <2>1, <2>2 DEF IInv, Alone
<1>3. ASSUME Knows(h)' PROVE Known'
  <2> SUFFICES ASSUME NEW i \in Handlers PROVE Knows(i)' BY DEF Known
  <2>1. CASE i = h BY <2>1, <1>3
  <2>2. CASE i # h BY <2>2, <1>1, OthersKnow
  <2> QED BY <2>1, <2>2
<1> QED BY <1>1, <1>2, <1>3

(* Rotations that go on, and no row that goes.                              *)
LEMMA QuietSuccessors ==
    ASSUME Successors, UNCHANGED use,
           \A k \in Keys : row[k] # NoRec => row'[k] # NoRec,
           \A i \in Handlers : Chosen(i)' =>
               Chosen(i) /\ proc'[i].key = proc[i].key /\ proc'[i].new = proc[i].new,
           \A i \in Handlers : Replacing(i)' => Replacing(i)
    PROVE  Successors'
<1> SUFFICES ASSUME "delete" \notin use.ops
             PROVE  /\ \E k \in Keys : Safe(k)'
                    /\ \E age \in [Keys -> Nat], top \in Nat : Younger(age, top)'
  BY DEF Successors
<1>1. \A i \in Handlers : Replacing(i)' => proc'[i].key = proc[i].key /\ proc'[i].new = proc[i].new
  BY DEF Replacing
<1>2. \A k \in Keys : Safe(k) => Safe(k)'
  BY <1>1 DEF Safe
<1>3. PICK age \in [Keys -> Nat], top \in Nat : Younger(age, top)
  BY DEF Successors
<1>4. Younger(age, top)'
  BY <1>1, <1>2, <1>3 DEF Younger
<1> QED BY <1>2, <1>4 DEF Successors

-----------------------------------------------------------------------------
(* Steps that write no record: they read, forget or drop.                   *)

StoresTyped ==
    /\ row \in [Keys -> Recs \cup {NoRec}]
    /\ copy \in [Keys -> Recs \cup {NoRec, Partial}]
    /\ cache \in [Gateways -> [Keys -> Recs \cup {NoRec}]]
    /\ writes \in 0..MaxWrites
    /\ gone \subseteq Keys
    /\ faults \in 0..MaxFaults
    /\ unsaved \subseteq Keys
    /\ writer \in [Keys -> Gateways \cup {NoRec}]

Quiet ==
    /\ row' = row
    /\ \A k \in gone' \ (gone \cup shared \cup unsaved') : row[k] = NoRec /\ copy'[k] \notin Recs
    /\ \A k \in Keys : copy'[k] \in Recs => copy[k] \in Recs
    /\ \A k \in Keys : writer'[k] \in {writer[k], NoRec}
    /\ \A g \in Gateways, k \in Keys : cache'[g][k] \in {NoRec, cache[g][k]}

(* A handler that was between its commit and the invalidation is still      *)
(* there, or has done it, or is no longer the last who wrote.               *)
Answers(h) ==
    \A k \in Keys :
        /\ Midway(h, k) =>
              Midway(h, k)' \/ writer'[k] # Home[h] \/ cache'[Home[h]][k] = NoRec
        /\ proc[h].at = "drop" /\ Target(h) = k =>
              \/ proc'[h].at = "drop" /\ Target(h)' = k
              \/ writer'[k] = NoRec \/ copy'[k] \notin Recs

LEMMA SeenKept ==
    ASSUME IInv, NEW h \in Handlers, \A i \in Handlers \ {h} : proc'[i] = proc[i],
           Answers(h), shared \subseteq shared', row' = row,
           \A k \in Keys : writer'[k] \in {writer[k], NoRec},
           \A g \in Gateways, k \in Keys : cache'[g][k] \in {NoRec, cache[g][k]}
    PROVE  Seen'
<1> SUFFICES ASSUME NEW g \in Gateways, NEW k \in Keys, k \notin shared', writer'[k] = g,
                    \A i \in Handlers : Midway(i, k)' => Home[i] # g
             PROVE  cache'[g][k] \in {NoRec, row'[k]}
  BY DEF Seen
<1>1. writer[k] = g /\ row'[k] = row[k] /\ cache'[g][k] \in {NoRec, cache[g][k]} /\ k \notin shared
  BY NoRecAssumption
<1>2. CASE cache'[g][k] = NoRec
  BY <1>2
<1>3. CASE cache'[g][k] # NoRec
  <2>1. ASSUME NEW i \in Handlers, Midway(i, k) PROVE Home[i] # g
    <3>1. CASE i = h BY <3>1, <2>1, <1>3 DEF Answers
    <3>2. CASE i # h
      <4>1. proc'[i] = proc[i] BY <3>2
      <4>2. Midway(i, k)' BY <4>1, <2>1 DEF Midway, Target
      <4> QED BY <4>2
    <3> QED BY <3>1, <3>2
  <2> QED BY <1>1, <2>1 DEF IInv, Seen
<1> QED BY <1>2, <1>3

LEMMA AgreesKept ==
    ASSUME IInv, NEW h \in Handlers, \A i \in Handlers \ {h} : proc'[i] = proc[i],
           Quiet, Answers(h), shared \subseteq shared'
    PROVE  Agrees'
<1> SUFFICES ASSUME NEW k \in Keys, k \notin shared', writer'[k] # NoRec, row'[k] = NoRec,
                    \A i \in Handlers : proc'[i].at = "drop" => Target(i)' # k,
                    copy'[k] \in Recs
             PROVE  FALSE
  BY DEF Agrees
<1>1. writer[k] # NoRec /\ row[k] = NoRec /\ copy[k] \in Recs /\ k \notin shared
  BY DEF Quiet
<1>2. ASSUME NEW i \in Handlers, proc[i].at = "drop" PROVE Target(i) # k
  <2>1. CASE i = h BY <2>1, <1>2 DEF Answers
  <2>2. CASE i # h
    <3>1. proc'[i] = proc[i] BY <2>2
    <3> QED BY <3>1, <1>2 DEF Target
  <2> QED BY <2>1, <2>2
<1> QED BY <1>1, <1>2 DEF IInv, Agrees

LEMMA QuietStep ==
    ASSUME IInv, NEW h \in Handlers, NEW p \in Procs, Shape(p), Become(h, p), SameKeys(h, p),
           NEW k \in Keys, About(h, k), StoresTyped', Quiet, Answers(h), Knows(h)',
           Chosen(h)' => Chosen(h), Replacing(h)' => Replacing(h)
    PROVE  IInv'
<1>1. /\ proc' \in [Handlers -> Procs] /\ Shapes' /\ Alone' /\ Known'
      /\ proc'[h] = p /\ \A i \in Handlers \ {h} : proc'[i] = proc[i]
  BY Frame
<1>2. TypeOK'
  BY <1>1 DEF TypeOK, StoresTyped, About, IInv
<1>3. Seen' /\ Agrees'
  BY <1>1, SeenKept, AgreesKept DEF About, Quiet
<1>4. Gone'
  <2> SUFFICES ASSUME NEW j \in gone', j \notin shared, j \notin unsaved'
               PROVE  row'[j] = NoRec /\ copy'[j] \notin Recs
    BY DEF Gone, About
  <2>1. j \in Keys /\ j \notin unsaved BY DEF StoresTyped, About
  <2>2. CASE j \in gone BY <2>1, <2>2 DEF IInv, Gone, Quiet
  <2>3. CASE j \notin gone BY <2>3 DEF Quiet
  <2> QED BY <2>2, <2>3
<1>5. Successors'
  <2>1. \A i \in Handlers : Chosen(i)' =>
           Chosen(i) /\ proc'[i].key = proc[i].key /\ proc'[i].new = proc[i].new
    <3> SUFFICES ASSUME NEW i \in Handlers, Chosen(i)'
                 PROVE  Chosen(i) /\ proc'[i].key = proc[i].key /\ proc'[i].new = proc[i].new
      OBVIOUS
    <3>1. CASE i = h BY <3>1, <1>1 DEF SameKeys, Chosen
    <3>2. CASE i # h BY <3>2, <1>1 DEF Chosen
    <3> QED BY <3>1, <3>2
  <2>2. \A i \in Handlers : Replacing(i)' => Replacing(i)
    BY <1>1 DEF Replacing, Chosen
  <2> QED BY <2>1, <2>2, QuietSuccessors DEF Quiet, About, IInv
<1> QED BY <1>1, <1>2, <1>3, <1>4, <1>5 DEF IInv

(* The handler is at rest when the step is over.                            *)
LEMMA StopStep ==
    ASSUME IInv, NEW h \in Handlers, Stop(h), NEW k \in Keys, About(h, k), StoresTyped', Quiet,
           proc[h].at \in {"write", "drop", "evict"} =>
              writer'[Target(h)] = NoRec \/ cache'[Home[h]][Target(h)] = NoRec,
           proc[h].at = "drop" => writer'[Target(h)] = NoRec
    PROVE  IInv'
<1>1. /\ Resting \in Procs /\ Shape(Resting) /\ Resting.at = "idle" /\ Become(h, Resting)
      /\ SameKeys(h, Resting)
  BY Types, RestingShape DEF IInv, Stop, SameKeys
<1>2. proc'[h] = Resting
  BY <1>1, Becomes DEF IInv, About
<1>3. Knows(h)' /\ ~Chosen(h)' /\ ~Replacing(h)'
  BY <1>1, <1>2 DEF Knows, Deleted, Holds, Chosen, Replacing, Shape
<1>4. Answers(h)
  BY Types, NoRecAssumption DEF Answers, Midway, IInv
<1> QED BY <1>1, <1>3, <1>4, QuietStep

(* get_key_record has found r, which is the record of the key or one that   *)
(* is in nobody's cache.                                                    *)
LEMMA FoundStep ==
    ASSUME IInv, NEW h \in Handlers, NEW r \in Recs, proc[h].at # "idle", proc[h].stage # "work",
           Found(h, r), About(h, proc[h].key), StoresTyped', Quiet,
           proc[h].at \in {"write", "evict"} =>
              writer'[proc[h].key] = NoRec \/ cache'[Home[h]][proc[h].key] = NoRec,
           proc[h].key \notin shared \cup unsaved' =>
              proc[h].key \notin gone' /\ row[proc[h].key] # NoRec,
           proc[h].key \notin shared => row[proc[h].key] = r \/ writer'[proc[h].key] = NoRec
    PROVE  IInv'
<1> DEFINE k == proc[h].key
<1>1. /\ proc[h] \in Procs /\ k \in Keys /\ proc[h].payload \in Recs /\ Shape(proc[h])
      /\ Resting \in Procs /\ Shape(Resting) /\ Resting.at = "idle"
  BY Types, RestingShape DEF IInv, Shapes
<1>2. \E p \in Procs :
        /\ Become(h, p) /\ Shape(p) /\ SameKeys(h, p)
        /\ p.at # "idle" => ~(p.op = "rotate" /\ p.stage = "work")
        /\ \/ p.at \in {"idle", "cache", "delete"}
           \/ p.at = "keep" /\ p.rec = r
           \/ p.at = "commit" /\ p.stage = "work" /\ p.op = "update"
  <2>1. CASE proc[h].stage = "reload"
    <3> DEFINE p == [[proc[h] EXCEPT !.rec = r] EXCEPT !.at = "keep"]
    <3>1. Become(h, p) BY <2>1 DEF Found
    <3>2. p \in Procs BY <1>1 DEF Procs, Places
    <3>3. /\ p.at = "keep" /\ p.stage = "reload" /\ p.op = proc[h].op /\ p.key = k
          /\ p.new = proc[h].new /\ p.rec = r
      BY <1>1, <2>1 DEF Procs
    <3>4. Shape(p) BY <1>1, <3>3 DEF Shape
    <3> QED BY <3>1, <3>2, <3>3, <3>4 DEF SameKeys
  <2>2. CASE proc[h].stage = "resolve"
    <3> DEFINE s == [proc[h] EXCEPT !.rec = r]
    <3>0. CASE s.op = "create" /\ Stop(h)
      BY <1>1, <3>0 DEF Stop, SameKeys
    <3>1. CASE s.op \in {"request", "rotate"} /\ Become(h, [s EXCEPT !.at = "cache", !.rec = NoRec])
      <4> DEFINE p == [s EXCEPT !.at = "cache", !.rec = NoRec]
      <4>1. /\ p \in Procs /\ p.at = "cache" /\ p.stage = "resolve" /\ p.op = proc[h].op
            /\ p.key = k /\ p.new = proc[h].new /\ p.op \in {"request", "rotate"}
        BY <1>1, <2>2, <3>1 DEF Procs, Places
      <4>2. Shape(p) BY <1>1, <4>1 DEF Shape
      <4> QED BY <3>1, <4>1, <4>2 DEF SameKeys
    <3>2. CASE s.op = "update" /\ Become(h, Work(s))
      <4> DEFINE p == Work(s)
      <4>1. /\ p \in Procs /\ p.at = "commit" /\ p.stage = "work" /\ p.op = "update"
            /\ p.key = k /\ p.new = proc[h].new /\ p.rec \in Recs /\ proc[h].op = "update"
        BY <1>1, <2>2, <3>2 DEF Procs, Places, Stages, Work, Recs
      <4>2. Shape(p) BY <1>1, <4>1 DEF Shape
      <4> QED BY <3>2, <4>1, <4>2 DEF SameKeys
    <3>3. CASE s.op = "delete" /\ Become(h, [s EXCEPT !.at = "delete", !.stage = "work", !.rec = NoRec])
      <4> DEFINE p == [s EXCEPT !.at = "delete", !.stage = "work", !.rec = NoRec]
      <4>1. /\ p \in Procs /\ p.at = "delete" /\ p.stage = "work" /\ p.op = "delete"
            /\ p.key = k /\ p.new = proc[h].new /\ p.rec = NoRec /\ proc[h].op = "delete"
        BY <1>1, <2>2, <3>3 DEF Procs, Places, Stages
      <4>2. Shape(p) BY <1>1, <4>1 DEF Shape
      <4> QED BY <3>3, <4>1, <4>2 DEF SameKeys
    <3> QED BY <2>2, <3>0, <3>1, <3>2, <3>3 DEF Found
  <2> QED BY <2>1, <2>2 DEF Found
<1>3. PICK p \in Procs :
        /\ Become(h, p) /\ Shape(p) /\ SameKeys(h, p)
        /\ p.at # "idle" => ~(p.op = "rotate" /\ p.stage = "work")
        /\ \/ p.at \in {"idle", "cache", "delete"}
           \/ p.at = "keep" /\ p.rec = r
           \/ p.at = "commit" /\ p.stage = "work" /\ p.op = "update"
  BY <1>2
<1>4. proc'[h] = p
  BY <1>3, Becomes DEF IInv, About
<1>5. ~Chosen(h)' /\ ~Replacing(h)'
  BY <1>3, <1>4 DEF Chosen, Replacing
<1>6. Target(h) = k /\ proc[h].at # "drop"
  BY <1>1 DEF Target, Shape
<1>7. Answers(h)
  BY <1>6, Types, NoRecAssumption DEF Answers, Midway, IInv
<1>8. Knows(h)'
  <2>1. CASE p.at \in {"idle", "cache", "delete"}
    <3>1. p.at # "idle" => p.key = k BY <1>3 DEF SameKeys
    <3> QED BY <2>1, <3>1, <1>3, <1>4 DEF Knows, Deleted, Holds, Shape, Quiet, About
  <2>2. CASE p.at = "keep" /\ p.rec = r
    <3>1. p.key = k BY <2>2, <1>3 DEF SameKeys
    <3> QED BY <2>2, <3>1, <1>4 DEF Knows, Deleted, Holds, Quiet, About
  <2>3. CASE p.at = "commit" /\ p.stage = "work" /\ p.op = "update"
    <3>1. p.key = k BY <2>3, <1>3 DEF SameKeys
    <3>2. Target(h)' = k BY <2>3, <3>1, <1>4 DEF Target
    <3> QED BY <2>3, <3>1, <3>2, <1>4 DEF Knows, Deleted, Holds, About
  <2> QED BY <1>3, <2>1, <2>2, <2>3
<1> QED BY <1>1, <1>3, <1>5, <1>7, <1>8, QuietStep

(* It has found nothing: the row is missing, and the copy, or Redis is.     *)
LEMMA MissingStep ==
    ASSUME IInv, NEW h \in Handlers, proc[h].at = "copy", Missing(h),
           About(h, proc[h].key), StoresTyped', Quiet
    PROVE  IInv'
<1> DEFINE k == proc[h].key
<1>1. /\ proc[h] \in Procs /\ k \in Keys /\ proc[h].payload \in Recs /\ Shape(proc[h])
  BY Types DEF IInv, Shapes
<1>2. CASE proc[h].op = "create"
  <2> DEFINE p == Work(proc[h])
  <2>1. Become(h, p) BY <1>2 DEF Missing
  <2>2. /\ p \in Procs /\ p.at = "commit" /\ p.stage = "work" /\ p.op = "create"
        /\ p.key = k /\ p.new = proc[h].new /\ p.rec \in Recs
    BY <1>1, <1>2 DEF Procs, Places, Stages, Work, Recs
  <2>3. Shape(p) BY <1>1, <1>2, <2>2 DEF Shape
  <2> HIDE DEF p
  <2>4. proc'[h] = p BY <2>1, <2>2, <2>3, Becomes DEF IInv, About
  <2>5. Knows(h)' /\ ~Chosen(h)' /\ ~Replacing(h)'
    BY <2>2, <2>4 DEF Knows, Deleted, Holds, Chosen, Replacing
  <2>6. Answers(h) BY DEF Answers, Midway
  <2> QED BY <1>1, <2>1, <2>2, <2>3, <2>5, <2>6, QuietStep DEF SameKeys
<1>3. CASE proc[h].op # "create"
  BY <1>1, <1>3, StopStep DEF Missing
<1> QED BY <1>2, <1>3

-----------------------------------------------------------------------------
(* The actions that write no record.                                        *)

(* A step that touches no store is quiet, and about any key of its handler. *)
LEMMA Untouched ==
    ASSUME IInv, NEW h \in Handlers, proc[h].at # "idle",
           UNCHANGED <<use, stores, writes, gone, shared>>, faults' \in 0..MaxFaults,
           unsaved \subseteq unsaved', unsaved' \subseteq Keys,
           BrokenOff(h) \/ UNCHANGED writer, NEW k \in Keys, k \in {proc[h].key, proc[h].new},
           UNCHANGED writer \/ k = Target(h)
    PROVE  /\ About(h, k) /\ StoresTyped' /\ Quiet
           /\ BrokenOff(h) /\ proc[h].at \in {"write", "drop", "evict"} => writer'[Target(h)] = NoRec
<1>1. /\ Target(h) \in Keys /\ writer \in [Keys -> Gateways \cup {NoRec}]
  BY Types DEF IInv, TypeOK
<1>2. /\ writer' \in [Keys -> Gateways \cup {NoRec}]
      /\ \A j \in Keys : writer'[j] \in {writer[j], NoRec} /\ (j # k => writer'[j] = writer[j])
      /\ BrokenOff(h) /\ proc[h].at \in {"write", "drop", "evict"} => writer'[Target(h)] = NoRec
  BY <1>1 DEF BrokenOff
<1>3. StoresTyped'
  BY <1>2 DEF IInv, TypeOK, StoresTyped, stores
<1>4. Quiet
  BY <1>2 DEF Quiet, stores
<1>5. About(h, k)
  BY <1>2 DEF About, On, stores
<1> QED BY <1>2, <1>3, <1>4, <1>5

LEMMA ReadRowKeeps ==
    ASSUME IInv, NEW h \in Handlers, ReadRow(h), UNCHANGED use PROVE IInv'
<1> DEFINE k == proc[h].key
<1>1. /\ proc[h] \in Procs /\ k \in Keys /\ Shape(proc[h]) /\ proc[h].at = "row"
      /\ row[k] \in Recs \cup {NoRec}
  BY Types DEF IInv, Shapes, ReadRow, TypeOK
<1>2. About(h, k) /\ StoresTyped' /\ Quiet
  BY <1>1, Untouched DEF ReadRow, stores, bounds, history, IInv, TypeOK
<1>3. CASE row[k] # NoRec
  <2>1. Found(h, row[k]) BY <1>3 DEF ReadRow
  <2>2. k \notin shared \cup unsaved' => k \notin gone'
    BY <1>3 DEF IInv, Gone, ReadRow, history
  <2> QED BY <1>1, <1>2, <1>3, <2>1, <2>2, FoundStep DEF Shape
<1>4. CASE row[k] = NoRec
  <2> DEFINE p == [proc[h] EXCEPT !.at = "copy"]
  <2>1. Become(h, p) BY <1>4 DEF ReadRow, Goto
  <2>2. /\ p \in Procs /\ p.at = "copy" /\ p.stage = proc[h].stage /\ p.op = proc[h].op
        /\ p.key = k /\ p.new = proc[h].new /\ p.stage # "work"
    BY <1>1 DEF Procs, Places, Shape
  <2>3. Shape(p) BY <1>1, <2>2 DEF Shape
  <2> HIDE DEF p
  <2>4. proc'[h] = p BY <2>1, <2>2, <2>3, Becomes DEF IInv, About
  <2>5. Knows(h)' /\ ~Chosen(h)' /\ ~Replacing(h)'
    <3>1. proc[h].stage = "reload" /\ k \notin shared \cup unsaved => row[k] # NoRec
      BY DEF IInv, Known, Knows, Holds
    <3> QED BY <2>2, <2>4, <1>4, <1>2, <3>1 DEF Knows, Deleted, Holds, Chosen, Replacing, Quiet, About
  <2>6. Answers(h) BY <1>1 DEF Answers, Midway
  <2> QED BY <1>1, <1>2, <2>1, <2>2, <2>3, <2>5, <2>6, QuietStep DEF SameKeys
<1> QED BY <1>3, <1>4

LEMMA ReadCopyKeeps ==
    ASSUME IInv, NEW h \in Handlers, ReadCopy(h), UNCHANGED use PROVE IInv'
<1> DEFINE k == proc[h].key
           c == copy[k]
<1>1. /\ proc[h] \in Procs /\ k \in Keys /\ Shape(proc[h]) /\ proc[h].at = "copy"
      /\ c \in Recs \cup {NoRec, Partial} /\ proc[h].stage # "work"
  BY Types DEF IInv, Shapes, Shape, ReadCopy, TypeOK
<1>2. About(h, k) /\ StoresTyped' /\ Quiet /\ gone' = gone /\ copy' = copy
  BY <1>1, Untouched DEF ReadCopy, stores, bounds, history, IInv, TypeOK
<1>3. CASE c = NoRec
  BY <1>1, <1>2, <1>3, NoRecAssumption, MissingStep DEF ReadCopy
<1>4. CASE c # NoRec /\ ~Valid(c)
  BY <1>1, <1>2, <1>4, StopStep DEF ReadCopy
<1>5. CASE c # NoRec /\ Valid(c)
  <2> DEFINE p == [proc[h] EXCEPT !.at = "commit", !.rec = c]
  <2>1. Become(h, p) BY <1>5 DEF ReadCopy
  <2>2. /\ p \in Procs /\ p.at = "commit" /\ p.stage = proc[h].stage /\ p.op = proc[h].op
        /\ p.key = k /\ p.new = proc[h].new /\ p.rec = c /\ c \in Recs
    BY <1>1, <1>5 DEF Procs, Places, Valid
  <2>3. Shape(p) BY <1>1, <2>2 DEF Shape
  <2> HIDE DEF p
  <2>4. proc'[h] = p BY <2>1, <2>2, <2>3, Becomes DEF IInv, About
  <2>5. ~Chosen(h)' /\ ~Replacing(h)' /\ Target(h)' = k
    BY <1>1, <2>2, <2>4 DEF Chosen, Replacing, Target
  <2>6. /\ k \notin shared => row[k] = NoRec
        /\ k \notin shared \cup unsaved => k \notin gone
        /\ k \notin shared \cup unsaved /\ p.stage = "reload" => row[k] # NoRec
    BY <1>1, <2>2 DEF IInv, Known, Knows, Holds, Gone
  <2>7. Knows(h)'
    BY <1>1, <1>2, <2>2, <2>4, <2>5, <2>6 DEF Knows, Deleted, Holds, Quiet, About, ReadCopy, history
  <2>8. Answers(h) BY <1>1 DEF Answers, Midway
  <2> QED BY <1>1, <1>2, <2>1, <2>2, <2>3, <2>5, <2>7, <2>8, QuietStep DEF SameKeys
<1> QED BY <1>3, <1>4, <1>5 DEF ReadCopy

LEMMA ReadCacheKeeps ==
    ASSUME IInv, NEW h \in Handlers, ReadCache(h), UNCHANGED use PROVE IInv'
<1> DEFINE k == proc[h].key
           c == cache[Home[h]][k]
<1>1. /\ proc[h] \in Procs /\ k \in Keys /\ Shape(proc[h]) /\ proc[h].at = "cache"
      /\ c \in Recs \cup {NoRec}
  BY Types DEF IInv, Shapes, ReadCache, TypeOK
<1>2. About(h, k) /\ StoresTyped' /\ Quiet
  BY <1>1, Untouched DEF ReadCache, stores, bounds, history, IInv, TypeOK
<1> DEFINE p == IF c # NoRec
                THEN [proc[h] EXCEPT !.at = "serve", !.rec = c]
                ELSE [proc[h] EXCEPT !.at = "row", !.stage = "reload"]
<1>3. Become(h, p) BY DEF ReadCache
<1>4. /\ p \in Procs /\ p.op = proc[h].op /\ p.key = k /\ p.new = proc[h].new
      /\ (p.at = "serve" /\ p.stage = "resolve") \/ (p.at = "row" /\ p.stage = "reload")
  <2>1. CASE c # NoRec
    <3>1. p = [proc[h] EXCEPT !.at = "serve", !.rec = c] BY <2>1
    <3> QED BY <1>1, <3>1 DEF Procs, Places, Shape
  <2>2. CASE c = NoRec
    <3>1. p = [proc[h] EXCEPT !.at = "row", !.stage = "reload"] BY <2>2
    <3> QED BY <1>1, <3>1 DEF Procs, Places, Stages, Shape
  <2> QED BY <2>1, <2>2
<1>5. Shape(p) BY <1>1, <1>4 DEF Shape
<1> HIDE DEF p
<1>6. proc'[h] = p BY <1>3, <1>4, <1>5, Becomes DEF IInv, About
<1>7. Knows(h)' /\ ~Chosen(h)' /\ ~Replacing(h)'
  <2>1. k \notin shared \cup unsaved => row[k] # NoRec
    BY <1>1 DEF IInv, Known, Knows, Holds
  <2> QED BY <1>2, <1>4, <1>6, <2>1 DEF Knows, Deleted, Holds, Chosen, Replacing, Quiet, About
<1>8. Answers(h) BY <1>1 DEF Answers, Midway
<1> QED BY <1>1, <1>2, <1>3, <1>4, <1>5, <1>7, <1>8, QuietStep DEF SameKeys

(* A rotation that chooses its new key: nobody is at work on it, so it can  *)
(* be made the youngest of all.                                             *)
LEMMA ChooseSuccessors ==
    ASSUME IInv, NEW h \in Handlers, \A i \in Handlers \ {h} : proc'[i] = proc[i],
           UNCHANGED <<use, row>>, NEW k \in Keys, ~Busy(k), proc[h].at # "idle",
           proc'[h].new = k, proc'[h].key = proc[h].key, proc'[h].at = "commit"
    PROVE  Successors'
<1> SUFFICES ASSUME "delete" \notin use.ops
             PROVE  /\ \E j \in Keys : Safe(j)'
                    /\ \E age \in [Keys -> Nat], top \in Nat : Younger(age, top)'
  BY DEF Successors
<1>1. ~Replacing(h)'
  BY DEF Replacing
<1>2. \A i \in Handlers : Replacing(i)' => i # h /\ Replacing(i) /\ proc'[i] = proc[i]
  <2> SUFFICES ASSUME NEW i \in Handlers, Replacing(i)'
               PROVE  i # h /\ Replacing(i) /\ proc'[i] = proc[i]
    OBVIOUS
  <2>1. i # h BY <1>1
  <2> QED BY <2>1 DEF Replacing, Chosen
<1>3. \A j \in Keys : Safe(j) => Safe(j)'
  BY <1>2 DEF Safe
<1>4. PICK age \in [Keys -> Nat], top \in Nat : Younger(age, top)
  BY DEF Successors, IInv
<1> DEFINE older == [age EXCEPT ![k] = top + 1]
<1>5. /\ older \in [Keys -> Nat] /\ top + 1 \in Nat
      /\ \A j \in Keys : older[j] = IF j = k THEN top + 1 ELSE age[j]
  OBVIOUS
<1>6. \A i \in Handlers : proc[i].at # "idle" => proc[i].key # k /\ proc[i].new # k
  BY DEF Busy
<1>7. \A i \in Handlers : proc[i].key \in Keys /\ proc[i].new \in Keys
  BY Types DEF IInv
<1>8. \A j \in Keys : age[j] \in Nat /\ age[j] <= top
  BY <1>4 DEF Younger
<1> HIDE DEF older
<1>9. Younger(older, top + 1)'
  <2>1. \A j \in Keys : older[j] <= top + 1
    BY <1>5, <1>8
  <2>2. ASSUME NEW i \in Handlers, Chosen(i)'
        PROVE  older[proc'[i].key] < older[proc'[i].new]
    <3>1. CASE i = h
      <4>1. proc[h].key \in Keys /\ proc[h].key # k BY <1>6, <1>7
      <4> QED BY <3>1, <4>1, <1>5, <1>8
    <3>2. CASE i # h
      <4>1. proc'[i] = proc[i] BY <3>2
      <4>2. Chosen(i) /\ proc[i].at # "idle" BY <2>2, <4>1 DEF Chosen
      <4>3. age[proc[i].key] < age[proc[i].new] BY <4>2, <1>4 DEF Younger
      <4> QED BY <4>1, <4>2, <4>3, <1>5, <1>6, <1>7
    <3> QED BY <3>1, <3>2
  <2>3. ASSUME NEW i \in Handlers, Replacing(i)'
        PROVE  \E j \in Keys : Safe(j)' /\ older[proc'[i].new] <= older[j]
    <3>1. Replacing(i) /\ proc'[i] = proc[i] /\ proc[i].at # "idle"
      BY <1>2, <2>3 DEF Replacing, Chosen
    <3>2. PICK j \in Keys : Safe(j) /\ age[proc[i].new] <= age[j]
      BY <3>1, <1>4 DEF Younger
    <3>3. older[proc[i].new] = age[proc[i].new] BY <3>1, <1>5, <1>6, <1>7
    <3>4. age[j] <= older[j] BY <1>5, <1>8
    <3>5. age[proc[i].new] \in Nat /\ age[j] \in Nat /\ older[j] \in Nat BY <1>5, <1>7, <1>8
    <3>6. older[proc'[i].new] <= older[j] BY <3>1, <3>2, <3>3, <3>4, <3>5
    <3> QED BY <3>2, <3>6, <1>3
  <2> QED BY <2>1, <2>2, <2>3 DEF Younger
<1> QED BY <1>3, <1>5, <1>9 DEF Successors, IInv

LEMMA ServeKeeps ==
    ASSUME IInv, NEW h \in Handlers, Serve(h), UNCHANGED use PROVE IInv'
<1>1. /\ proc[h] \in Procs /\ proc[h].key \in Keys /\ Shape(proc[h]) /\ proc[h].at = "serve"
      /\ proc[h].stage = "resolve"
  BY Types DEF IInv, Shapes, Shape, Serve
<1>2. About(h, proc[h].key) /\ StoresTyped' /\ Quiet
  BY <1>1, Untouched DEF Serve, stores, bounds, history, IInv, TypeOK
<1>3. CASE Stop(h)
  BY <1>1, <1>2, <1>3, StopStep
<1>4. CASE /\ proc[h].op = "request"
           /\ Become(h, [proc[h] EXCEPT !.at = "count", !.stage = "work", !.rec = NoRec])
  <2> DEFINE p == [proc[h] EXCEPT !.at = "count", !.stage = "work", !.rec = NoRec]
  <2>1. /\ p \in Procs /\ p.at = "count" /\ p.stage = "work" /\ p.op = "request"
        /\ p.key = proc[h].key /\ p.new = proc[h].new /\ p.rec = NoRec
    BY <1>1, <1>4 DEF Procs, Places, Stages
  <2>2. Shape(p) BY <1>1, <1>4, <2>1 DEF Shape
  <2>3. Become(h, p) BY <1>4
  <2> HIDE DEF p
  <2>4. proc'[h] = p BY <2>1, <2>2, <2>3, Becomes DEF IInv, About
  <2>5. Knows(h)' /\ ~Chosen(h)' /\ ~Replacing(h)'
    BY <2>1, <2>4 DEF Knows, Deleted, Holds, Chosen, Replacing
  <2>6. Answers(h) BY <1>1 DEF Answers, Midway
  <2> QED BY <1>1, <1>2, <2>1, <2>2, <2>3, <2>5, <2>6, QuietStep DEF SameKeys
<1>5. ASSUME proc[h].op = "rotate", proc[h].rec = "active", NEW k \in Keys, Fresh(k),
             Become(h, [proc[h] EXCEPT !.at = "commit", !.stage = "work", !.new = k])
      PROVE  IInv'
  <2> DEFINE p == [proc[h] EXCEPT !.at = "commit", !.stage = "work", !.new = k]
  <2>1. /\ p \in Procs /\ p.at = "commit" /\ p.stage = "work" /\ p.op = "rotate"
        /\ p.key = proc[h].key /\ p.new = k /\ p.rec = "active"
    BY <1>1, <1>5 DEF Procs, Places, Stages
  <2>2. Shape(p) BY <1>1, <1>5, <2>1 DEF Shape, Recs
  <2>3. Become(h, p) BY <1>5
  <2> HIDE DEF p
  <2>4. /\ proc' \in [Handlers -> Procs] /\ Shapes'
        /\ proc'[h] = p /\ \A i \in Handlers \ {h} : proc'[i] = proc[i]
    BY <2>1, <2>2, <2>3, Becomes DEF IInv, About
  <2>5. ~Busy(k) /\ k \notin gone
    BY <1>5 DEF Fresh
  <2>6. TypeOK'
    BY <1>2, <2>4 DEF TypeOK, StoresTyped, About, IInv
  <2>7. Alone'
    <3> SUFFICES ASSUME NEW j \in Keys \ shared', NEW x \in Handlers, NEW y \in Handlers,
                        On(x, j)', On(y, j)'
                 PROVE  x = y
      BY DEF Alone
    <3>1. \A z \in Handlers \ {h} : On(z, j)' => On(z, j)
      BY <2>4 DEF On
    <3>2. On(h, j)' => j = k \/ On(h, j)
      BY <1>1, <2>1, <2>4 DEF On
    <3>3. \A z \in Handlers : ~On(z, k)
      BY <2>5 DEF Busy, On
    <3>4. j \notin shared BY <1>2 DEF About
    <3> QED BY <3>1, <3>2, <3>3, <3>4 DEF IInv, Alone
  <2>8. Known'
    <3>1. Target(h)' = k BY <2>1, <2>4, NoRecAssumption DEF Target, Recs
    <3>2. Knows(h)'
      <4>1. proc[h].key \notin shared \cup unsaved => row[proc[h].key] # NoRec
        BY <1>1 DEF IInv, Known, Knows, Holds
      <4> QED BY <1>2, <2>1, <2>4, <2>5, <3>1, <4>1
              DEF Knows, Deleted, Holds, Serve, stores, history
    <3>3. \A i \in Handlers \ {h} : Knows(i)'
      BY <1>1, <1>2, <2>4, OthersKnow
    <3> QED BY <3>2, <3>3 DEF Known
  <2>9. Answers(h) BY <1>1 DEF Answers, Midway
  <2>10. Seen' /\ Agrees'
    BY <1>2, <2>4, <2>9, SeenKept, AgreesKept DEF About, Quiet
  <2>11. Gone'
    BY DEF Gone, IInv, Serve, stores, history
  <2>12. Successors'
    BY <1>1, <1>2, <2>1, <2>4, <2>5, ChooseSuccessors DEF About, Quiet
  <2> QED BY <2>4, <2>6, <2>7, <2>8, <2>10, <2>11, <2>12 DEF IInv
<1> QED BY <1>3, <1>4, <1>5 DEF Serve

LEMMA CountKeeps ==
    ASSUME IInv, NEW h \in Handlers, Count(h), UNCHANGED use PROVE IInv'
<1> DEFINE k == proc[h].key
           p == [proc[h] EXCEPT !.at = "evict"]
<1>1. /\ proc[h] \in Procs /\ k \in Keys /\ Shape(proc[h]) /\ proc[h].at = "count"
      /\ proc[h].stage = "work" /\ proc[h].op = "request" /\ proc[h].rec = NoRec
  BY Types DEF IInv, Shapes, Shape, Count
<1>2. copy' = [copy EXCEPT ![k] = IF @ = NoRec THEN Partial ELSE @]
  BY DEF Count
<1>3. /\ copy' \in [Keys -> Recs \cup {NoRec, Partial}]
      /\ \A j \in Keys \ {k} : copy'[j] = copy[j]
      /\ \A j \in Keys : copy'[j] \in Recs => copy[j] \in Recs
  <2>1. copy \in [Keys -> Recs \cup {NoRec, Partial}] BY DEF IInv, TypeOK
  <2>2. Partial \notin Recs BY DEF Partial, Recs
  <2>3. \A j \in Keys : copy'[j] = IF j = k THEN IF copy[k] = NoRec THEN Partial ELSE copy[k]
                                   ELSE copy[j]
    BY <1>1, <1>2, <2>1
  <2> QED BY <1>1, <1>2, <2>1, <2>2, <2>3
<1>4. About(h, k)
  BY <1>1, <1>3 DEF About, On, Count, history
<1>5. StoresTyped' /\ Quiet
  BY <1>3 DEF StoresTyped, Quiet, Count, bounds, history, IInv, TypeOK
<1>6. Become(h, p) BY DEF Count, Goto
<1>7. /\ p \in Procs /\ p.at = "evict" /\ p.stage = "work" /\ p.op = "request" /\ p.rec = NoRec
      /\ p.key = k /\ p.new = proc[h].new
  BY <1>1 DEF Procs, Places
<1>8. Shape(p) BY <1>1, <1>7 DEF Shape
<1> HIDE DEF p
<1>9. proc'[h] = p BY <1>6, <1>7, <1>8, Becomes DEF IInv, About
<1>10. Knows(h)' /\ ~Chosen(h)' /\ ~Replacing(h)'
  BY <1>7, <1>9 DEF Knows, Deleted, Holds, Chosen, Replacing
<1>11. Answers(h) BY <1>1 DEF Answers, Midway
<1> QED BY <1>1, <1>4, <1>5, <1>6, <1>7, <1>8, <1>10, <1>11, QuietStep DEF SameKeys

LEMMA DropCopyKeeps ==
    ASSUME IInv, NEW h \in Handlers, DropCopy(h), UNCHANGED use PROVE IInv'
<1> DEFINE k == proc[h].key
           p == [proc[h] EXCEPT !.at = "evict"]
<1>1. /\ proc[h] \in Procs /\ k \in Keys /\ Shape(proc[h]) /\ proc[h].at = "drop"
      /\ proc[h].stage = "work" /\ proc[h].op \in {"delete", "rotate"} /\ proc[h].rec = NoRec
      /\ Target(h) = k
  BY Types DEF IInv, Shapes, Shape, DropCopy, Target
<1>2. copy' = [copy EXCEPT ![k] = NoRec]
  BY DEF DropCopy, Without
<1>3. /\ copy' \in [Keys -> Recs \cup {NoRec, Partial}]
      /\ \A j \in Keys \ {k} : copy'[j] = copy[j]
      /\ copy'[k] = NoRec /\ NoRec \notin Recs
  BY <1>1, <1>2, NoRecAssumption DEF IInv, TypeOK
<1>4. About(h, k)
  BY <1>1, <1>3 DEF About, On, DropCopy, history
<1>5. StoresTyped' /\ Quiet
  BY <1>3 DEF StoresTyped, Quiet, DropCopy, bounds, history, IInv, TypeOK
<1>6. Become(h, p) BY DEF DropCopy, Goto
<1>7. /\ p \in Procs /\ p.at = "evict" /\ p.stage = "work" /\ p.op = proc[h].op /\ p.rec = NoRec
      /\ p.key = k /\ p.new = proc[h].new
  BY <1>1 DEF Procs, Places
<1>8. Shape(p) BY <1>1, <1>7 DEF Shape
<1> HIDE DEF p
<1>9. proc'[h] = p BY <1>6, <1>7, <1>8, Becomes DEF IInv, About
<1>10. Target(h)' = k BY <1>7, <1>9 DEF Target
<1>11. k \notin shared => row[k] = NoRec
  BY <1>1 DEF IInv, Known, Knows, Deleted
<1>12. Knows(h)'
  BY <1>1, <1>3, <1>4, <1>5, <1>7, <1>9, <1>10, <1>11 DEF Knows, Deleted, Holds, Quiet, About
<1>13. (Chosen(h)' => Chosen(h)) /\ ~Replacing(h)'
  BY <1>1, <1>7, <1>9 DEF Chosen, Replacing
<1>14. Answers(h) BY <1>1, <1>3, <1>7, <1>9, <1>10 DEF Answers, Midway
<1> QED BY <1>1, <1>4, <1>5, <1>6, <1>7, <1>8, <1>12, <1>13, <1>14, QuietStep DEF SameKeys

(* What a handler does after the invalidation.                              *)
LEMMA EvictKeeps ==
    ASSUME IInv, NEW h \in Handlers, Evict(h), UNCHANGED use PROVE IInv'
<1> DEFINE k == proc[h].key
           t == Target(h)
<1>1. /\ proc[h] \in Procs /\ k \in Keys /\ t \in Keys /\ t \in {k, proc[h].new}
      /\ Home[h] \in Gateways /\ Shape(proc[h]) /\ proc[h].at = "evict" /\ NoRec \notin Recs
  BY Types DEF IInv, Shapes, Evict
<1>2. /\ cache' \in [Gateways -> [Keys -> Recs \cup {NoRec}]]
      /\ \A g \in Gateways, j \in Keys : cache'[g][j] \in {NoRec, cache[g][j]}
      /\ cache'[Home[h]][t] = NoRec
  BY <1>1 DEF Evict, Forget, IInv, TypeOK
<1>3. CASE gone' = gone
  <2>1. About(h, t)
    BY <1>1, <1>3 DEF About, On, Evict
  <2>2. StoresTyped' /\ Quiet
    BY <1>2, <1>3 DEF StoresTyped, Quiet, Evict, bounds, IInv, TypeOK
  <2>3. CASE proc[h].stage # "work" /\ Found(h, proc[h].rec)
    <3>1. t = k /\ proc[h].rec \in Recs BY <1>1, <2>3 DEF Target, Shape
    <3>2. /\ k \notin shared => row[k] = proc[h].rec
          /\ k \notin shared \cup unsaved' => k \notin gone'
      BY <1>1, <1>3, <2>1, <3>1 DEF IInv, Known, Knows, Gone, About
    <3> QED BY <1>1, <1>2, <2>1, <2>2, <2>3, <3>1, <3>2, FoundStep
  <2>4. CASE /\ proc[h].stage = "work" /\ proc[h].op = "rotate" /\ proc[h].rec # NoRec
             /\ Become(h, [proc[h] EXCEPT !.at = "delete", !.rec = NoRec])
    <3> DEFINE p == [proc[h] EXCEPT !.at = "delete", !.rec = NoRec]
    <3>1. /\ p \in Procs /\ p.at = "delete" /\ p.stage = "work" /\ p.op = "rotate"
          /\ p.rec = NoRec /\ p.key = k /\ p.new = proc[h].new
      BY <1>1, <2>4 DEF Procs, Places
    <3>2. Shape(p) BY <1>1, <2>4, <3>1 DEF Shape
    <3>3. Become(h, p) BY <2>4
    <3> HIDE DEF p
    <3>4. proc'[h] = p BY <3>1, <3>2, <3>3, Becomes DEF IInv, About
    <3>5. Knows(h)' /\ Chosen(h) /\ Replacing(h)
      <4>1. k \notin shared \cup unsaved => row[k] # NoRec
        BY <1>1, <2>4 DEF IInv, Known, Knows, Holds
      <4> QED BY <1>1, <2>1, <2>2, <2>4, <3>1, <3>4, <4>1
              DEF Knows, Deleted, Holds, Chosen, Replacing, Quiet, About
    <3>6. Answers(h) BY <1>1, <1>2 DEF Answers, Midway
    <3> QED BY <1>1, <2>1, <2>2, <3>1, <3>2, <3>3, <3>5, <3>6, QuietStep DEF SameKeys
  <2>5. CASE Stop(h)
    BY <1>1, <1>2, <2>1, <2>2, <2>5, StopStep
  <2> QED BY <2>3, <2>4, <2>5 DEF Evict
<1>4. CASE gone' # gone
  <2>1. /\ proc[h].stage = "work" /\ ~(proc[h].op = "rotate" /\ proc[h].rec # NoRec)
        /\ proc[h].op \in {"delete", "rotate"} /\ Stop(h) /\ gone' = gone \cup {k}
    BY <1>4 DEF Evict
  <2>2. proc[h].rec = NoRec /\ t = k
    BY <1>1, <2>1 DEF Shape, Target
  <2>3. k \notin shared => row[k] = NoRec /\ copy[k] \notin Recs
    BY <1>1, <2>1, <2>2 DEF IInv, Known, Knows, Deleted
  <2>4. About(h, k)
    BY <1>1, <2>1 DEF About, On, Evict
  <2>5. StoresTyped' /\ Quiet
    BY <1>1, <1>2, <2>1, <2>3 DEF StoresTyped, Quiet, Evict, bounds, IInv, TypeOK
  <2> QED BY <1>1, <1>2, <2>1, <2>2, <2>4, <2>5, StopStep
<1> QED BY <1>3, <1>4

LEMMA CancelKeeps ==
    ASSUME IInv, NEW h \in Handlers, Cancel(h), UNCHANGED use PROVE IInv'
<1>1. Target(h) \in Keys /\ Target(h) \in {proc[h].key, proc[h].new} BY Types DEF IInv
<1>2. /\ proc[h].at # "idle" /\ UNCHANGED <<use, stores, writes, gone, shared>>
      /\ faults' \in 0..MaxFaults /\ BrokenOff(h) /\ Stop(h) /\ unsaved' = unsaved
      /\ unsaved \subseteq Keys
  BY DEF Cancel, bounds, IInv, TypeOK
<1>3. /\ About(h, Target(h)) /\ StoresTyped' /\ Quiet
      /\ proc[h].at \in {"write", "drop", "evict"} => writer'[Target(h)] = NoRec
  BY <1>1, <1>2, Untouched
<1> QED BY <1>1, <1>2, <1>3, StopStep

LEMMA ForgiveKeeps ==
    ASSUME IInv, NEW h \in Handlers, Forgive(h), UNCHANGED use PROVE IInv'
<1> DEFINE k == proc[h].key
<1>1. /\ k \in Keys /\ Shape(proc[h]) /\ proc[h].at \in {"copy", "commit", "write", "evict"}
      /\ proc[h].stage # "work" /\ Target(h) = k /\ NoRec \notin Recs
      /\ \A i \in Handlers : Target(i) \in {proc[i].key, proc[i].new}
  BY Types DEF IInv, Shapes, Shape, Forgive, Target
<1>2. /\ UNCHANGED <<use, stores, writes, gone, shared>>
      /\ faults' \in 0..MaxFaults /\ BrokenOff(h)
  BY BoundsAssumption DEF Forgive, IInv, TypeOK
<1>3. /\ unsaved \subseteq unsaved' /\ unsaved' \subseteq Keys
      /\ proc[h].at = "commit" => k \in unsaved'
  BY <1>1 DEF Forgive, IInv, TypeOK
<1>4. /\ About(h, k) /\ StoresTyped' /\ Quiet
      /\ proc[h].at \in {"write", "evict"} => writer'[k] = NoRec
  BY <1>3, <1>1, <1>2, Untouched
<1>5. CASE proc[h].at = "copy" /\ Missing(h)
  BY <1>4, <1>5, MissingStep
<1>6. CASE proc[h].at = "commit" /\ Found(h, proc[h].rec)
  <2>1. proc[h].rec \in Recs BY <1>1, <1>6 DEF Shape
  <2>2. k \notin shared => row[k] = NoRec /\ copy[k] = proc[h].rec
    BY <1>1, <1>6 DEF IInv, Known, Knows
  <2>4. ASSUME k \notin shared PROVE writer'[k] = NoRec
    <3>1. ASSUME NEW i \in Handlers, proc[i].at = "drop" PROVE Target(i) # k
      <4>1. CASE i = h BY <4>1, <3>1, <1>6
      <4>2. CASE i # h
        <5>1. On(h, k) /\ ~On(i, k) BY <1>1, <2>4, <4>2 DEF On, IInv, Alone
        <5> QED BY <5>1, <3>1, <1>1 DEF On
      <4> QED BY <4>1, <4>2
    <3>2. writer[k] = NoRec BY <1>1, <2>1, <2>2, <2>4, <3>1 DEF IInv, Agrees
    <3> QED BY <1>6, <1>2, <3>2 DEF BrokenOff
  <2> QED BY <1>1, <1>4, <1>6, <1>3, <2>1, <2>4, FoundStep
<1>7. CASE proc[h].at \in {"write", "evict"} /\ Found(h, proc[h].rec)
  <2>1. proc[h].rec \in Recs BY <1>1, <1>7 DEF Shape
  <2>2. k \notin shared \cup unsaved' => k \notin gone' /\ row[k] # NoRec
    BY <1>1, <1>2, <1>3, <1>7, <2>1 DEF IInv, Known, Knows, Gone
  <2> QED BY <1>1, <1>4, <1>7, <2>1, <2>2, FoundStep
<1> QED BY <1>1, <1>5, <1>6, <1>7 DEF Forgive

-----------------------------------------------------------------------------
(* The actions that write.                                                  *)

LEMMA KeepKeeps ==
    ASSUME IInv, NEW h \in Handlers, Keep(h), UNCHANGED use PROVE IInv'
<1> DEFINE k == proc[h].key
           p == [proc[h] EXCEPT !.at = "serve", !.stage = "resolve"]
<1>1. /\ proc[h] \in Procs /\ k \in Keys /\ Shape(proc[h]) /\ proc[h].at = "keep"
      /\ Home[h] \in Gateways /\ proc[h].rec \in Recs /\ proc[h].stage = "reload"
      /\ NoRec \notin Gateways
  BY Types DEF IInv, Shapes, Shape, Keep
<1>2. About(h, k) /\ UNCHANGED <<row, copy, writes, faults, gone, shared, unsaved, writer>>
  BY <1>1 DEF About, On, Keep, bounds, history
<1>3. /\ cache' \in [Gateways -> [Keys -> Recs \cup {NoRec}]]
      /\ \A g \in Gateways, j \in Keys :
            cache'[g][j] = IF g = Home[h] /\ j = k THEN proc[h].rec ELSE cache[g][j]
  BY <1>1 DEF Keep, IInv, TypeOK
<1>4. /\ p \in Procs /\ p.at = "serve" /\ p.stage = "resolve" /\ p.op = proc[h].op
      /\ p.key = k /\ p.new = proc[h].new
  BY <1>1 DEF Procs, Places, Stages
<1>5. Shape(p) BY <1>1, <1>4 DEF Shape
<1>6. Become(h, p) BY DEF Keep
<1> HIDE DEF p
<1>7. /\ proc' \in [Handlers -> Procs] /\ Shapes' /\ Alone'
      /\ proc'[h] = p /\ \A i \in Handlers \ {h} : proc'[i] = proc[i]
      /\ Knows(h)' => Known'
  BY <1>1, <1>2, <1>4, <1>5, <1>6, Frame DEF SameKeys
<1>8. Knows(h)' /\ ~Chosen(h)'
  <2>1. k \notin shared \cup unsaved => row[k] # NoRec
    BY <1>1 DEF IInv, Known, Knows, Holds
  <2> QED BY <1>2, <1>4, <1>7, <2>1 DEF Knows, Deleted, Holds, Chosen
<1>9. TypeOK'
  BY <1>2, <1>3, <1>7 DEF IInv, TypeOK, About
<1>10. Seen'
  <2> SUFFICES ASSUME NEW g \in Gateways, NEW j \in Keys, j \notin shared, writer[j] = g,
                      \A i \in Handlers : Midway(i, j)' => Home[i] # g
               PROVE  cache'[g][j] \in {NoRec, row[j]}
    BY <1>2 DEF Seen
  <2>1. ASSUME NEW i \in Handlers, Midway(i, j) PROVE Home[i] # g
    <3>1. i # h BY <2>1, <1>1 DEF Midway
    <3>2. proc'[i] = proc[i] BY <3>1, <1>7
    <3> QED BY <3>2, <2>1 DEF Midway, Target
  <2>2. cache[g][j] \in {NoRec, row[j]} BY <2>1 DEF IInv, Seen
  <2>3. CASE g = Home[h] /\ j = k
    <3>1. proc[h].rec = row[k] BY <2>3, <1>1 DEF IInv, Known, Knows
    <3> QED BY <2>3, <3>1, <1>3
  <2> QED BY <2>2, <2>3, <1>3
<1>11. Agrees'
  <2>1. \A i \in Handlers : proc[i].at = "drop" => proc'[i] = proc[i]
    BY <1>1, <1>7
  <2>2. \A i \in Handlers : proc[i].at = "drop" => proc'[i].at = "drop" /\ Target(i)' = Target(i)
    BY <2>1 DEF Target
  <2> QED BY <2>2, <1>2 DEF IInv, Agrees
<1>12. Gone' BY <1>2 DEF IInv, Gone
<1>13. Successors'
  <2>1. \A i \in Handlers : Chosen(i)' => i # h /\ proc'[i] = proc[i]
    BY <1>7, <1>8
  <2>2. \A i \in Handlers : Chosen(i)' =>
           Chosen(i) /\ proc'[i].key = proc[i].key /\ proc'[i].new = proc[i].new
    BY <2>1 DEF Chosen
  <2>3. \A i \in Handlers : Replacing(i)' => Replacing(i)
    BY <2>1 DEF Replacing, Chosen
  <2> QED BY <2>2, <2>3, <1>2, QuietSuccessors DEF IInv
<1> QED BY <1>7, <1>8, <1>9, <1>10, <1>11, <1>12, <1>13 DEF IInv

(* A rotation commits its new key: it is safe, unless others already rotate *)
(* it away, and then what they made is younger than the key it replaces.    *)
LEMMA CommitSuccessors ==
    ASSUME IInv, NEW h \in Handlers, Chosen(h), proc[h].at = "commit",
           \A i \in Handlers \ {h} : proc'[i] = proc[i], UNCHANGED use,
           proc'[h].key = proc[h].key, proc'[h].new = proc[h].new,
           row'[proc[h].new] # NoRec, \A j \in Keys \ {proc[h].new} : row'[j] = row[j]
    PROVE  Successors'
<1> SUFFICES ASSUME "delete" \notin use.ops
             PROVE  /\ \E j \in Keys : Safe(j)'
                    /\ \E age \in [Keys -> Nat], top \in Nat : Younger(age, top)'
  BY DEF Successors
<1> DEFINE k == proc[h].key
           n == proc[h].new
<1>1. k \in Keys /\ n \in Keys /\ \A i \in Handlers : proc[i].key \in Keys /\ proc[i].new \in Keys
  BY Types DEF IInv
<1>2. PICK age \in [Keys -> Nat], top \in Nat : Younger(age, top)
  BY DEF Successors, IInv
<1>3. age[k] < age[n] /\ k # n
  BY <1>1, <1>2 DEF Younger
<1>4. \A i \in Handlers : Replacing(i)' => (i = h \/ Replacing(i)) /\ proc'[i].key = proc[i].key
  BY DEF Replacing, Chosen
<1>5. \A j \in Keys : Safe(j) /\ j # k => Safe(j)'
  BY <1>4 DEF Safe
<1>6. PICK s \in Keys : Safe(s)' /\ age[n] <= age[s]
  <2>1. CASE \E i \in Handlers : Replacing(i) /\ proc[i].key = n
    <3>1. PICK i \in Handlers : Replacing(i) /\ proc[i].key = n BY <2>1
    <3>2. PICK s \in Keys : Safe(s) /\ age[proc[i].new] <= age[s]
      BY <3>1, <1>2 DEF Younger
    <3>3. age[n] < age[proc[i].new] BY <3>1, <1>2 DEF Younger, Replacing
    <3>4. age[n] < age[s] /\ age[k] < age[s]
      BY <3>2, <3>3, <1>1, <1>3
    <3> QED BY <3>2, <3>4, <1>1, <1>5
  <2>2. CASE ~\E i \in Handlers : Replacing(i) /\ proc[i].key = n
    <3>1. Safe(n)' BY <2>2, <1>3, <1>4 DEF Safe
    <3> QED BY <3>1, <1>1
  <2> QED BY <2>1, <2>2
<1>7. Younger(age, top)'
  <2>1. ASSUME NEW i \in Handlers, Chosen(i)' PROVE age[proc'[i].key] < age[proc'[i].new]
    <3>1. CASE i = h BY <3>1, <1>3
    <3>2. CASE i # h BY <3>2, <2>1, <1>2 DEF Younger, Chosen
    <3> QED BY <3>1, <3>2
  <2>2. ASSUME NEW i \in Handlers, Replacing(i)'
        PROVE  \E j \in Keys : Safe(j)' /\ age[proc'[i].new] <= age[j]
    <3>1. CASE i = h BY <3>1, <1>6
    <3>2. CASE i # h
      <4>1. Replacing(i) /\ proc'[i] = proc[i] BY <3>2, <2>2, <1>4
      <4>2. PICK j \in Keys : Safe(j) /\ age[proc[i].new] <= age[j]
        BY <4>1, <1>2 DEF Younger
      <4>3. CASE j # k BY <4>1, <4>2, <4>3, <1>5
      <4>4. CASE j = k
        <5>1. age[proc[i].new] <= age[s] BY <4>2, <4>4, <1>1, <1>3, <1>6
        <5> QED BY <5>1, <4>1, <1>6
      <4> QED BY <4>3, <4>4
    <3> QED BY <3>1, <3>2
  <2> QED BY <2>1, <2>2, <1>2 DEF Younger
<1> QED BY <1>6, <1>7 DEF Successors, IInv

LEMMA CommitRowKeeps ==
    ASSUME IInv, NEW h \in Handlers, CommitRow(h), UNCHANGED use PROVE IInv'
<1> DEFINE t == Target(h)
           p == [proc[h] EXCEPT !.at = "write"]
<1>1. /\ proc[h] \in Procs /\ t \in Keys /\ Shape(proc[h]) /\ proc[h].at = "commit"
      /\ t \in {proc[h].key, proc[h].new} /\ proc[h].rec \in Recs /\ NoRec \notin Recs
      /\ Home[h] \in Gateways
  BY Types DEF IInv, Shapes, Shape, CommitRow
<1>2. /\ row' \in [Keys -> Recs \cup {NoRec}] /\ writer' \in [Keys -> Gateways \cup {NoRec}]
      /\ \A j \in Keys : row'[j] = IF j = t THEN proc[h].rec ELSE row[j]
      /\ \A j \in Keys : writer'[j] = IF j = t THEN Home[h] ELSE writer[j]
      /\ gone' \subseteq gone /\ (proc[h].op = "create" /\ proc[h].stage = "work" => t \notin gone')
  BY <1>1 DEF CommitRow, IInv, TypeOK
<1>3. UNCHANGED <<copy, cache, writes, faults, shared, unsaved, use>>
  BY DEF CommitRow, bounds
<1>4. About(h, t)
  BY <1>1, <1>2, <1>3 DEF About, On
<1>5. /\ p \in Procs /\ p.at = "write" /\ p.stage = proc[h].stage /\ p.op = proc[h].op
      /\ p.key = proc[h].key /\ p.new = proc[h].new /\ p.rec = proc[h].rec
  BY <1>1 DEF Procs, Places
<1>6. Shape(p) BY <1>1, <1>5 DEF Shape
<1>7. Become(h, p) BY DEF CommitRow, Goto
<1> HIDE DEF p
<1>8. /\ proc' \in [Handlers -> Procs] /\ Shapes' /\ Alone'
      /\ proc'[h] = p /\ \A i \in Handlers \ {h} : proc'[i] = proc[i]
      /\ Knows(h)' => Known'
  BY <1>1, <1>4, <1>5, <1>6, <1>7, Frame DEF SameKeys
<1>9. Target(h)' = t
  BY <1>5, <1>8 DEF Target
<1>10. Known'
  <2>1. proc[h].key \notin shared \cup unsaved /\ Holds(proc[h]) => row[proc[h].key] # NoRec
    BY DEF IInv, Known, Knows
  <2>2. Holds(p) => Holds(proc[h]) BY <1>1, <1>5 DEF Holds
  <2>3. proc[h].key \in Keys BY Types DEF IInv
  <2> QED BY <1>1, <1>2, <1>3, <1>5, <1>8, <1>9, <2>1, <2>2, <2>3 DEF Knows, Deleted
<1>11. TypeOK'
  BY <1>2, <1>3, <1>8 DEF IInv, TypeOK
<1>12. \A i \in Handlers \ {h} : Target(i)' = Target(i)
  BY <1>8 DEF Target
<1>13. Seen'
  <2> SUFFICES ASSUME NEW g \in Gateways, NEW j \in Keys, j \notin shared, writer'[j] = g,
                      \A i \in Handlers : Midway(i, j)' => Home[i] # g
               PROVE  cache[g][j] \in {NoRec, row'[j]}
    BY <1>3 DEF Seen
  <2>1. j # t BY <1>1, <1>2, <1>5, <1>8, <1>9 DEF Midway
  <2>2. ASSUME NEW i \in Handlers, Midway(i, j) PROVE Home[i] # g
    <3>1. i # h BY <2>2, <1>1 DEF Midway
    <3> QED BY <3>1, <2>2, <1>8, <1>12 DEF Midway
  <2> QED BY <2>1, <2>2, <1>2 DEF IInv, Seen
<1>14. Agrees'
  <2> SUFFICES ASSUME NEW j \in Keys, j \notin shared, writer'[j] # NoRec, row'[j] = NoRec,
                      \A i \in Handlers : proc'[i].at = "drop" => Target(i)' # j
               PROVE  copy[j] \notin Recs
    BY <1>3 DEF Agrees
  <2>1. j # t BY <1>1, <1>2
  <2>2. ASSUME NEW i \in Handlers, proc[i].at = "drop" PROVE Target(i) # j
    <3>1. i # h BY <2>2, <1>1
    <3> QED BY <3>1, <2>2, <1>8, <1>12
  <2> QED BY <2>1, <2>2, <1>2 DEF IInv, Agrees
<1>15. Gone'
  <2> SUFFICES ASSUME NEW j \in gone', j \notin shared \cup unsaved
               PROVE  row'[j] = NoRec /\ copy[j] \notin Recs
    BY <1>3 DEF Gone
  <2>1. j \in gone /\ j \in Keys BY <1>2 DEF IInv, TypeOK
  <2>2. j # t BY <2>1, <1>1, <1>2 DEF IInv, Known, Knows
  <2> QED BY <2>1, <2>2, <1>2 DEF IInv, Gone
<1>16. Successors'
  <2>1. CASE Chosen(h)
    <3>1. t = proc[h].new BY <2>1, <1>1 DEF Target, Chosen
    <3> QED BY <2>1, <3>1, <1>1, <1>2, <1>5, <1>8, CommitSuccessors
  <2>2. CASE ~Chosen(h)
    <3>1. ~Chosen(h)' /\ ~Replacing(h)' BY <2>2, <1>1, <1>5, <1>8 DEF Chosen, Replacing
    <3>2. \A i \in Handlers : Chosen(i)' =>
             Chosen(i) /\ proc'[i].key = proc[i].key /\ proc'[i].new = proc[i].new
      BY <3>1, <1>8 DEF Chosen
    <3>3. \A i \in Handlers : Replacing(i)' => Replacing(i)
      BY <3>1, <1>8 DEF Replacing, Chosen
    <3> QED BY <3>2, <3>3, <1>1, <1>2, <1>3, QuietSuccessors DEF IInv
  <2> QED BY <2>1, <2>2
<1> QED BY <1>8, <1>10, <1>11, <1>13, <1>14, <1>15, <1>16 DEF IInv

LEMMA WriteCopyKeeps ==
    ASSUME IInv, NEW h \in Handlers, WriteCopy(h), UNCHANGED use PROVE IInv'
<1> DEFINE t == Target(h)
           p == [proc[h] EXCEPT !.at = "evict"]
<1>1. /\ proc[h] \in Procs /\ t \in Keys /\ Shape(proc[h]) /\ proc[h].at = "write"
      /\ t \in {proc[h].key, proc[h].new} /\ proc[h].rec \in Recs /\ NoRec \notin Recs
  BY Types DEF IInv, Shapes, Shape, WriteCopy
<1>2. /\ copy' \in [Keys -> Recs \cup {NoRec, Partial}]
      /\ \A j \in Keys \ {t} : copy'[j] = copy[j]
  BY <1>1 DEF WriteCopy, IInv, TypeOK
<1>3. UNCHANGED <<row, cache, writes, faults, gone, shared, unsaved, writer, use>>
  BY DEF WriteCopy, bounds, history
<1>4. About(h, t)
  BY <1>1, <1>2, <1>3 DEF About, On
<1>5. /\ p \in Procs /\ p.at = "evict" /\ p.stage = proc[h].stage /\ p.op = proc[h].op
      /\ p.key = proc[h].key /\ p.new = proc[h].new /\ p.rec = proc[h].rec
  BY <1>1 DEF Procs, Places
<1>6. Shape(p) BY <1>1, <1>5 DEF Shape
<1>7. Become(h, p) BY DEF WriteCopy, Goto
<1> HIDE DEF p
<1>8. /\ proc' \in [Handlers -> Procs] /\ Shapes' /\ Alone'
      /\ proc'[h] = p /\ \A i \in Handlers \ {h} : proc'[i] = proc[i]
      /\ Knows(h)' => Known'
  BY <1>1, <1>4, <1>5, <1>6, <1>7, Frame DEF SameKeys
<1>9. Target(h)' = t
  BY <1>5, <1>8 DEF Target
<1>10. t \notin shared => row[t] = proc[h].rec
  BY <1>1 DEF IInv, Known, Knows
<1>11. Known'
  <2>1. proc[h].key \notin shared \cup unsaved /\ Holds(proc[h]) => row[proc[h].key] # NoRec
    BY DEF IInv, Known, Knows
  <2>2. Holds(p) => Holds(proc[h]) BY <1>1, <1>5 DEF Holds
  <2> QED BY <1>1, <1>3, <1>5, <1>8, <1>9, <1>10, <2>1, <2>2 DEF Knows, Deleted
<1>12. TypeOK'
  BY <1>2, <1>3, <1>8 DEF IInv, TypeOK
<1>13. Answers(h)
  BY <1>1, <1>5, <1>8, <1>9 DEF Answers, Midway
<1>14. Seen'
  BY <1>3, <1>8, <1>13, SeenKept
<1>15. Agrees'
  <2> SUFFICES ASSUME NEW j \in Keys, j \notin shared, writer[j] # NoRec, row[j] = NoRec,
                      \A i \in Handlers : proc'[i].at = "drop" => Target(i)' # j
               PROVE  copy'[j] \notin Recs
    BY <1>3 DEF Agrees
  <2>1. j # t BY <1>1, <1>10
  <2>2. ASSUME NEW i \in Handlers, proc[i].at = "drop" PROVE Target(i) # j
    <3>1. i # h BY <2>2, <1>1
    <3>2. proc'[i] = proc[i] BY <3>1, <1>8
    <3> QED BY <3>2, <2>2 DEF Target
  <2> QED BY <2>1, <2>2, <1>2 DEF IInv, Agrees
<1>16. Gone'
  <2> SUFFICES ASSUME NEW j \in gone, j \notin shared \cup unsaved
               PROVE  row[j] = NoRec /\ copy'[j] \notin Recs
    BY <1>3 DEF Gone
  <2>1. j \in Keys /\ row[j] = NoRec /\ copy[j] \notin Recs BY DEF IInv, TypeOK, Gone
  <2>2. j # t BY <2>1, <1>1, <1>10
  <2> QED BY <2>1, <2>2, <1>2
<1>17. Successors'
  <2>1. \A i \in Handlers : Chosen(i)' =>
           Chosen(i) /\ proc'[i].key = proc[i].key /\ proc'[i].new = proc[i].new
    BY <1>1, <1>5, <1>8 DEF Chosen
  <2>2. \A i \in Handlers : Replacing(i)' => Replacing(i)
    BY <1>1, <1>5, <1>8 DEF Replacing, Chosen
  <2> QED BY <2>1, <2>2, <1>3, QuietSuccessors DEF IInv
<1> QED BY <1>8, <1>11, <1>12, <1>14, <1>15, <1>16, <1>17 DEF IInv

LEMMA DeleteRowKeeps ==
    ASSUME IInv, NEW h \in Handlers, DeleteRow(h), UNCHANGED use PROVE IInv'
<1> DEFINE k == proc[h].key
           p == [proc[h] EXCEPT !.at = "drop"]
<1>1. /\ proc[h] \in Procs /\ k \in Keys /\ Shape(proc[h]) /\ proc[h].at = "delete"
      /\ proc[h].rec = NoRec /\ proc[h].stage = "work" /\ proc[h].op \in {"delete", "rotate"}
      /\ proc[h].op \in use.ops /\ Home[h] \in Gateways /\ Target(h) = k
  BY Types DEF IInv, Shapes, Shape, DeleteRow, Target
<1>2. CASE row[k] = NoRec
  <2>1. /\ gone' = gone \cup {k} /\ Stop(h)
        /\ UNCHANGED <<row, copy, cache, writes, faults, shared, unsaved, writer>>
    BY <1>2 DEF DeleteRow, bounds
  <2>2. k \in shared \cup unsaved
    BY <1>1, <1>2 DEF IInv, Known, Knows, Holds
  <2>3. About(h, k) BY <1>1, <2>1 DEF About, On
  <2>4. StoresTyped' BY <1>1, <2>1 DEF StoresTyped, IInv, TypeOK
  <2>5. Quiet BY <2>1, <2>2 DEF Quiet
  <2> QED BY <1>1, <2>1, <2>3, <2>4, <2>5, StopStep
<1>3. CASE row[k] # NoRec
  <2>1. /\ row' \in [Keys -> Recs \cup {NoRec}] /\ writer' \in [Keys -> Gateways \cup {NoRec}]
        /\ \A j \in Keys : row'[j] = IF j = k THEN NoRec ELSE row[j]
        /\ \A j \in Keys : writer'[j] = IF j = k THEN Home[h] ELSE writer[j]
    BY <1>1, <1>3 DEF DeleteRow, IInv, TypeOK
  <2>2. UNCHANGED <<copy, cache, writes, faults, gone, shared, unsaved, use>>
    BY <1>3 DEF DeleteRow, bounds
  <2>3. About(h, k)
    BY <1>1, <2>1, <2>2 DEF About, On
  <2>4. /\ p \in Procs /\ p.at = "drop" /\ p.stage = "work" /\ p.op = proc[h].op
        /\ p.key = k /\ p.new = proc[h].new /\ p.rec = NoRec
    BY <1>1 DEF Procs, Places
  <2>5. Shape(p) BY <1>1, <2>4 DEF Shape
  <2>6. Become(h, p) BY <1>3 DEF DeleteRow, Goto
  <2> HIDE DEF p
  <2>7. /\ proc' \in [Handlers -> Procs] /\ Shapes' /\ Alone'
        /\ proc'[h] = p /\ \A i \in Handlers \ {h} : proc'[i] = proc[i]
        /\ Knows(h)' => Known'
    BY <1>1, <2>3, <2>4, <2>5, <2>6, Frame DEF SameKeys
  <2>8. Target(h)' = k /\ \A i \in Handlers \ {h} : Target(i)' = Target(i)
    BY <2>4, <2>7 DEF Target
  <2>9. Known'
    BY <2>1, <2>4, <2>7, <2>8, <1>1 DEF Knows, Deleted, Holds
  <2>10. TypeOK'
    BY <2>1, <2>2, <2>7 DEF IInv, TypeOK
  <2>11. Seen'
    <3> SUFFICES ASSUME NEW g \in Gateways, NEW j \in Keys, j \notin shared, writer'[j] = g,
                        \A i \in Handlers : Midway(i, j)' => Home[i] # g
                 PROVE  cache[g][j] \in {NoRec, row'[j]}
      BY <2>2 DEF Seen
    <3>1. j # k BY <1>1, <2>1, <2>4, <2>7, <2>8 DEF Midway
    <3>2. ASSUME NEW i \in Handlers, Midway(i, j) PROVE Home[i] # g
      <4>1. i # h BY <3>2, <1>1 DEF Midway
      <4> QED BY <4>1, <3>2, <2>7, <2>8 DEF Midway
    <3> QED BY <3>1, <3>2, <2>1 DEF IInv, Seen
  <2>12. Agrees'
    <3> SUFFICES ASSUME NEW j \in Keys, j \notin shared, writer'[j] # NoRec, row'[j] = NoRec,
                        \A i \in Handlers : proc'[i].at = "drop" => Target(i)' # j
                 PROVE  copy[j] \notin Recs
      BY <2>2 DEF Agrees
    <3>1. j # k BY <2>4, <2>7, <2>8
    <3>2. ASSUME NEW i \in Handlers, proc[i].at = "drop" PROVE Target(i) # j
      <4>1. i # h BY <3>2, <1>1
      <4> QED BY <4>1, <3>2, <2>7, <2>8
    <3> QED BY <3>1, <3>2, <2>1 DEF IInv, Agrees
  <2>13. Gone'
    <3>1. gone \subseteq Keys BY DEF IInv, TypeOK
    <3> QED BY <3>1, <2>1, <2>2 DEF IInv, Gone
  <2>14. Successors'
    <3> SUFFICES ASSUME "delete" \notin use.ops
                 PROVE  /\ \E j \in Keys : Safe(j)'
                        /\ \E age \in [Keys -> Nat], top \in Nat : Younger(age, top)'
      BY <2>2 DEF Successors
    <3>1. Replacing(h)
      BY <1>1 DEF Replacing, Chosen
    <3>2. \A i \in Handlers : Replacing(i)' =>
             Replacing(i) /\ proc'[i].key = proc[i].key /\ proc'[i].new = proc[i].new
      BY <2>4, <2>7 DEF Replacing, Chosen
    <3>3. \A j \in Keys : Safe(j) => Safe(j)'
      BY <3>1, <3>2, <2>1 DEF Safe
    <3>4. PICK age \in [Keys -> Nat], top \in Nat : Younger(age, top)
      BY DEF Successors, IInv
    <3>5. \A i \in Handlers : Chosen(i)' =>
             Chosen(i) /\ proc'[i].key = proc[i].key /\ proc'[i].new = proc[i].new
      BY <1>1, <2>4, <2>7 DEF Chosen
    <3>6. Younger(age, top)' BY <3>2, <3>3, <3>4, <3>5 DEF Younger
    <3> QED BY <3>3, <3>6 DEF Successors, IInv
  <2> QED BY <2>7, <2>9, <2>10, <2>11, <2>12, <2>13, <2>14 DEF IInv
<1> QED BY <1>2, <1>3

-----------------------------------------------------------------------------
(* Where handlers begin, what the caches do alone, and the theorems.        *)

LEMMA BeginKeeps ==
    ASSUME IInv, NEW h \in Handlers, Begin(h), UNCHANGED use PROVE IInv'
<1>1. PICK op \in use.ops, k \in use.keys, r \in Recs :
        /\ op = "request" \/ writes < MaxWrites
        /\ Become(h, [Resting EXCEPT !.at = "row", !.op = op, !.key = k, !.new = k,
                                     !.payload = r])
        /\ writes' = IF op = "request" THEN writes ELSE writes + 1
        /\ shared' = IF Busy(k) THEN shared \cup {k} ELSE shared
  BY DEF Begin
<1> DEFINE p == [Resting EXCEPT !.at = "row", !.op = op, !.key = k, !.new = k, !.payload = r]
<1>2. /\ Resting \in Procs /\ k \in Keys /\ op \in AllOps /\ proc[h].at = "idle"
      /\ UNCHANGED <<row, copy, cache, faults, gone, unsaved, writer, use>>
  <2>1. use \in Uses BY DEF IInv, TypeOK
  <2> QED BY <2>1, Types, UsesAssumption DEF IInv, Begin, stores
<1>3. /\ p \in Procs /\ p.at = "row" /\ p.stage = "resolve" /\ p.op = op
      /\ p.key = k /\ p.new = k /\ p.rec = NoRec
  BY <1>2 DEF Procs, Places, Stages, Resting
<1>4. Shape(p) BY <1>3 DEF Shape
<1>5. Become(h, p) BY <1>1
<1> HIDE DEF p
<1>6. /\ proc' \in [Handlers -> Procs] /\ Shapes'
      /\ proc'[h] = p /\ \A i \in Handlers \ {h} : proc'[i] = proc[i]
  BY <1>2, <1>3, <1>4, <1>5, Becomes DEF IInv
<1>7. shared \subseteq shared' /\ shared' \subseteq Keys
  BY <1>1, <1>2 DEF IInv, TypeOK
<1>8. TypeOK'
  <2>1. writes' \in 0..MaxWrites BY <1>1, BoundsAssumption DEF IInv, TypeOK
  <2> QED BY <2>1, <1>2, <1>6, <1>7 DEF IInv, TypeOK
<1>9. Alone'
  <2> SUFFICES ASSUME NEW j \in Keys, j \notin shared', NEW x \in Handlers, NEW y \in Handlers,
                      On(x, j)', On(y, j)'
               PROVE  x = y
    BY DEF Alone
  <2>1. \A z \in Handlers \ {h} : On(z, j)' => On(z, j) BY <1>6 DEF On
  <2>2. On(h, j)' => j = k BY <1>3, <1>6 DEF On
  <2>3. j = k => \A z \in Handlers : ~On(z, j) BY <1>1 DEF Busy, On
  <2> QED BY <2>1, <2>2, <2>3, <1>7 DEF IInv, Alone
<1>10. Known'
  <2> SUFFICES ASSUME NEW i \in Handlers PROVE Knows(i)' BY DEF Known
  <2>1. CASE i = h BY <2>1, <1>3, <1>6 DEF Knows, Deleted, Holds
  <2>2. CASE i # h
    <3>1. proc'[i] = proc[i] /\ Target(i)' = Target(i) BY <2>2, <1>6 DEF Target
    <3>2. Knows(i) BY DEF IInv, Known
    <3> QED BY <3>1, <3>2, <1>2, <1>7 DEF Knows, Deleted, Holds
  <2> QED BY <2>1, <2>2
<1>11. Quiet /\ Answers(h)
  BY <1>2 DEF Quiet, Answers, Midway
<1>12. Seen' /\ Agrees'
  BY <1>6, <1>7, <1>11, SeenKept, AgreesKept DEF Quiet
<1>13. Gone' BY <1>2, <1>7 DEF IInv, Gone
<1>14. Successors'
  <2>1. \A i \in Handlers : Chosen(i)' => i # h /\ proc'[i] = proc[i]
    BY <1>3, <1>6 DEF Chosen
  <2>2. \A i \in Handlers : Chosen(i)' =>
           Chosen(i) /\ proc'[i].key = proc[i].key /\ proc'[i].new = proc[i].new
    BY <2>1 DEF Chosen
  <2>3. \A i \in Handlers : Replacing(i)' => Replacing(i)
    BY <2>1 DEF Replacing, Chosen
  <2> QED BY <2>2, <2>3, <1>2, QuietSuccessors DEF IInv
<1> QED BY <1>6, <1>8, <1>9, <1>10, <1>12, <1>13, <1>14 DEF IInv

LEMMA ExpireKeeps ==
    ASSUME IInv, NEW g \in Gateways, NEW k \in Keys, Expire(g, k), UNCHANGED use PROVE IInv'
<1>1. UNCHANGED <<row, copy, proc, writes, faults, gone, shared, unsaved, writer, use>>
  BY DEF Expire, bounds, history
<1>2. /\ cache' \in [Gateways -> [Keys -> Recs \cup {NoRec}]]
      /\ \A x \in Gateways, j \in Keys : cache'[x][j] \in {NoRec, cache[x][j]}
  BY DEF Expire, IInv, TypeOK
<1>3. TypeOK' BY <1>1, <1>2 DEF IInv, TypeOK
<1>4. Shapes' BY <1>1 DEF IInv, Shapes, Shape
<1>5. Alone' BY <1>1 DEF IInv, Alone, On
<1>6. Known' BY <1>1 DEF IInv, Known, Knows, Target, Deleted, Holds
<1>7. Seen'
  <2> SUFFICES ASSUME NEW x \in Gateways, NEW j \in Keys, j \notin shared, writer[j] = x,
                      \A i \in Handlers : Midway(i, j) => Home[i] # x
               PROVE  cache'[x][j] \in {NoRec, row[j]}
    BY <1>1 DEF Seen, Midway, Target
  <2>1. cache[x][j] \in {NoRec, row[j]} BY DEF IInv, Seen
  <2> QED BY <2>1, <1>2
<1>8. Agrees' BY <1>1 DEF IInv, Agrees, Target
<1>9. Gone' BY <1>1 DEF IInv, Gone
<1>10. Successors'
  <2>1. \A i \in Handlers : (Chosen(i)' => Chosen(i)) /\ (Replacing(i)' => Replacing(i))
    BY <1>1 DEF Chosen, Replacing
  <2> QED BY <2>1, <1>1, QuietSuccessors DEF IInv
<1> QED BY <1>3, <1>4, <1>5, <1>6, <1>7, <1>8, <1>9, <1>10 DEF IInv

LEMMA InitIInv == Init => IInv
<1> SUFFICES ASSUME Init PROVE IInv OBVIOUS
<1>1. SomeKey \in Keys BY UsesAssumption DEF Init
<1>2. Resting \in Procs BY <1>1 DEF Resting, Procs, Places, Stages, AllOps, Recs
<1>3. \A h \in Handlers : proc[h] = Resting /\ proc[h].at = "idle"
  BY DEF Init, Resting
<1>4. TypeOK
  BY <1>1, <1>2, BoundsAssumption DEF Init, TypeOK, Recs
<1>5. Shapes BY <1>3, RestingShape DEF Shapes
<1>6. Alone BY <1>3 DEF Alone, On
<1>7. Known
  <2>1. Resting.stage # "reload" BY DEF Resting
  <2> QED BY <1>3, <2>1 DEF Known, Knows, Deleted, Holds
<1>8. Seen BY DEF Seen, Init
<1>9. Agrees BY DEF Agrees, Init
<1>10. Gone BY DEF Gone, Init
<1>11. Successors
  <2>1. \A h \in Handlers : ~Chosen(h) /\ ~Replacing(h)
    BY <1>3 DEF Chosen, Replacing
  <2>2. Safe(SomeKey)
    <3>1. row[SomeKey] = "active" BY <1>1 DEF Init
    <3>2. NoRec # "active" BY NoRecAssumption DEF Recs
    <3> QED BY <3>1, <3>2, <2>1 DEF Safe
  <2> DEFINE age == [k \in Keys |-> 0]
  <2>3. age \in [Keys -> Nat] /\ Younger(age, 0)
    BY <2>1 DEF Younger
  <2> HIDE DEF age
  <2> QED BY <1>1, <2>2, <2>3 DEF Successors
<1> QED BY <1>4, <1>5, <1>6, <1>7, <1>8, <1>9, <1>10, <1>11 DEF IInv

LEMMA StepIInv == IInv /\ [Next]_vars => IInv'
<1> SUFFICES ASSUME IInv, [Next]_vars PROVE IInv' OBVIOUS
<1>1. CASE UNCHANGED vars
  <2>1. UNCHANGED <<use, row, copy, cache, proc, writes, faults, gone, shared, unsaved, writer>>
    BY <1>1 DEF vars
  <2>2. TypeOK' /\ Shapes' BY <2>1 DEF IInv, TypeOK, Shapes, Shape
  <2>3. Alone' /\ Gone' BY <2>1 DEF IInv, Alone, On, Gone
  <2>4. Known' BY <2>1 DEF IInv, Known, Knows, Target, Deleted, Holds
  <2>5. Seen' BY <2>1 DEF IInv, Seen, Midway, Target
  <2>6. Agrees' BY <2>1 DEF IInv, Agrees, Target
  <2>7. \A h \in Handlers : (Chosen(h)' => Chosen(h)) /\ (Replacing(h)' => Replacing(h))
    BY <2>1 DEF Chosen, Replacing
  <2>8. Successors' BY <2>1, <2>7, QuietSuccessors DEF IInv
  <2> QED BY <2>2, <2>3, <2>4, <2>5, <2>6, <2>8 DEF IInv
<1>2. ASSUME NEW h \in Handlers, Begin(h) \/ Step(h) \/ Cancel(h) \/ Forgive(h), UNCHANGED use
      PROVE  IInv'
  BY <1>2, BeginKeeps, ReadRowKeeps, ReadCopyKeeps, ReadCacheKeeps, KeepKeeps, ServeKeeps,
     CountKeeps, CommitRowKeeps, WriteCopyKeeps, DeleteRowKeeps, DropCopyKeeps, EvictKeeps,
     CancelKeeps, ForgiveKeeps
     DEF Step
<1>3. ASSUME NEW g \in Gateways, NEW k \in Keys, Expire(g, k), UNCHANGED use PROVE IInv'
  BY <1>3, ExpireKeeps
<1> QED BY <1>1, <1>2, <1>3 DEF Next

LEMMA KeysInvariant == Spec => []IInv
BY InitIInv, StepIInv, PTL DEF Spec

(* Rows, copies, caches and handlers keep their types.                      *)
THEOREM KeysTypeCorrect == Spec => []TypeOK
<1>1. IInv => TypeOK BY DEF IInv
<1> QED BY <1>1, KeysInvariant, PTL

(* Rotations never lock a customer out: as long as nobody asks for          *)
(* deletions, the database has a key at every moment, however many          *)
(* rotations overlap, follow on each other or break off (portal.py).        *)
THEOREM RotationsLeaveAKey == Spec => []NoLockout
<1>1. IInv => NoLockout BY DEF IInv, Successors, Safe, NoLockout
<1> QED BY <1>1, KeysInvariant, PTL

(* The gateway that wrote a key last has nothing older in its cache, as     *)
(* long as the key has one handler at a time: invalidate_key comes after    *)
(* every write of store.py, and no read of before it fills the cache again. *)
THEOREM WritersSeeTheirWrites == Spec => []SeenAtHome
<1>1. ASSUME IInv PROVE SeenAtHome
  <2> SUFFICES ASSUME NEW g \in Gateways, NEW k \in Keys, writer[k] = g, k \notin shared, ~Busy(k)
               PROVE  cache[g][k] \in {NoRec, row[k]}
    BY DEF SeenAtHome
  <2>1. \A h \in Handlers : ~Midway(h, k)
    BY <1>1, Types DEF IInv, Midway, Busy
  <2> QED BY <1>1, <2>1 DEF IInv, Seen
<1> QED BY <1>1, KeysInvariant, PTL

(* A deletion that was answered is for good, as long as the key has one     *)
(* handler at a time and the database took what get_key_record found in a   *)
(* copy of it: then a deletion finds its row, and nothing saves the key     *)
(* again, whatever was broken off before (store.py, portal.py, admin/).     *)
THEOREM DeletionsAlonePrevail == Spec => []DeletedAloneStaysDeleted
<1>1. IInv => DeletedAloneStaysDeleted BY DEF IInv, Gone, DeletedAloneStaysDeleted
<1> QED BY <1>1, KeysInvariant, PTL
=============================================================================
