-------------------------- MODULE PackStoreProofs --------------------------
(***************************************************************************)
(* Proofs about the attachment pack store, for any set of blobs and of     *)
(* concurrent callers, any pack size and any number of calls, deaths,      *)
(* rebuilds and failing operations.  The inductive invariant is StoreInv.  *)
(***************************************************************************)
EXTENDS PackStore, WellFoundedInduction, TLAPS

(* The steps that hold the writer mutex for sure. *)
Locked == {"put_seal", "put_create", "put_write", "put_insert", "clear_create"}

LockInv ==
  /\ boot # "up" => lock = NoTask /\ \A t \in Tasks : task[t] = Idle
  /\ \A t \in Tasks : task[t].at \in Locked => lock = t

(* A pack id that is on disk, or below one that is, is not given out. *)
Above(p) == \E q \in PackIds : q > p /\ Exists(q)
Spent(p) == Exists(p) \/ Above(p)

(* The writer's pack is open, but between sealing it and creating the next *)
(* and once that has failed.  What a put has written lies at the offset    *)
(* unless an earlier one failed.                                           *)
WriterInv ==
  /\ Spent(writer)
  /\ boot # "down" /\ file[writer] # "open" =>
       \/ drift = "torn"
       \/ \E t \in Tasks : task[t].at \in {"put_create", "clear_create"}
  /\ boot \in {"recovered", "rebuilt"} => drift = "none"
  /\ \A t \in Tasks : task[t].at = "put_insert" /\ drift = "none" =>
       task[t].blob \in frames[writer]

(* The packs a collection goes through, and the records a call will log. *)
Sources == {"gc_alloc", "gc_snapshot", "gc_open", "gc_copy", "gc_seal", "gc_swap", "gc_unlink",
            "gc_unlink_log"}
ListedBy(r) ==
  IF r.at = "gc_next" THEN r.todo ELSE IF r.at \in Sources THEN r.todo \cup {r.pack} ELSE {}
LoggedBy(r) ==
  IF r.at \in {"revive_log", "tomb_log"} THEN {<<r.blob, r.pack>>}
  ELSE IF r.at = "clear_log" THEN r.todo ELSE {}

(* A collection works on packs that will not be opened again, and what it  *)
(* copies into is above what it will unlink.  That may be the pack which a *)
(* rotation that failed has left the writer on.                            *)
SourceAt(t) ==
  /\ \A p \in ListedBy(task[t]) : file[p] # "open" /\ Spent(p)
  /\ task[t].at \in Sources \ {"gc_alloc"} =>
       Above(task[t].pack) /\ (task[t].pack = writer => drift = "torn")
  /\ task[t].at = "gc_unlink_log" => ~Exists(task[t].pack)
  /\ \A x \in LoggedBy(task[t]) : x[1] \in lost \/ Spent(x[2])

SourceInv == \A t \in Tasks : SourceAt(t)

(* The destination of a compaction is its own: no row points at it, no     *)
(* record is about a row of it.                                            *)
Copies == {"gc_snapshot", "gc_open", "gc_copy", "gc_seal"}
Targets == Copies \cup {"gc_swap"}

TargetAt(t) ==
  task[t].at \in Targets =>
    LET d == task[t].dst
    IN /\ task[t].at \in Copies <=> file[d] = "open"
       /\ d # writer /\ Spent(d) /\ RowsOf(d) \subseteq lost
       /\ \A b \in Blobs \ lost : log[d][b] = "none"
       /\ task[t].at \in {"gc_seal", "gc_swap"} /\ Exists(d) => task[t].sound \subseteq frames[d]

Apart(t, u) ==
  task[t].at \in Targets =>
    /\ task[u].at \in Targets /\ task[u].dst = task[t].dst => u = t
    /\ \A x \in LoggedBy(task[u]) : x[1] \in lost \/ x[2] # task[t].dst

TargetInv == \A t \in Tasks : TargetAt(t) /\ \A u \in Tasks : Apart(t, u)

(* What is live in the source is copied, or lost. *)
SnapshotAt(t) ==
  /\ task[t].at \in {"gc_open", "gc_copy", "gc_seal", "gc_swap"} =>
       /\ \A b \in RowsOf(task[t].pack) : rows[b].state = "dead" \/ b \in task[t].live \cup lost
       /\ task[t].live \ lost \subseteq task[t].sound
  /\ task[t].at \in {"gc_unlink", "gc_unlink_log"} => RowsOf(task[t].pack) \subseteq lost

SnapshotInv == \A t \in Tasks : SnapshotAt(t)

Backed(b) == Exists(rows[b].pack) /\ b \in frames[rows[b].pack]

RowInv ==
  /\ \A b \in Blobs : rows[b].state = "absent" => rows[b] = NoRow
  /\ \A b \in Blobs \ lost : rows[b].state # "absent" => Backed(b)

(* Since its second look at the index a put knows that its blob has no row. *)
LookedInv ==
  \A t \in Tasks : task[t].at \in Locked \ {"clear_create"} => rows[task[t].blob] = NoRow

KeptInv ==
  \A b \in kept \ lost : rows[b].state = "live" /\ log[rows[b].pack][b] # "tombstone"

StoreInv ==
  /\ TypeOK /\ LockInv /\ WriterInv /\ SourceInv /\ TargetInv /\ SnapshotInv
  /\ RowInv /\ LookedInv /\ KeptInv

---------------------------------------------------------------------------
(* Pack ids. *)

LEMMA MinFacts ==
  ASSUME NEW S \in SUBSET Nat, S # {}
  PROVE  Min(S) \in S /\ \A y \in S : Min(S) <= y
<1>1. PICK x \in S : \A y \in S : <<y, x>> \notin OpToRel(<, Nat)
  BY NatLessThanWellFounded, WFMin, Zenon
<1>2. \A y \in S : ~(y < x)
  BY <1>1, Zenon DEF OpToRel
<1>3. \A y \in S : x <= y
  BY <1>2
<1> QED BY <1>3 DEF Min

LEMMA MaxFacts ==
  ASSUME NEW n \in Nat, NEW S \in SUBSET (0..n), S # {}
  PROVE  Max(S) \in S /\ \A y \in S : y <= Max(S)
<1> DEFINE T == {n - x : x \in S}
<1>1. T \in SUBSET Nat
  OBVIOUS
<1>0. T # {}
  OBVIOUS
<1>2. Min(T) \in T /\ \A y \in T : Min(T) <= y
  BY <1>0, <1>1, MinFacts
<1>3. PICK m \in S : Min(T) = n - m
  BY <1>2
<1>4. ASSUME NEW y \in S PROVE m >= y
  <2>1. n - y \in T
    OBVIOUS
  <2>2. n - m <= n - y
    BY <1>2, <1>3, <2>1
  <2> QED BY <2>2
<1> QED BY <1>4 DEF Max

LEMMA Ids ==
  /\ PackIds \subseteq Nat /\ 0 \in PackIds /\ PackIds = 0..MaxPack /\ MaxPack \in Nat
  /\ NoTask \notin Tasks
BY PackAssumption DEF PackIds

(* The next id is above every pack on disk. *)
LEMMA NextFacts ==
  ASSUME TypeOK, Spent(writer), NextPackId \in PackIds
  PROVE  /\ ~Exists(NextPackId) /\ NextPackId # writer
         /\ \A p \in PackIds : Exists(p) => p < NextPackId
         /\ \A p \in PackIds : Spent(p) => p # NextPackId
<1> DEFINE S == {p \in PackIds : Exists(p)}
<1>1. S \in SUBSET (0..MaxPack) /\ S # {}
  BY Ids DEF TypeOK, Spent, Above
<1>2. Max(S) \in S /\ \A y \in S : y <= Max(S)
  BY <1>1, MaxFacts, Ids
<1>3. \A p \in PackIds : Exists(p) => p < NextPackId
  BY <1>2, Ids DEF NextPackId
<1>4. ~Exists(NextPackId)
  BY <1>3, Ids
<1>5. \A p \in PackIds : Spent(p) => p # NextPackId
  BY <1>3, <1>4, Ids DEF Spent, Above
<1>6. NextPackId # writer
  BY <1>5 DEF TypeOK
<1> QED BY <1>3, <1>4, <1>5, <1>6


---------------------------------------------------------------------------
(* The records of the calls. *)

PutSteps == {"put_lock", "put_seal", "put_create", "put_write", "put_insert"}
MarkSteps == {"revive_log", "revive_update", "tomb_log", "tomb_update"}
ClearSteps == {"clear_update", "clear_lock", "clear_create"}
CopySteps == {"gc_open", "gc_copy", "gc_seal", "gc_swap", "gc_unlink", "gc_unlink_log"}

LEMMA Shapes ==
  ASSUME NEW r \in Calling
  PROVE  /\ r.at \in PutSteps => r = [at |-> r.at, blob |-> r.blob] /\ r.blob \in Blobs
         /\ r.at \in MarkSteps => /\ r = [at |-> r.at, blob |-> r.blob, pack |-> r.pack]
                                  /\ r.blob \in Blobs /\ r.pack \in PackIds
         /\ r.at = "clear_log" => r.todo \in SUBSET (Blobs \X PackIds)
         /\ r.at \in ClearSteps => r = [at |-> r.at]
         /\ r.at = "gc_next" => r.todo \in SUBSET PackIds
         /\ r.at = "gc_alloc" => r.todo \in SUBSET PackIds /\ r.pack \in PackIds
         /\ r.at = "gc_snapshot" =>
              r.todo \in SUBSET PackIds /\ r.pack \in PackIds /\ r.dst \in PackIds
         /\ r.at \in CopySteps =>
              /\ r = [at |-> r.at, todo |-> r.todo, pack |-> r.pack, dst |-> r.dst,
                      live |-> r.live, sound |-> r.sound]
              /\ r.todo \in SUBSET PackIds /\ r.pack \in PackIds /\ r.dst \in PackIds
              /\ r.live \in SUBSET Blobs /\ r.sound \in SUBSET Blobs
         /\ r.at = "get_row" => r.blob \in Blobs /\ r.tries \in Nat /\ r.last \in PackIds
         /\ r.at \in {"get_sealed", "get_open"} =>
              /\ r = [at |-> r.at, blob |-> r.blob, tries |-> r.tries, last |-> r.last,
                      pack |-> r.pack]
              /\ r.blob \in Blobs /\ r.tries \in Nat /\ r.last \in PackIds /\ r.pack \in PackIds
<1> USE DEF PutSteps, MarkSteps, ClearSteps, CopySteps
<1>1. CASE r \in {Idle}
  BY <1>1 DEF Idle
<1>2. CASE r \in Putting
  BY <1>2 DEF Putting
<1>3. CASE r \in Marking
  BY <1>3 DEF Marking
<1>4. CASE r \in Clearing
  BY <1>4 DEF Clearing
<1>5. CASE r \in Choosing
  BY <1>5 DEF Choosing
<1>6. CASE r \in Copying
  BY <1>6 DEF Copying
<1>7. CASE r \in Getting
  BY <1>7 DEF Getting
<1> QED BY <1>1, <1>2, <1>3, <1>4, <1>5, <1>6, <1>7, Zenon DEF Calling

(* A call that goes on with a new record. *)
LEMMA GotoFacts ==
  ASSUME TypeOK, NEW t \in Tasks, NEW r, Goto(t, r)
  PROVE  /\ task'[t] = r /\ \A u \in Tasks \ {t} : task'[u] = task[u]
         /\ r \in Calling => task' \in [Tasks -> Calling]
BY DEF TypeOK, Goto

LEMMA StepFacts ==
  ASSUME TypeOK, NEW t \in Tasks, NEW s, Step(t, s)
  PROVE  /\ task'[t] = [task[t] EXCEPT !.at = s]
         /\ \A u \in Tasks \ {t} : task'[u] = task[u]
         /\ task'[t] \in Calling => task' \in [Tasks -> Calling]
BY DEF TypeOK, Step

LEMMA PutStep ==
  ASSUME TypeOK, NEW t \in Tasks, task[t].at \in PutSteps, NEW s \in PutSteps, Step(t, s)
  PROVE  /\ task'[t] = [at |-> s, blob |-> task[t].blob] /\ task[t].blob \in Blobs
         /\ \A u \in Tasks \ {t} : task'[u] = task[u]
         /\ task' \in [Tasks -> Calling]
<1>1. task[t] = [at |-> task[t].at, blob |-> task[t].blob] /\ task[t].blob \in Blobs
  BY Shapes DEF TypeOK
<1> DEFINE r == [at |-> s, blob |-> task[t].blob]
<1>2. [task[t] EXCEPT !.at = s] = r
  BY <1>1
<1>3. r \in Calling
  BY <1>1 DEF Calling, Putting, PutSteps
<1> QED BY <1>1, <1>2, <1>3, StepFacts

LEMMA MarkStep ==
  ASSUME TypeOK, NEW t \in Tasks, task[t].at \in MarkSteps, NEW s \in MarkSteps, Step(t, s)
  PROVE  /\ task'[t] = [at |-> s, blob |-> task[t].blob, pack |-> task[t].pack]
         /\ task[t].blob \in Blobs /\ task[t].pack \in PackIds
         /\ \A u \in Tasks \ {t} : task'[u] = task[u]
         /\ task' \in [Tasks -> Calling]
<1>1. /\ task[t] = [at |-> task[t].at, blob |-> task[t].blob, pack |-> task[t].pack]
      /\ task[t].blob \in Blobs /\ task[t].pack \in PackIds
  BY Shapes DEF TypeOK
<1> DEFINE r == [at |-> s, blob |-> task[t].blob, pack |-> task[t].pack]
<1>2. [task[t] EXCEPT !.at = s] = r
  BY <1>1
<1>3. r \in Calling
  BY <1>1 DEF Calling, Marking, MarkSteps
<1> QED BY <1>1, <1>2, <1>3, StepFacts

LEMMA ClearStep ==
  ASSUME TypeOK, NEW t \in Tasks, task[t].at \in ClearSteps, NEW s \in ClearSteps, Step(t, s)
  PROVE  /\ task'[t] = [at |-> s]
         /\ \A u \in Tasks \ {t} : task'[u] = task[u]
         /\ task' \in [Tasks -> Calling]
<1>1. task[t] = [at |-> task[t].at]
  BY Shapes DEF TypeOK
<1> DEFINE r == [at |-> s]
<1>2. [task[t] EXCEPT !.at = s] = r
  BY <1>1
<1>3. r \in Calling
  BY <1>1 DEF Calling, Clearing, ClearSteps
<1> QED BY <1>1, <1>2, <1>3, StepFacts

LEMMA CopyStep ==
  ASSUME TypeOK, NEW t \in Tasks, task[t].at \in CopySteps, NEW s \in CopySteps, Step(t, s)
  PROVE  /\ task'[t] = [at |-> s, todo |-> task[t].todo, pack |-> task[t].pack,
                        dst |-> task[t].dst, live |-> task[t].live, sound |-> task[t].sound]
         /\ task[t].todo \in SUBSET PackIds /\ task[t].pack \in PackIds
         /\ task[t].dst \in PackIds /\ task[t].live \in SUBSET Blobs
         /\ task[t].sound \in SUBSET Blobs
         /\ \A u \in Tasks \ {t} : task'[u] = task[u]
         /\ task' \in [Tasks -> Calling]
<1>1. /\ task[t] = [at |-> task[t].at, todo |-> task[t].todo, pack |-> task[t].pack,
                    dst |-> task[t].dst, live |-> task[t].live, sound |-> task[t].sound]
      /\ task[t].todo \in SUBSET PackIds /\ task[t].pack \in PackIds
      /\ task[t].dst \in PackIds /\ task[t].live \in SUBSET Blobs
         /\ task[t].sound \in SUBSET Blobs
  BY Shapes DEF TypeOK
<1> DEFINE r == [at |-> s, todo |-> task[t].todo, pack |-> task[t].pack,
                 dst |-> task[t].dst, live |-> task[t].live, sound |-> task[t].sound]
<1>2. [task[t] EXCEPT !.at = s] = r
  BY <1>1
<1>3. r \in Calling
  BY <1>1 DEF Calling, Copying, CopySteps
<1> QED BY <1>1, <1>2, <1>3, StepFacts


LEMMA CopyFields ==
  ASSUME TypeOK, NEW t \in Tasks, task[t].at \in CopySteps, NEW s \in CopySteps, Step(t, s)
  PROVE  /\ task'[t].at = s /\ task'[t].pack = task[t].pack /\ task'[t].dst = task[t].dst
         /\ task'[t].live = task[t].live /\ task'[t].todo = task[t].todo
         /\ task'[t].sound = task[t].sound
<1>1. task'[t] = [at |-> s, todo |-> task[t].todo, pack |-> task[t].pack,
                  dst |-> task[t].dst, live |-> task[t].live, sound |-> task[t].sound]
  BY CopyStep, Zenon
<1> QED BY <1>1

(* The actions in their classes: a step of task t ends its call, or goes   *)
(* on, and leaves the other calls where they are.                          *)

LEMMA ReturnFacts ==
  ASSUME TypeOK, NEW t \in Tasks, Return(t)
  PROVE  /\ task'[t] = Idle /\ \A u \in Tasks \ {t} : task'[u] = task[u]
         /\ task' \in [Tasks -> Calling]
BY GotoFacts DEF Return, Calling

(* Everything of TypeOK but the calls. *)
DataOK ==
  /\ file \in [PackIds -> {"none", "open", "sealed"}]
  /\ frames \in [PackIds -> SUBSET Blobs] /\ strays \in [PackIds -> SUBSET Blobs]
  /\ log \in [PackIds -> [Blobs -> {"none", "tombstone", "revive"}]]
  /\ rows \in [Blobs -> [pack : PackIds, state : {"absent", "live", "dead"}]]
  /\ writer \in PackIds /\ drift \in {"none", "whole", "torn"}
  /\ lock \in Tasks \cup {NoTask}
  /\ boot \in {"down", "recovered", "rebuilt", "up"}
  /\ kept \subseteq Blobs /\ lost \subseteq Blobs /\ sure \subseteq kept
  /\ misses \subseteq Blobs

LEMMA DataFacts == (TypeOK <=> DataOK /\ task \in [Tasks -> Calling])
                   /\ (TypeOK' <=> DataOK' /\ (task \in [Tasks -> Calling])')
BY DEF TypeOK, DataOK


LEMMA RowFacts ==
  ASSUME TypeOK, NEW b \in Blobs
  PROVE  /\ rows[b].pack \in PackIds /\ rows[b].state \in {"absent", "live", "dead"}
         /\ rows[b] = [pack |-> rows[b].pack, state |-> rows[b].state]
BY DEF TypeOK

LEMMA StartType ==
  ASSUME TypeOK, NEW t \in Tasks, Start(t)
  PROVE  TypeOK'
<1> USE DEF Call, disk, ghosts, counters
<1>1. ASSUME NEW b \in Blobs, PutStart(t, b) PROVE TypeOK'
  <2>1. DataOK'
    BY <1>1, DataFacts DEF DataOK, PutStart, Promise
  <2>2. (task \in [Tasks -> Calling])'
    <3>1. [at |-> "revive_log", blob |-> b, pack |-> rows[b].pack] \in Calling
      BY RowFacts DEF Calling, Marking
    <3>2. [at |-> "put_lock", blob |-> b] \in Calling
      BY DEF Calling, Putting
    <3> QED BY <1>1, <3>1, <3>2, RowFacts, GotoFacts, ReturnFacts DEF PutStart
  <2> QED BY <2>1, <2>2, DataFacts
<1>2. ASSUME NEW b \in Blobs, TombstoneStart(t, b) PROVE TypeOK'
  <2>1. DataOK'
    BY <1>2, DataFacts DEF DataOK, TombstoneStart
  <2>2. (task \in [Tasks -> Calling])'
    <3>1. [at |-> "tomb_log", blob |-> b, pack |-> rows[b].pack] \in Calling
      BY RowFacts DEF Calling, Marking
    <3> QED BY <1>2, <3>1, GotoFacts DEF TombstoneStart
  <2> QED BY <2>1, <2>2, DataFacts
<1>3. ASSUME NEW b \in Blobs, GetStart(t, b) PROVE TypeOK'
  <2>1. DataOK'
    BY <1>3, DataFacts DEF DataOK, GetStart
  <2>2. [at |-> "get_row", blob |-> b, tries |-> 0, last |-> NoRow.pack] \in Calling
    BY Ids DEF NoRow, Calling, Getting
  <2>3. (task \in [Tasks -> Calling])'
    BY <1>3, <2>2, GotoFacts DEF GetStart
  <2> QED BY <2>1, <2>3, DataFacts
<1>4. CASE ClearStart(t)
  <2>1. DataOK'
    BY <1>4, DataFacts DEF DataOK, ClearStart
  <2> DEFINE W == {<<b, rows[b].pack>> : b \in Live}
  <2>2. W \in SUBSET (Blobs \X PackIds)
    <3>1. \A b \in Live : b \in Blobs /\ rows[b].pack \in PackIds
      BY RowFacts DEF Live
    <3> QED BY <3>1
  <2>3. [at |-> "clear_log", todo |-> W] \in Calling /\ [at |-> "clear_lock"] \in Calling
    BY <2>2 DEF Calling, Clearing
  <2>4. (task \in [Tasks -> Calling])'
    BY <1>4, <2>3, GotoFacts DEF ClearStart
  <2> QED BY <2>1, <2>4, DataFacts
<1>5. CASE GcStart(t)
  <2>1. DataOK'
    BY <1>5, DataFacts DEF DataOK, GcStart
  <2> DEFINE S == Sealed
  <2>2. [at |-> "gc_next", todo |-> S] \in Calling
    BY DEF Calling, Choosing, Sealed
  <2>3. (task \in [Tasks -> Calling])'
    BY <1>5, <2>2, GotoFacts DEF GcStart
  <2> QED BY <2>1, <2>3, DataFacts
<1> QED BY <1>1, <1>2, <1>3, <1>4, <1>5, Zenon DEF Start

LEMMA TailType ==
  ASSUME TypeOK, WriteTail
  PROVE  strays' \in [PackIds -> SUBSET Blobs]
BY DEF TypeOK, WriteTail

LEMMA PutType ==
  ASSUME TypeOK, NEW t \in Tasks, Put(t)
  PROVE  TypeOK'
<1> USE DEF At, disk, ghosts, counters
<1>1. CASE PutLock(t)
  <2>0. task[t].blob \in Blobs
    BY <1>1, Shapes DEF PutLock, PutSteps, TypeOK
  <2>1. DataOK'
    BY <1>1, <2>0, DataFacts DEF DataOK, PutLock, Promise
  <2>2. ASSUME NEW s \in PutSteps, Step(t, s) PROVE (task \in [Tasks -> Calling])'
    BY <1>1, <2>2, PutStep DEF PutLock, PutSteps
  <2>3. CASE Return(t)
    BY <2>1, <2>3, ReturnFacts, DataFacts
  <2>4. CASE Goto(t, [at |-> "revive_log", blob |-> task[t].blob, pack |-> rows[task[t].blob].pack])
    <3>1. [at |-> "revive_log", blob |-> task[t].blob, pack |-> rows[task[t].blob].pack] \in Calling
      BY <2>0, RowFacts DEF Calling, Marking
    <3> QED BY <2>1, <2>4, <3>1, GotoFacts, DataFacts
  <2>5. CASE \E rotate \in Rotates : Step(t, IF rotate THEN "put_seal" ELSE "put_write")
    <3>1. PICK s \in PutSteps : Step(t, s)
      BY <2>5 DEF PutSteps
    <3> QED BY <2>1, <2>2, <3>1, DataFacts
  <2> QED BY <1>1, <2>0, <2>3, <2>4, <2>5, RowFacts DEF PutLock
<1>2. CASE PutSeal(t)
  <2>1. DataOK'
    BY <1>2, TailType, DataFacts DEF DataOK, PutSeal, Seal
  <2>2. (task \in [Tasks -> Calling])'
    BY <1>2, PutStep DEF PutSeal, PutSteps
  <2> QED BY <2>1, <2>2, DataFacts
<1>3. CASE PutCreate(t)
  <2>1. DataOK'
    BY <1>3, DataFacts DEF DataOK, PutCreate, NewPack
  <2>2. (task \in [Tasks -> Calling])'
    BY <1>3, PutStep DEF PutCreate, PutSteps
  <2> QED BY <2>1, <2>2, DataFacts
<1>4. CASE PutWrite(t)
  <2>2. (task \in [Tasks -> Calling])' /\ task[t].blob \in Blobs
    BY <1>4, PutStep DEF PutWrite, PutSteps
  <2>3. /\ frames' \in [PackIds -> SUBSET Blobs] /\ strays' \in [PackIds -> SUBSET Blobs]
    BY <1>4, <2>2 DEF TypeOK, PutWrite
  <2>1. DataOK'
    BY <1>4, <2>2, <2>3, DataFacts DEF DataOK, PutWrite
  <2> QED BY <2>1, <2>2, DataFacts
<1>5. CASE PutInsert(t)
  <2>0. task[t].blob \in Blobs
    BY <1>5, Shapes DEF PutInsert, PutSteps, TypeOK
  <2>1. DataOK'
    BY <1>5, <2>0, DataFacts DEF DataOK, PutInsert, Promise, Row
  <2>2. (task \in [Tasks -> Calling])'
    BY <1>5, ReturnFacts DEF PutInsert
  <2> QED BY <2>1, <2>2, DataFacts
<1>6. CASE ReviveLog(t)
  <2>2. (task \in [Tasks -> Calling])' /\ task[t].blob \in Blobs /\ task[t].pack \in PackIds
    BY <1>6, MarkStep DEF ReviveLog, MarkSteps
  <2>1. DataOK'
    BY <1>6, <2>2, DataFacts DEF DataOK, ReviveLog
  <2> QED BY <2>1, <2>2, DataFacts
<1>7. CASE ReviveUpdate(t)
  <2>0. task[t].blob \in Blobs
    BY <1>7, Shapes DEF ReviveUpdate, MarkSteps, TypeOK
  <2>1. DataOK'
    BY <1>7, <2>0, DataFacts DEF DataOK, ReviveUpdate, Promise, Unlock
  <2>2. (task \in [Tasks -> Calling])'
    BY <1>7, ReturnFacts DEF ReviveUpdate
  <2> QED BY <2>1, <2>2, DataFacts
<1> QED BY <1>1, <1>2, <1>3, <1>4, <1>5, <1>6, <1>7, Zenon DEF Put

LEMMA EvictType ==
  ASSUME TypeOK, NEW t \in Tasks, Evict(t)
  PROVE  TypeOK'
<1> USE DEF At, disk, ghosts, counters
<1>1. CASE TombstoneLog(t)
  <2>2. (task \in [Tasks -> Calling])' /\ task[t].blob \in Blobs /\ task[t].pack \in PackIds
    BY <1>1, MarkStep DEF TombstoneLog, MarkSteps
  <2>1. DataOK'
    BY <1>1, <2>2, DataFacts DEF DataOK, TombstoneLog, Evicted
  <2> QED BY <2>1, <2>2, DataFacts
<1>2. CASE TombstoneUpdate(t)
  <2>0. task[t].blob \in Blobs
    BY <1>2, Shapes DEF TombstoneUpdate, MarkSteps, TypeOK
  <2>1. DataOK'
    BY <1>2, <2>0, DataFacts DEF DataOK, TombstoneUpdate, Evicted
  <2>2. (task \in [Tasks -> Calling])'
    BY <1>2, ReturnFacts DEF TombstoneUpdate
  <2> QED BY <2>1, <2>2, DataFacts
<1>3. ASSUME NEW p \in PackIds, ClearLog(t, p) PROVE TypeOK'
  <2>1. DataOK'
    BY <1>3, DataFacts DEF DataOK, ClearLog, Evicted
  <2>0. task[t].todo \in SUBSET (Blobs \X PackIds)
    BY <1>3, Shapes DEF ClearLog, TypeOK
  <2> DEFINE W == {x \in task[t].todo : x[2] # p}
  <2>3. [at |-> "clear_log", todo |-> W] \in Calling /\ [at |-> "clear_update"] \in Calling
    BY <2>0 DEF Calling, Clearing
  <2>2. (task \in [Tasks -> Calling])'
    BY <1>3, <2>3, GotoFacts DEF ClearLog
  <2> QED BY <2>1, <2>2, DataFacts
<1>4. CASE ClearUpdate(t)
  <2>1. rows' \in [Blobs -> [pack : PackIds, state : {"absent", "live", "dead"}]]
    BY <1>4, RowFacts DEF ClearUpdate, TypeOK, Row
  <2>2. DataOK'
    BY <1>4, <2>1, DataFacts DEF DataOK, ClearUpdate, Evicted
  <2>3. (task \in [Tasks -> Calling])'
    BY <1>4, ClearStep DEF ClearUpdate, ClearSteps
  <2> QED BY <2>2, <2>3, DataFacts
<1>5. CASE ClearLock(t)
  <2>0. strays' \in [PackIds -> SUBSET Blobs]
    BY <1>5, TailType DEF ClearLock, Seal, TypeOK
  <2>1. DataOK'
    BY <1>5, <2>0, DataFacts DEF DataOK, ClearLock, Seal
  <2> DEFINE S == Sealed
  <2>2. [at |-> "gc_next", todo |-> S] \in Calling
    BY DEF Calling, Choosing, Sealed
  <2>3. (task \in [Tasks -> Calling])'
    BY <1>5, <2>2, GotoFacts, ClearStep DEF ClearLock, ClearSteps
  <2> QED BY <2>1, <2>3, DataFacts
<1>6. CASE ClearCreate(t)
  <2>1. DataOK'
    BY <1>6, DataFacts DEF DataOK, ClearCreate, NewPack
  <2> DEFINE S == Sealed
  <2>2. [at |-> "gc_next", todo |-> S] \in Calling
    BY DEF Calling, Choosing, Sealed
  <2>3. (task \in [Tasks -> Calling])'
    BY <1>6, <2>2, GotoFacts DEF ClearCreate
  <2> QED BY <2>1, <2>3, DataFacts
<1> QED BY <1>1, <1>2, <1>3, <1>4, <1>5, <1>6, Zenon DEF Evict


LEMMA CollectType ==
  ASSUME TypeOK, NEW t \in Tasks, Collect(t)
  PROVE  TypeOK'
<1> USE DEF At, disk, ghosts, counters
<1>1. CASE GcNext(t)
  <2>1. DataOK'
    BY <1>1, DataFacts DEF DataOK, GcNext
  <2>2. task[t].todo \in SUBSET PackIds
    BY <1>1, Shapes DEF GcNext, TypeOK
  <2>3. CASE task[t].todo = {}
    BY <1>1, <2>1, <2>3, ReturnFacts, DataFacts DEF GcNext
  <2>4. CASE task[t].todo # {}
    <3> DEFINE p == Min(task[t].todo)
               S == task[t].todo \ {p}
    <3>1. p \in PackIds
      BY <2>2, <2>4, Ids, MinFacts
    <3> HIDE DEF p
    <3>2. /\ [at |-> "gc_next", todo |-> S] \in Calling
          /\ [at |-> "gc_alloc", todo |-> S, pack |-> p] \in Calling
      BY <2>2, <3>1 DEF Calling, Choosing
    <3>3. \/ Goto(t, [at |-> "gc_next", todo |-> S])
          \/ Goto(t, [at |-> "gc_alloc", todo |-> S, pack |-> p])
      BY <1>1, <2>4 DEF GcNext, p
    <3> QED BY <2>1, <3>2, <3>3, GotoFacts, DataFacts
  <2> QED BY <2>3, <2>4
<1>2. CASE GcAlloc(t)
  <2>1. DataOK' /\ NextPackId \in PackIds
    BY <1>2, DataFacts DEF DataOK, GcAlloc, NewPack
  <2>2. task[t].todo \in SUBSET PackIds /\ task[t].pack \in PackIds
    BY <1>2, Shapes DEF GcAlloc, TypeOK
  <2>3. [at |-> "gc_snapshot", todo |-> task[t].todo, pack |-> task[t].pack, dst |-> NextPackId]
          \in Calling
    BY <2>1, <2>2 DEF Calling, Copying
  <2> QED BY <1>2, <2>1, <2>3, GotoFacts, DataFacts DEF GcAlloc
<1>3. CASE GcSnapshot(t)
  <2>1. DataOK'
    BY <1>3, DataFacts DEF DataOK, GcSnapshot
  <2>2. task[t].todo \in SUBSET PackIds /\ task[t].pack \in PackIds /\ task[t].dst \in PackIds
    BY <1>3, Shapes DEF GcSnapshot, TypeOK
  <2> DEFINE L == RowsOf(task[t].pack) \ DeadOf(task[t].pack)
  <2>3. L \in SUBSET Blobs
    BY DEF RowsOf
  <2> HIDE DEF L
  <2>4. [at |-> "gc_open", todo |-> task[t].todo, pack |-> task[t].pack, dst |-> task[t].dst,
         live |-> L, sound |-> L \cap frames[task[t].pack]] \in Calling
    BY <2>2, <2>3 DEF Calling, Copying
  <2> QED BY <1>3, <2>1, <2>4, GotoFacts, DataFacts DEF GcSnapshot, L
<1>4. CASE GcOpen(t)
  <2>1. DataOK'
    BY <1>4, DataFacts DEF DataOK, GcOpen
  <2> QED BY <1>4, <2>1, ReturnFacts, CopyStep, DataFacts DEF GcOpen, CopySteps
<1>5. CASE GcCopy(t)
  <2>1. task[t].sound \in SUBSET Blobs /\ task[t].dst \in PackIds
    BY <1>5, Shapes DEF GcCopy, TypeOK, CopySteps
  <2>2. CASE frames' = frames /\ (Step(t, "gc_seal") \/ Return(t))
    BY <1>5, <2>2, CopyStep, ReturnFacts, DataFacts DEF DataOK, GcCopy, CopySteps
  <2>3. ASSUME NEW b \in task[t].sound, frames' = [frames EXCEPT ![task[t].dst] = @ \cup {b}],
               UNCHANGED task
        PROVE  TypeOK'
    <3>2. frames' \in [PackIds -> SUBSET Blobs]
      BY <2>1, <2>3 DEF TypeOK
    <3> QED BY <1>5, <2>3, <3>2 DEF GcCopy, TypeOK
  <2> QED BY <1>5, <2>2, <2>3 DEF GcCopy
<1>6. CASE GcSeal(t)
  <2>1. DataOK'
    BY <1>6, DataFacts DEF DataOK, GcSeal
  <2> QED BY <1>6, <2>1, CopyStep, DataFacts DEF GcSeal, CopySteps
<1>7. CASE GcSwap(t)
  <2>1. task[t].live \in SUBSET Blobs /\ task[t].dst \in PackIds /\ (task \in [Tasks -> Calling])'
    BY <1>7, CopyStep DEF GcSwap, CopySteps
  <2>2. rows' \in [Blobs -> [pack : PackIds, state : {"absent", "live", "dead"}]]
    <3>1. NoRow \in [pack : PackIds, state : {"absent", "live", "dead"}]
      BY Ids DEF NoRow
    <3>2. \A b \in Blobs : /\ Row(task[t].dst, rows[b].state)
                                \in [pack : PackIds, state : {"absent", "live", "dead"}]
                           /\ rows[b] \in [pack : PackIds, state : {"absent", "live", "dead"}]
      BY <2>1, RowFacts DEF Row, TypeOK
    <3> QED BY <1>7, <3>1, <3>2 DEF GcSwap
  <2>3. DataOK'
    BY <1>7, <2>1, <2>2, DataFacts DEF DataOK, GcSwap
  <2> QED BY <2>1, <2>3, DataFacts
<1>8. CASE GcUnlink(t)
  <2>1. DataOK'
    BY <1>8, DataFacts DEF DataOK, GcUnlink
  <2> QED BY <1>8, <2>1, CopyStep, DataFacts DEF GcUnlink, CopySteps
<1>9. CASE GcUnlinkLog(t)
  <2>1. DataOK'
    BY <1>9, DataFacts DEF DataOK, GcUnlinkLog, EmptyLog
  <2>2. task[t].todo \in SUBSET PackIds
    BY <1>9, Shapes DEF GcUnlinkLog, TypeOK, CopySteps
  <2>3. [at |-> "gc_next", todo |-> task[t].todo] \in Calling
    BY <2>2 DEF Calling, Choosing
  <2> QED BY <1>9, <2>1, <2>3, GotoFacts, DataFacts DEF GcUnlinkLog
<1> QED BY <1>1, <1>2, <1>3, <1>4, <1>5, <1>6, <1>7, <1>8, <1>9, Zenon DEF Collect

LEMMA GetType ==
  ASSUME TypeOK, NEW t \in Tasks, Get(t)
  PROVE  TypeOK'
<1> USE DEF At, disk, ghosts, counters
<1>1. CASE GetRow(t)
  <2>1. DataOK'
    BY <1>1, DataFacts DEF DataOK, GetRow
  <2>2. task[t].blob \in Blobs /\ task[t].tries \in Nat /\ task[t].last \in PackIds
    BY <1>1, Shapes DEF GetRow, TypeOK
  <2>3. [at |-> "get_sealed", blob |-> task[t].blob, tries |-> task[t].tries,
         last |-> task[t].last, pack |-> rows[task[t].blob].pack] \in Calling
    BY <2>2, RowFacts DEF Calling, Getting
  <2> QED BY <1>1, <2>1, <2>3, GotoFacts, ReturnFacts, DataFacts DEF GetRow
<1>2. ASSUME GetRead(t), task[t].blob \in Blobs
      PROVE  task' \in [Tasks -> Calling] /\ misses' \subseteq Blobs
  BY <1>2, ReturnFacts DEF GetRead, GetFails, TypeOK
<1>3. CASE GetSealed(t)
  <2>1. /\ task[t].blob \in Blobs /\ task[t].tries \in Nat /\ task[t].last \in PackIds
        /\ task[t].pack \in PackIds
        /\ task[t] = [at |-> task[t].at, blob |-> task[t].blob, tries |-> task[t].tries,
                      last |-> task[t].last, pack |-> task[t].pack]
    BY <1>3, Shapes DEF GetSealed, TypeOK
  <2>2. [at |-> "get_open", blob |-> task[t].blob, tries |-> task[t].tries,
         last |-> task[t].last, pack |-> task[t].pack] \in Calling
    BY <2>1 DEF Calling, Getting
  <2>3. [task[t] EXCEPT !.at = "get_open"] \in Calling
    BY <2>1, <2>2
  <2>4. task' \in [Tasks -> Calling] /\ misses' \subseteq Blobs
    BY <1>2, <1>3, <2>1, <2>3, StepFacts DEF GetSealed, TypeOK
  <2> QED BY <1>3, <2>4 DEF GetSealed, TypeOK
<1>4. CASE GetOpen(t)
  <2>1. /\ task[t].blob \in Blobs /\ task[t].tries \in Nat /\ task[t].pack \in PackIds
    BY <1>4, Shapes DEF GetOpen, TypeOK
  <2>2. [at |-> "get_row", blob |-> task[t].blob, tries |-> task[t].tries + 1,
         last |-> task[t].pack] \in Calling
    BY <2>1 DEF Calling, Getting
  <2>4. task' \in [Tasks -> Calling] /\ misses' \subseteq Blobs
    BY <1>2, <1>4, <2>1, <2>2, GotoFacts, ReturnFacts DEF GetOpen, GetFails, TypeOK
  <2> QED BY <1>4, <2>4 DEF GetOpen, TypeOK
<1> QED BY <1>1, <1>3, <1>4 DEF Get

LEMMA FailType ==
  ASSUME TypeOK, NEW t \in Tasks, Fail(t)
  PROVE  TypeOK'
<1> USE DEF disk, ghosts, counters, Fault, FaultAt, Unlock, SealFails
<1>1. CASE PutSealFails(t)
  BY <1>1, TailType, ReturnFacts DEF TypeOK, PutSealFails
<1>2. ASSUME CreateFails
      PROVE  /\ file' \in [PackIds -> {"none", "open", "sealed"}] /\ lost' \subseteq Blobs
             /\ frames' \in [PackIds -> SUBSET Blobs] /\ strays' \in [PackIds -> SUBSET Blobs]
             /\ drift' = "torn" /\ boot' = boot
  BY <1>2 DEF TypeOK, CreateFails, NewPack
<1>3. CASE PutCreateFails(t)
  BY <1>2, <1>3, ReturnFacts DEF TypeOK, PutCreateFails
<1>4. CASE PutWriteFails(t)
  BY <1>4, ReturnFacts DEF TypeOK, PutWriteFails
<1>5. CASE PutInsertFails(t)
  <2>1. task[t].blob \in Blobs
    BY <1>5, Shapes DEF PutInsertFails, PutSteps, TypeOK
  <2>2. /\ frames' \in [PackIds -> SUBSET Blobs] /\ strays' \in [PackIds -> SUBSET Blobs]
        /\ drift' \in {"none", "whole", "torn"}
    BY <1>5, <2>1 DEF TypeOK, PutInsertFails
  <2> QED BY <1>5, <2>2, ReturnFacts DEF TypeOK, PutInsertFails
<1>6. CASE ClearLockFails(t) \/ ClearCreateFails(t)
  <2>1. [at |-> "gc_next", todo |-> Sealed] \in Calling
    BY DEF Calling, Choosing, Sealed
  <2>2. Goto(t, [at |-> "gc_next", todo |-> Sealed])
    BY <1>6 DEF ClearLockFails, ClearCreateFails
  <2>3. task' \in [Tasks -> Calling]
    BY <2>1, <2>2, GotoFacts
  <2> QED BY <1>2, <1>6, <2>3, TailType DEF TypeOK, ClearLockFails, ClearCreateFails
<1>7. CASE Abort(t)
  BY <1>7, ReturnFacts DEF TypeOK, Abort
<1> QED BY <1>1, <1>3, <1>4, <1>5, <1>6, <1>7 DEF Fail

LEMMA CrashType ==
  ASSUME TypeOK, Crash
  PROVE  TypeOK'
BY DEF TypeOK, Crash, Calling, disk, ghosts

LEMMA RestartType ==
  ASSUME TypeOK, Restart
  PROVE  TypeOK'
<1> USE DEF disk, ghosts, counters
<1>1. CASE Recover
  <2>1. CASE Opens = {}
    BY <1>1, <2>1 DEF Recover, NewPack, TypeOK
  <2>2. CASE Opens # {}
    <3> DEFINE w == Min(Opens)
    <3>1. w \in PackIds
      BY <2>2, Ids, MinFacts DEF Opens
    <3>2. Reindexed(rows, w) \in [Blobs -> [pack : PackIds, state : {"absent", "live", "dead"}]]
      BY <3>1 DEF Reindexed, Row, TypeOK
    <3> HIDE DEF w
    <3>3. rows' = Reindexed(rows, w) /\ writer' = w
      BY <1>1, <2>2 DEF Recover, w
    <3>4. /\ file' \in [PackIds -> {"none", "open", "sealed"}]
          /\ frames' \in [PackIds -> SUBSET Blobs] /\ strays' \in [PackIds -> SUBSET Blobs]
          /\ log' \in [PackIds -> [Blobs -> {"none", "tombstone", "revive"}]]
          /\ lost' \subseteq Blobs
      <4>0. file' \in [PackIds -> {"none", "open", "sealed"}]
        BY <1>1, <2>2 DEF Recover, Without, TypeOK
      <4>1. frames' \in [PackIds -> SUBSET Blobs] /\ strays' \in [PackIds -> SUBSET Blobs]
        <5>1. \A p \in PackIds : Walk(p) \in SUBSET Blobs
          BY DEF Walk, TypeOK
        <5>2. /\ frames' = [p \in PackIds |-> IF p \in Opens \ {w} THEN {}
                                               ELSE IF p = w THEN Walk(w) ELSE frames[p]]
              /\ strays' = [p \in PackIds |-> IF p \in Opens THEN {} ELSE strays[p]]
          BY <1>1, <2>2 DEF Recover, w
        <5> QED BY <3>1, <5>1, <5>2 DEF TypeOK
      <4>2. log' \in [PackIds -> [Blobs -> {"none", "tombstone", "revive"}]]
        <5>1. EmptyLog \in [Blobs -> {"none", "tombstone", "revive"}]
          BY DEF EmptyLog
        <5>2. \E S : log' = [p \in PackIds |-> IF p \in S THEN EmptyLog ELSE log[p]]
          BY <1>1, <2>2 DEF Recover, Without
        <5> QED BY <5>1, <5>2 DEF TypeOK
      <4>3. lost' \subseteq Blobs
        BY <1>1, <2>2 DEF Recover, TypeOK
      <4> QED BY <4>0, <4>1, <4>2, <4>3
    <3> QED BY <1>1, <3>1, <3>2, <3>3, <3>4 DEF Recover, TypeOK
  <2> QED BY <2>1, <2>2
<1>2. CASE Rebuild
  <2>1. ASSUME NEW b \in Blobs
        PROVE  RebuiltRow(b) \in [pack : PackIds, state : {"absent", "live", "dead"}]
    <3> DEFINE holds == {p \in Sealed : b \in Walk(p)}
               says == {p \in Sealed : log[p][b] # "none"}
               place == IF holds = {} THEN rows[b].pack ELSE Max(holds)
               state == CASE says # {} /\ log[Max(says)][b] = "tombstone" -> "dead"
                          [] says # {} /\ log[Max(says)][b] = "revive" -> "live"
                          [] says = {} -> IF rows[b].state = "dead" THEN "dead" ELSE "live"
    <3>1. holds \in SUBSET (0..MaxPack) /\ says \in SUBSET (0..MaxPack)
      BY Ids DEF Sealed
    <3>2. place \in PackIds
      BY <3>1, Ids, MaxFacts, RowFacts
    <3>3. says # {} => Max(says) \in says
      BY <3>1, Ids, MaxFacts
    <3>4. says # {} => log[Max(says)][b] \in {"tombstone", "revive"}
      BY <3>3 DEF TypeOK, Sealed
    <3>5. state \in {"live", "dead"}
      BY <3>4
    <3>6. RebuiltRow(b) = NoRow \/ RebuiltRow(b) = Row(place, state)
      BY DEF RebuiltRow
    <3> HIDE DEF place, state
    <3> QED BY <3>2, <3>5, <3>6, Ids DEF NoRow, Row
  <2>2. rows' \in [Blobs -> [pack : PackIds, state : {"absent", "live", "dead"}]]
    BY <1>2, <2>1 DEF Rebuild
  <2>3. /\ frames' \in [PackIds -> SUBSET Blobs] /\ strays' \in [PackIds -> SUBSET Blobs]
    BY <1>2 DEF Rebuild, Walk, TypeOK
  <2> QED BY <1>2, <2>2, <2>3 DEF Rebuild, TypeOK
<1>3. ASSUME NEW S, Swept(S), lost' \subseteq Blobs PROVE TypeOK'
  BY <1>3 DEF Swept, Without, EmptyLog, TypeOK
<1>4. CASE Sweep
  BY <1>3, <1>4 DEF Sweep, TypeOK
<1>5. CASE SweepFails
  BY <1>3, <1>5 DEF SweepFails, RowsOf, TypeOK
<1> QED BY <1>1, <1>2, <1>4, <1>5 DEF Restart

LEMMA TypeStep ==
  ASSUME TypeOK, Next
  PROVE  TypeOK'
BY StartType, PutType, EvictType, CollectType, GetType, FailType, CrashType, RestartType DEF Next


---------------------------------------------------------------------------
(* What no step of a call takes back: an id that is spent stays spent, a   *)
(* pack that is closed is not opened, one that is gone does not return.    *)
DiskKeeps ==
  /\ \A p \in PackIds : Spent(p) => Spent(p)'
  /\ \A p \in PackIds : Above(p) => Above(p)'
  /\ \A p \in PackIds : Spent(p) /\ file[p] # "open" => file'[p] # "open"
  /\ \A p \in PackIds : Spent(p) /\ ~Exists(p) => ~(Exists(p)')
  /\ lost \subseteq lost'

LEMMA DiskSame ==
  ASSUME file' = file, lost \subseteq lost'
  PROVE  DiskKeeps
BY DEF DiskKeeps, Spent, Above, Exists

LEMMA DiskSealed ==
  ASSUME TypeOK, NEW d \in PackIds, Exists(d), file' = [file EXCEPT ![d] = "sealed"],
         lost \subseteq lost'
  PROVE  DiskKeeps
<1>1. \A p \in PackIds : Exists(p)' <=> Exists(p)
  BY DEF Exists, TypeOK
<1>2. \A p \in PackIds : file[p] # "open" => file'[p] # "open"
  BY DEF TypeOK
<1> QED BY <1>1, <1>2 DEF DiskKeeps, Spent, Above

LEMMA DiskCreated ==
  ASSUME TypeOK, Spent(writer), NewPack
  PROVE  /\ DiskKeeps /\ NextPackId \in PackIds
         /\ \A p \in PackIds \ {NextPackId} : file'[p] = file[p] /\ frames'[p] = frames[p]
         /\ file'[NextPackId] = "open" /\ frames'[NextPackId] = {}
         /\ \A p \in PackIds : Spent(p) => p # NextPackId
         /\ \A p \in PackIds : Spent(p) => Above(p)'
         /\ NextPackId # writer
<1>0. PICK n \in PackIds : n = NextPackId
  BY DEF NewPack
<1>1. /\ ~Exists(n) /\ n # writer
      /\ \A p \in PackIds : Exists(p) => p < n
      /\ \A p \in PackIds : Spent(p) => p # n
  BY <1>0, NextFacts
<1>2. /\ \A p \in PackIds \ {n} : file'[p] = file[p] /\ frames'[p] = frames[p]
      /\ file'[n] = "open" /\ frames'[n] = {} /\ lost \subseteq lost'
  BY <1>0 DEF NewPack, TypeOK
<1>3. \A p \in PackIds : Exists(p) => Exists(p)'
  BY <1>1, <1>2 DEF Exists
<1>4. \A p \in PackIds : Above(p) => Above(p)'
  BY <1>3 DEF Above
<1>5. \A p \in PackIds : Spent(p) => Spent(p)'
  BY <1>3, <1>4 DEF Spent
<1>6. \A p \in PackIds : Spent(p) => file'[p] = file[p]
  BY <1>1, <1>2
<1>7. DiskKeeps
  BY <1>2, <1>4, <1>5, <1>6 DEF DiskKeeps, Exists
<1>8. Exists(n)'
  BY <1>2 DEF Exists
<1>9. ASSUME NEW p \in PackIds, Spent(p) PROVE Above(p)'
  <2>1. CASE Exists(p)
    BY <1>0, <1>1, <1>8, <2>1 DEF Above
  <2>2. CASE Above(p)
    BY <1>4, <2>2
  <2> QED BY <1>9, <2>1, <2>2 DEF Spent
<1> QED BY <1>0, <1>1, <1>2, <1>7, <1>9

LEMMA DiskUnlinked ==
  ASSUME TypeOK, NEW d \in PackIds, Above(d), file' = [file EXCEPT ![d] = "none"],
         lost \subseteq lost'
  PROVE  DiskKeeps
<1>1. \A p \in PackIds \ {d} : file'[p] = file[p]
  BY DEF TypeOK
<1>2. file'[d] = "none"
  BY DEF TypeOK
<1>3. PICK e \in PackIds : e > d /\ Exists(e)
  BY DEF Above
<1>4. e # d /\ Exists(e)'
  BY <1>1, <1>3, Ids DEF Exists
<1>5. ASSUME NEW p \in PackIds, Above(p) PROVE Above(p)'
  <2>1. PICK q \in PackIds : q > p /\ Exists(q)
    BY <1>5 DEF Above
  <2>2. CASE q = d
    BY <1>3, <1>4, <2>1, <2>2, Ids DEF Above
  <2>3. CASE q # d
    BY <1>1, <2>1, <2>3 DEF Above, Exists
  <2> QED BY <2>2, <2>3
<1>6. \A p \in PackIds : Exists(p) /\ p # d => Exists(p)'
  BY <1>1 DEF Exists
<1>7. \A p \in PackIds : Spent(p) => Spent(p)'
  BY <1>5, <1>6 DEF Spent
<1>8. \A p \in PackIds : file[p] # "open" => file'[p] # "open"
  BY <1>1, <1>2
<1>9. \A p \in PackIds : ~Exists(p) => ~(Exists(p)')
  BY <1>1, <1>2 DEF Exists
<1> QED BY <1>5, <1>7, <1>8, <1>9 DEF DiskKeeps


---------------------------------------------------------------------------
(* The steps of one call. *)
CallStep(t) == Start(t) \/ Put(t) \/ Evict(t) \/ Collect(t) \/ Get(t) \/ Fail(t)

(* What a failing operation leaves behind. *)
LEMMA FailFacts ==
  ASSUME TypeOK, NEW t \in Tasks, Fail(t)
  PROVE  /\ boot = "up" /\ boot' = "up" /\ UNCHANGED <<log, rows, writer, kept>>
         /\ Return(t) \/ Goto(t, [at |-> "gc_next", todo |-> Sealed])
         /\ drift' = drift \/ drift' = "torn" \/ (drift = "none" /\ drift' = "whole")
         /\ task[t].at \in {"put_create", "clear_create"} => drift' = "torn"
         /\ NewPack \/ UNCHANGED <<file, lost>>
         /\ lock' = lock \/ lock' = NoTask
         /\ ~NewPack /\ UNCHANGED <<file, lost>> =>
              \/ frames' = frames
              \/ task[t].at = "put_insert" /\ drift = "none" /\ drift' = "whole"
                 /\ frames' = [frames EXCEPT ![writer] = @ \ {task[t].blob}]
<1> USE DEF disk, ghosts, Fault, FaultAt, Unlock, SealFails, counters
<1>1. CASE PutSealFails(t)
  BY <1>1 DEF PutSealFails
<1>2. CASE PutCreateFails(t)
  BY <1>2 DEF PutCreateFails, CreateFails
<1>3. CASE PutWriteFails(t)
  BY <1>3 DEF PutWriteFails
<1>4. CASE PutInsertFails(t)
  <2>1. \/ frames' = frames
        \/ /\ drift = "none" /\ drift' = "whole"
           /\ frames' = [frames EXCEPT ![writer] = @ \ {task[t].blob}]
    BY <1>4 DEF PutInsertFails, TypeOK
  <2>2. /\ boot = "up" /\ boot' = "up" /\ UNCHANGED <<file, log, rows, writer, kept, lost>>
        /\ Return(t) /\ task[t].at = "put_insert" /\ (lock' = lock \/ lock' = NoTask)
    BY <1>4 DEF PutInsertFails
  <2>3. drift' = drift \/ (drift = "none" /\ drift' = "whole")
    BY <1>4 DEF PutInsertFails
  <2> QED BY <2>1, <2>2, <2>3
<1>5. CASE ClearLockFails(t)
  BY <1>5 DEF ClearLockFails
<1>6. CASE ClearCreateFails(t)
  BY <1>6 DEF ClearCreateFails, CreateFails
<1>7. CASE Abort(t)
  BY <1>7 DEF Abort
<1> QED BY <1>1, <1>2, <1>3, <1>4, <1>5, <1>6, <1>7 DEF Fail

LEMMA OthersStay ==
  ASSUME TypeOK, NEW t \in Tasks, CallStep(t)
  PROVE  /\ boot = "up" /\ boot' = "up"
         /\ \A u \in Tasks \ {t} : task'[u] = task[u]
<1> USE DEF At, Call, Return
<1>1. CASE Start(t)
  <2>1. ASSUME NEW b \in Blobs, PutStart(t, b) \/ TombstoneStart(t, b) \/ GetStart(t, b)
        PROVE  boot = "up" /\ boot' = "up" /\ \E r : Goto(t, r)
    BY <2>1, RowFacts DEF PutStart, TombstoneStart, GetStart
  <2>2. ASSUME ClearStart(t) \/ GcStart(t)
        PROVE  boot = "up" /\ boot' = "up" /\ \E r : Goto(t, r)
    BY <2>2 DEF ClearStart, GcStart
  <2> QED BY <1>1, <2>1, <2>2, GotoFacts DEF Start
<1>2. CASE Put(t)
  <2>0. ASSUME PutLock(t) PROVE (\E r : Goto(t, r)) \/ (\E s : Step(t, s))
    <3>1. task[t].blob \in Blobs
      BY <2>0, Shapes DEF PutLock, PutSteps, TypeOK
    <3> QED BY <2>0, <3>1, RowFacts DEF PutLock
  <2>1. boot = "up" /\ boot' = "up"
    BY <1>2 DEF Put, PutLock, PutSeal, PutCreate, PutWrite, PutInsert, ReviveLog, ReviveUpdate
  <2>2. (\E r : Goto(t, r)) \/ (\E s : Step(t, s))
    BY <1>2, <2>0 DEF Put, PutSeal, PutCreate, PutWrite, PutInsert, ReviveLog, ReviveUpdate
  <2> QED BY <2>1, <2>2, GotoFacts, StepFacts
<1>3. CASE Evict(t)
  <2>1. boot = "up" /\ boot' = "up"
    BY <1>3 DEF Evict, TombstoneLog, TombstoneUpdate, ClearLog, ClearUpdate, ClearLock, ClearCreate
  <2>2. (\E r : Goto(t, r)) \/ (\E s : Step(t, s))
    BY <1>3 DEF Evict, TombstoneLog, TombstoneUpdate, ClearLog, ClearUpdate, ClearLock, ClearCreate
  <2> QED BY <2>1, <2>2, GotoFacts, StepFacts
<1>4. CASE Collect(t)
  <2>1. boot = "up" /\ boot' = "up"
    BY <1>4 DEF Collect, GcNext, GcAlloc, GcSnapshot, GcOpen, GcCopy, GcSeal, GcSwap, GcUnlink,
                GcUnlinkLog
  <2>2. (\E r : Goto(t, r)) \/ (\E s : Step(t, s)) \/ UNCHANGED task
    BY <1>4 DEF Collect, GcNext, GcAlloc, GcSnapshot, GcOpen, GcCopy, GcSeal, GcSwap, GcUnlink,
                GcUnlinkLog
  <2> QED BY <2>1, <2>2, GotoFacts, StepFacts
<1>5. CASE Get(t)
  <2>1. boot = "up" /\ boot' = "up"
    BY <1>5 DEF Get, GetRow, GetSealed, GetOpen
  <2>2. (\E r : Goto(t, r)) \/ (\E s : Step(t, s))
    BY <1>5 DEF Get, GetRow, GetSealed, GetOpen, GetRead, GetFails
  <2> QED BY <2>1, <2>2, GotoFacts, StepFacts
<1>6. CASE Fail(t)
  BY <1>6, FailFacts, GotoFacts
<1> QED BY <1>1, <1>2, <1>3, <1>4, <1>5, <1>6 DEF CallStep

(* A call's actions that change neither the disk nor the index. *)
LEMMA QuietStep ==
  ASSUME NEW t \in Tasks,
         \/ Start(t) \/ Get(t) \/ PutLock(t) \/ GcNext(t) \/ GcSnapshot(t) \/ GcOpen(t)
  PROVE  UNCHANGED <<file, frames, log, rows, writer, drift, lost>>
BY DEF Start, PutStart, TombstoneStart, GetStart, ClearStart, GcStart, Get, GetRow, GetSealed,
       GetOpen, PutLock, GcNext, GcSnapshot, GcOpen, disk, ghosts

LEMMA SourceFacts ==
  ASSUME TypeOK, NEW t \in Tasks, SourceAt(t), task[t].at \in Sources
  PROVE  /\ task[t].pack \in PackIds /\ file[task[t].pack] # "open" /\ Spent(task[t].pack)
         /\ task[t].todo \in SUBSET PackIds
         /\ \A p \in task[t].todo : file[p] # "open" /\ Spent(p)
         /\ task[t].at # "gc_alloc" =>
              /\ Above(task[t].pack) /\ task[t].dst \in PackIds
              /\ task[t].pack = writer => drift = "torn"
<1>1. task[t].pack \in PackIds /\ task[t].todo \in SUBSET PackIds
      /\ (task[t].at # "gc_alloc" => task[t].dst \in PackIds)
  BY Shapes DEF Sources, CopySteps, TypeOK
<1>2. ListedBy(task[t]) = task[t].todo \cup {task[t].pack}
  BY DEF ListedBy, Sources
<1> QED BY <1>1, <1>2 DEF SourceAt

LEMMA DiskStep ==
  ASSUME StoreInv, NEW t \in Tasks, CallStep(t)
  PROVE  DiskKeeps /\ writer' \in {writer, NextPackId}
         /\ (writer' = NextPackId => NextPackId \in PackIds)
<1> USE DEF disk, ghosts
<1>0. TypeOK /\ WriterInv /\ SourceAt(t) /\ TargetAt(t)
  BY DEF StoreInv, SourceInv, TargetInv
<1>w. writer \in PackIds /\ Spent(writer)
  BY <1>0 DEF TypeOK, WriterInv
<1>1. CASE \/ Start(t) \/ Get(t) \/ PutLock(t) \/ GcNext(t) \/ GcSnapshot(t) \/ GcOpen(t)
  BY <1>1, <1>w, QuietStep, DiskSame
<1>2. CASE \/ PutWrite(t) \/ PutInsert(t) \/ ReviveLog(t) \/ ReviveUpdate(t)
           \/ TombstoneLog(t) \/ TombstoneUpdate(t) \/ ClearUpdate(t)
           \/ GcCopy(t) \/ GcSwap(t) \/ GcUnlinkLog(t)
  <2>1. file' = file /\ lost \subseteq lost' /\ writer' = writer
    BY <1>2 DEF PutWrite, PutInsert, ReviveLog, ReviveUpdate, TombstoneLog, TombstoneUpdate,
                ClearUpdate, GcCopy, GcSwap, GcUnlinkLog
  <2> QED BY <1>w, <2>1, DiskSame
<1>3. ASSUME NEW p \in PackIds, ClearLog(t, p) PROVE DiskKeeps /\ writer' = writer
  <2>1. file' = file /\ lost \subseteq lost' /\ writer' = writer
    BY <1>3 DEF ClearLog
  <2> QED BY <2>1, DiskSame
<1>4. CASE PutSeal(t) \/ ClearLock(t)
  <2>1. lost \subseteq lost' /\ writer' = writer
    BY <1>4 DEF PutSeal, ClearLock
  <2>2. file' = file \/ (Exists(writer) /\ file' = [file EXCEPT ![writer] = "sealed"])
    BY <1>4 DEF PutSeal, ClearLock, Seal, Exists
  <2> QED BY <1>0, <1>w, <2>1, <2>2, DiskSame, DiskSealed
<1>5. CASE PutCreate(t) \/ ClearCreate(t) \/ GcAlloc(t)
  <2>1. NewPack /\ writer' \in {writer, NextPackId}
    BY <1>5 DEF PutCreate, ClearCreate, GcAlloc
  <2> QED BY <1>0, <1>w, <2>1, DiskCreated
<1>6. CASE GcSeal(t)
  <2>1. /\ task[t].at = "gc_seal" /\ file' = [file EXCEPT ![task[t].dst] = "sealed"]
        /\ lost' = lost /\ writer' = writer
    BY <1>6 DEF GcSeal, At
  <2>2. task[t].dst \in PackIds
    BY <1>0, <2>1, SourceFacts DEF Sources
  <2>3. Exists(task[t].dst)
    BY <1>0, <2>1 DEF TargetAt, Targets, Copies, Exists
  <2> QED BY <1>0, <1>w, <2>1, <2>2, <2>3, DiskSealed
<1>7. CASE GcUnlink(t)
  <2>1. /\ task[t].at = "gc_unlink" /\ file' = [file EXCEPT ![task[t].pack] = "none"]
        /\ lost' = lost /\ writer' = writer
    BY <1>7 DEF GcUnlink, At
  <2>2. task[t].pack \in PackIds /\ Above(task[t].pack)
    BY <1>0, <2>1, SourceFacts DEF Sources
  <2> QED BY <1>0, <1>w, <2>1, <2>2, DiskUnlinked
<1>8. CASE Fail(t)
  <2>1. writer' = writer /\ (NewPack \/ UNCHANGED <<file, lost>>)
    BY <1>0, <1>8, FailFacts
  <2> QED BY <1>0, <1>w, <2>1, DiskSame, DiskCreated
<1> QED BY <1>w, <1>1, <1>2, <1>3, <1>4, <1>5, <1>6, <1>7, <1>8 DEF CallStep, Put, Evict, Collect

(* Bytes behind the offset stay there until the writer gets another pack. *)
LEMMA DriftStep ==
  ASSUME StoreInv, NEW t \in Tasks, CallStep(t)
  PROVE  /\ writer' = writer => drift' = drift \/ drift' # "none"
         /\ writer' = writer /\ drift = "torn" => drift' = "torn"
<1> USE DEF disk, ghosts
<1>0. TypeOK /\ Spent(writer)
  BY DEF StoreInv, WriterInv
<1>1. CASE PutCreate(t) \/ ClearCreate(t)
  <2>1. NewPack /\ writer' = NextPackId
    BY <1>1 DEF PutCreate, ClearCreate
  <2>2. writer' # writer
    BY <1>0, <2>1, DiskCreated
  <2> QED BY <2>2
<1>2. CASE Fail(t)
  BY <1>0, <1>2, FailFacts
<1>3. CASE \/ Start(t) \/ Get(t) \/ PutLock(t) \/ GcNext(t) \/ GcSnapshot(t) \/ GcOpen(t)
  BY <1>3, QuietStep
<1>4. CASE \/ PutSeal(t) \/ PutWrite(t) \/ PutInsert(t) \/ ReviveLog(t) \/ ReviveUpdate(t)
           \/ TombstoneLog(t) \/ TombstoneUpdate(t) \/ ClearUpdate(t) \/ ClearLock(t)
           \/ (\E p \in PackIds : ClearLog(t, p))
  BY <1>4 DEF PutSeal, PutWrite, PutInsert, ReviveLog, ReviveUpdate, TombstoneLog, TombstoneUpdate,
              ClearUpdate, ClearLock, ClearLog
<1>5. CASE \/ GcAlloc(t) \/ GcCopy(t) \/ GcSeal(t) \/ GcSwap(t) \/ GcUnlink(t) \/ GcUnlinkLog(t)
  BY <1>5 DEF GcAlloc, GcCopy, GcSeal, GcSwap, GcUnlink, GcUnlinkLog
<1> QED BY <1>1, <1>2, <1>3, <1>4, <1>5 DEF CallStep, Put, Evict, Collect


---------------------------------------------------------------------------
(* SourceInv *)

LEMMA ListedFacts ==
  ASSUME NEW r \in Calling
  PROVE  ListedBy(r) \subseteq PackIds /\ LoggedBy(r) \subseteq Blobs \X PackIds
<1>1. ListedBy(r) \subseteq PackIds
  BY Shapes DEF ListedBy, Sources, CopySteps
<1>2. LoggedBy(r) \subseteq Blobs \X PackIds
  BY Shapes DEF LoggedBy, MarkSteps
<1> QED BY <1>1, <1>2

(* The steps that hold neither list. *)
LEMMA NoList ==
  ASSUME NEW r, r.at \notin Sources, r.at # "gc_next"
  PROVE  ListedBy(r) = {}
BY DEF ListedBy

LEMMA NoLog ==
  ASSUME NEW r, r.at \notin {"revive_log", "tomb_log", "clear_log"}
  PROVE  LoggedBy(r) = {}
BY DEF LoggedBy

LEMMA SourceKeep ==
  ASSUME TypeOK, WriterInv, NEW u \in Tasks, SourceAt(u), task'[u] = task[u],
         DiskKeeps, writer' \in {writer, NextPackId},
         writer' = NextPackId => NextPackId \in PackIds,
         writer' = writer /\ drift = "torn" => drift' = "torn"
  PROVE  SourceAt(u)'
<1> DEFINE r == task[u]
<1>1. r \in Calling /\ (r.at \in Sources => r.pack \in PackIds)
  BY SourceFacts DEF TypeOK
<1>2. ListedBy(r) \subseteq PackIds /\ LoggedBy(r) \subseteq Blobs \X PackIds
  BY <1>1, ListedFacts
<1>3. \A p \in ListedBy(r) : file'[p] # "open" /\ Spent(p)'
  BY <1>2 DEF SourceAt, DiskKeeps
<1>4. ASSUME r.at \in Sources \ {"gc_alloc"}
      PROVE  Above(r.pack)'  /\ (r.pack = writer' => drift' = "torn")
  <2>1. /\ r.pack \in PackIds /\ Above(r.pack) /\ Spent(r.pack)
        /\ r.pack = writer => drift = "torn"
    BY <1>1, <1>4 DEF SourceAt, Spent
  <2>2. NextPackId \in PackIds => r.pack # NextPackId
    BY <2>1, NextFacts DEF WriterInv
  <2> QED BY <1>4, <2>1, <2>2 DEF DiskKeeps
<1>5. ASSUME r.at = "gc_unlink_log" PROVE ~(Exists(r.pack)')
  <2>1. r.pack \in PackIds /\ ~Exists(r.pack) /\ Spent(r.pack)
    BY <1>1, <1>5 DEF SourceAt, Spent, Sources
  <2> QED BY <2>1 DEF DiskKeeps
<1>6. \A x \in LoggedBy(r) : x[1] \in lost' \/ Spent(x[2])'
  BY <1>2 DEF SourceAt, DiskKeeps
<1> QED BY <1>3, <1>4, <1>5, <1>6 DEF SourceAt


(* What a step of t adds to what it is about to log, unlink or fill: the   *)
(* places of rows, the sealed packs, and a destination of its own.         *)
Adds(t) ==
  /\ \A x \in LoggedBy(task'[t]) :
       x \in LoggedBy(task[t])
         \/ \E b \in Blobs : x = <<b, rows[b].pack>> /\ rows[b].state # "absent"
  /\ \A p \in ListedBy(task'[t]) :
       p \in ListedBy(task[t]) \/ (p \in PackIds /\ file[p] = "sealed")
  /\ task'[t].at \in Sources \ {"gc_alloc"} =>
       /\ task[t].at \in Sources /\ task'[t].pack = task[t].pack
       /\ task[t].at = "gc_alloc" => GcAlloc(t)
  /\ task'[t].at = "gc_unlink_log" => GcUnlink(t)
  /\ task'[t].at \in Targets => GcAlloc(t) \/ (task[t].at \in Targets /\ task'[t].dst = task[t].dst)

Plain(s) == s \notin Sources \cup {"gc_next", "revive_log", "tomb_log", "clear_log"}

LEMMA AddsPlain ==
  ASSUME NEW t \in Tasks, Plain(task'[t].at)
  PROVE  Adds(t)
<1>1. /\ task'[t].at \notin Sources /\ task'[t].at \notin Targets
      /\ task'[t].at \notin {"gc_next", "revive_log", "tomb_log", "clear_log"}
  BY DEF Plain, Targets, Copies, Sources
<1>2. ListedBy(task'[t]) = {} /\ LoggedBy(task'[t]) = {}
  BY <1>1, NoList, NoLog
<1> QED BY <1>1, <1>2 DEF Adds, Sources

LEMMA AddsRow ==
  ASSUME NEW t \in Tasks, NEW b \in Blobs, rows[b].state # "absent",
         NEW s \in {"revive_log", "tomb_log"},
         task'[t] = [at |-> s, blob |-> b, pack |-> rows[b].pack]
  PROVE  Adds(t)
<1>1. ListedBy(task'[t]) = {} /\ task'[t].at = s
  BY NoList DEF Sources
<1>2. LoggedBy(task'[t]) = {<<b, rows[b].pack>>}
  BY DEF LoggedBy
<1> QED BY <1>1, <1>2 DEF Adds, Sources, Targets, Copies

LEMMA AddsList ==
  ASSUME NEW t \in Tasks, NEW S,
         \A p \in S : p \in ListedBy(task[t]) \/ (p \in PackIds /\ file[p] = "sealed"),
         task'[t] = [at |-> "gc_next", todo |-> S]
  PROVE  Adds(t)
<1>1. ListedBy(task'[t]) = S /\ LoggedBy(task'[t]) = {} /\ task'[t].at = "gc_next"
  BY DEF ListedBy, LoggedBy
<1> QED BY <1>1 DEF Adds, Sources, Targets, Copies

LEMMA AddsCopy ==
  ASSUME TypeOK, NEW t \in Tasks, task[t].at \in CopySteps, NEW s \in CopySteps, Step(t, s),
         s = "gc_unlink_log" => GcUnlink(t),
         task[t].at \in {"gc_unlink", "gc_unlink_log"} => s \in {"gc_unlink", "gc_unlink_log"}
  PROVE  Adds(t)
<1>1. task'[t] = [at |-> s, todo |-> task[t].todo, pack |-> task[t].pack,
                  dst |-> task[t].dst, live |-> task[t].live, sound |-> task[t].sound]
  BY CopyStep
<1>2. ListedBy(task'[t]) = ListedBy(task[t]) /\ LoggedBy(task'[t]) = {} /\ task'[t].at = s
  BY <1>1 DEF ListedBy, LoggedBy, Sources, CopySteps
<1>3. task'[t].at \in Targets => task[t].at \in Targets /\ task'[t].dst = task[t].dst
  BY <1>1 DEF Targets, Copies, CopySteps
<1>4. task[t].at \in Sources \ {"gc_alloc"} /\ task'[t].pack = task[t].pack
  BY <1>1 DEF CopySteps, Sources
<1> QED BY <1>2, <1>3, <1>4 DEF Adds

LEMMA AddsStep ==
  ASSUME TypeOK, NEW t \in Tasks, CallStep(t)
  PROVE  Adds(t)
<1> USE DEF At, Call
<1>i. Return(t) => Adds(t)
  BY ReturnFacts, AddsPlain DEF Plain, Idle, Sources
<1>n. Goto(t, [at |-> "gc_next", todo |-> Sealed]) => Adds(t)
  <2>1. \A p \in Sealed : p \in PackIds /\ file[p] = "sealed"
    BY DEF Sealed
  <2> QED BY <2>1, GotoFacts, AddsList
<1>1. ASSUME NEW b \in Blobs, PutStart(t, b) PROVE Adds(t)
  <2>1. CASE Return(t)
    BY <1>i, <2>1
  <2>2. CASE rows[b].state = "dead"
              /\ Goto(t, [at |-> "revive_log", blob |-> b, pack |-> rows[b].pack])
    BY ZenonT(30), <2>2, GotoFacts, AddsRow
  <2>3. CASE Goto(t, [at |-> "put_lock", blob |-> b])
    BY <2>3, GotoFacts, AddsPlain DEF Plain, Sources
  <2> QED BY <1>1, <2>1, <2>2, <2>3, RowFacts DEF PutStart
<1>2. ASSUME NEW b \in Blobs, TombstoneStart(t, b) PROVE Adds(t)
  <2>1. task'[t] = [at |-> "tomb_log", blob |-> b, pack |-> rows[b].pack]
    BY <1>2, GotoFacts DEF TombstoneStart
  <2>2. rows[b].state # "absent"
    BY <1>2 DEF TombstoneStart
  <2> QED BY <2>1, <2>2, AddsRow
<1>3. ASSUME NEW b \in Blobs, GetStart(t, b) PROVE Adds(t)
  BY <1>3, GotoFacts, AddsPlain DEF Plain, Sources, GetStart
<1>4. CASE ClearStart(t)
  <2> DEFINE W == {<<b, rows[b].pack>> : b \in Live}
  <2>1. CASE Goto(t, [at |-> "clear_lock"])
    BY <2>1, GotoFacts, AddsPlain DEF Plain, Sources
  <2>2. CASE Goto(t, [at |-> "clear_log", todo |-> W])
    <3>1. task'[t] = [at |-> "clear_log", todo |-> W]
      BY <2>2, GotoFacts
    <3>2. ListedBy(task'[t]) = {} /\ LoggedBy(task'[t]) = W /\ task'[t].at = "clear_log"
      BY <3>1 DEF ListedBy, LoggedBy, Sources
    <3>3. \A x \in W : \E b \in Blobs : x = <<b, rows[b].pack>> /\ rows[b].state # "absent"
      BY DEF Live
    <3> QED BY <3>2, <3>3 DEF Adds, Sources, Targets, Copies
  <2> QED BY <1>4, <2>1, <2>2 DEF ClearStart
<1>5. CASE GcStart(t)
  BY <1>5, <1>n DEF GcStart
<1>6. CASE PutLock(t)
  <2>0. task[t].blob \in Blobs
    BY <1>6, Shapes DEF PutLock, PutSteps, TypeOK
  <2>1. CASE Return(t)
    BY <1>i, <2>1
  <2>2. CASE rows[task[t].blob].state = "dead"
             /\ Goto(t, [at |-> "revive_log", blob |-> task[t].blob,
                         pack |-> rows[task[t].blob].pack])
    BY ZenonT(30), <2>0, <2>2, GotoFacts, AddsRow
  <2>3. CASE \E rotate \in Rotates : Step(t, IF rotate THEN "put_seal" ELSE "put_write")
    <3>1. PICK s \in {"put_seal", "put_write"} : Step(t, s)
      BY <2>3
    <3>2. task[t].at \in PutSteps /\ s \in PutSteps
      BY <1>6 DEF PutLock, PutSteps
    <3>a. task'[t] = [at |-> s, blob |-> task[t].blob]
      BY <3>1, <3>2, PutStep, Zenon
    <3>3. task'[t].at = s
      BY <3>a
    <3> QED BY <3>3, AddsPlain DEF Plain, Sources
  <2> QED BY <1>6, <2>0, <2>1, <2>2, <2>3, RowFacts DEF PutLock
<1>7. CASE PutSeal(t) \/ PutCreate(t) \/ PutWrite(t)
  <2>1. PICK s \in {"put_create", "put_write", "put_insert"} : Step(t, s)
    BY <1>7 DEF PutSeal, PutCreate, PutWrite
  <2>2. task[t].at \in PutSteps /\ s \in PutSteps
    BY <1>7 DEF PutSeal, PutCreate, PutWrite, PutSteps
  <2>a. task'[t] = [at |-> s, blob |-> task[t].blob]
    BY <2>1, <2>2, PutStep, Zenon
  <2>3. task'[t].at = s
    BY <2>a
  <2> QED BY <2>3, AddsPlain DEF Plain, Sources
<1>8. CASE ReviveLog(t) \/ TombstoneLog(t)
  <2>1. PICK s \in {"revive_update", "tomb_update"} : Step(t, s)
    BY <1>8 DEF ReviveLog, TombstoneLog
  <2>2. task[t].at \in MarkSteps /\ s \in MarkSteps
    BY <1>8 DEF ReviveLog, TombstoneLog, MarkSteps
  <2>a. task'[t] = [at |-> s, blob |-> task[t].blob, pack |-> task[t].pack]
    BY <2>1, <2>2, MarkStep, Zenon
  <2>3. task'[t].at = s
    BY <2>a
  <2> QED BY <2>3, AddsPlain DEF Plain, Sources
<1>9. CASE PutInsert(t) \/ ReviveUpdate(t) \/ TombstoneUpdate(t)
  BY <1>i, <1>9 DEF PutInsert, ReviveUpdate, TombstoneUpdate
<1>10. ASSUME NEW p \in PackIds, ClearLog(t, p) PROVE Adds(t)
  <2> DEFINE W == {x \in task[t].todo : x[2] # p}
  <2>1. CASE Goto(t, [at |-> "clear_update"])
    BY <2>1, GotoFacts, AddsPlain DEF Plain, Sources
  <2>2. CASE Goto(t, [at |-> "clear_log", todo |-> W])
    <3>1. task'[t] = [at |-> "clear_log", todo |-> W]
      BY <2>2, GotoFacts
    <3>2. ListedBy(task'[t]) = {} /\ LoggedBy(task'[t]) = W /\ task'[t].at = "clear_log"
      BY <3>1 DEF ListedBy, LoggedBy, Sources
    <3>3. LoggedBy(task[t]) = task[t].todo
      BY <1>10 DEF ClearLog, LoggedBy
    <3> QED BY <3>2, <3>3 DEF Adds, Sources, Targets, Copies
  <2> QED BY <1>10, <2>1, <2>2 DEF ClearLog
<1>11. CASE ClearUpdate(t)
  BY <1>11, ClearStep, AddsPlain DEF ClearUpdate, ClearSteps, Plain, Sources
<1>12. CASE ClearLock(t)
  <2>1. CASE Step(t, "clear_create")
    BY <1>12, <2>1, ClearStep, AddsPlain DEF ClearLock, ClearSteps, Plain, Sources
  <2>2. CASE Goto(t, [at |-> "gc_next", todo |-> Sealed])
    BY <1>n, <2>2
  <2> QED BY <1>12, <2>1, <2>2 DEF ClearLock
<1>13. CASE ClearCreate(t)
  BY <1>13, <1>n DEF ClearCreate
<1>14. CASE GcNext(t)
  <2>1. task[t].todo \in SUBSET PackIds /\ ListedBy(task[t]) = task[t].todo
    BY <1>14, Shapes DEF GcNext, ListedBy, TypeOK
  <2>2. CASE task[t].todo = {}
    BY <1>i, <1>14, <2>2 DEF GcNext
  <2>3. CASE task[t].todo # {}
    <3> DEFINE p == Min(task[t].todo)
               S == task[t].todo \ {p}
    <3>1. p \in task[t].todo
      BY <2>1, <2>3, Ids, MinFacts
    <3> HIDE DEF p
    <3>2. \/ Goto(t, [at |-> "gc_next", todo |-> S])
          \/ Goto(t, [at |-> "gc_alloc", todo |-> S, pack |-> p])
      BY <1>14, <2>3 DEF GcNext, p
    <3>3. CASE Goto(t, [at |-> "gc_next", todo |-> S])
      BY <2>1, <3>3, GotoFacts, AddsList
    <3>4. CASE Goto(t, [at |-> "gc_alloc", todo |-> S, pack |-> p])
      <4>1. task'[t] = [at |-> "gc_alloc", todo |-> S, pack |-> p]
        BY <3>4, GotoFacts
      <4>2. /\ ListedBy(task'[t]) = S \cup {p} /\ LoggedBy(task'[t]) = {}
            /\ task'[t].at = "gc_alloc"
        BY <4>1 DEF ListedBy, LoggedBy, Sources
      <4> QED BY <2>1, <3>1, <4>2 DEF Adds, Sources, Targets, Copies
    <3> QED BY <3>2, <3>3, <3>4
  <2> QED BY <2>2, <2>3
<1>15. CASE GcAlloc(t)
  <2>1. task'[t] = [at |-> "gc_snapshot", todo |-> task[t].todo, pack |-> task[t].pack,
                    dst |-> NextPackId]
    BY <1>15, GotoFacts DEF GcAlloc
  <2>2. /\ ListedBy(task'[t]) = ListedBy(task[t]) /\ LoggedBy(task'[t]) = {}
        /\ task'[t].at = "gc_snapshot" /\ task[t].at = "gc_alloc"
        /\ task'[t].pack = task[t].pack
    BY <1>15, <2>1 DEF GcAlloc, ListedBy, LoggedBy, Sources
  <2> QED BY <1>15, <2>2 DEF Adds, Sources
<1>16. CASE GcSnapshot(t)
  <2> DEFINE p == task[t].pack
             L == RowsOf(p) \ DeadOf(p)
  <2>1. task'[t] = [at |-> "gc_open", todo |-> task[t].todo, pack |-> p,
                    dst |-> task[t].dst, live |-> L, sound |-> L \cap frames[p]]
    BY <1>16, GotoFacts DEF GcSnapshot
  <2> HIDE DEF L
  <2>2. /\ ListedBy(task'[t]) = ListedBy(task[t]) /\ LoggedBy(task'[t]) = {}
        /\ task'[t].at = "gc_open" /\ task[t].at = "gc_snapshot"
        /\ task'[t].pack = task[t].pack /\ task'[t].dst = task[t].dst
    BY <1>16, <2>1 DEF GcSnapshot, ListedBy, LoggedBy, Sources
  <2> QED BY <2>2 DEF Adds, Sources, Targets, Copies
<1>17. CASE GcOpen(t) \/ GcSeal(t) \/ GcSwap(t) \/ GcUnlink(t)
  <2>1. CASE Return(t)
    BY <1>i, <2>1
  <2>2. CASE GcUnlink(t)
    BY <2>2, AddsCopy DEF GcUnlink, CopySteps
  <2>3. CASE GcSwap(t)
    BY <2>3, AddsCopy DEF GcSwap, CopySteps
  <2>4. CASE GcSeal(t)
    BY <2>4, AddsCopy DEF GcSeal, CopySteps
  <2>5. CASE GcOpen(t)
    BY <2>1, <2>5, AddsCopy DEF GcOpen, CopySteps
  <2> QED BY <1>17, <2>2, <2>3, <2>4, <2>5
<1>18. CASE GcCopy(t)
  <2>1. CASE UNCHANGED task
    BY <1>18, <2>1 DEF GcCopy, Adds
  <2>2. CASE Step(t, "gc_seal")
    BY <1>18, <2>2, AddsCopy DEF GcCopy, CopySteps
  <2> QED BY <1>18, <1>i, <2>1, <2>2 DEF GcCopy
<1>19. CASE GcUnlinkLog(t)
  <2>1. ListedBy(task[t]) = task[t].todo \cup {task[t].pack}
    BY <1>19 DEF GcUnlinkLog, ListedBy, Sources
  <2> QED BY <1>19, <2>1, GotoFacts, AddsList DEF GcUnlinkLog
<1>20. CASE Get(t)
  <2>1. CASE Return(t)
    BY <1>i, <2>1
  <2>2. task'[t].at \in {"get_sealed", "get_row", "get_open"} => Adds(t)
    BY AddsPlain DEF Plain, Sources
  <2>3. ASSUME Step(t, "get_open"), task[t].at = "get_sealed" PROVE task'[t].at = "get_open"
    <3>1. task[t] = [at |-> task[t].at, blob |-> task[t].blob, tries |-> task[t].tries,
                     last |-> task[t].last, pack |-> task[t].pack]
      BY <2>3, Shapes DEF TypeOK
    <3>2. [task[t] EXCEPT !.at = "get_open"].at = "get_open"
      BY <3>1
    <3> QED BY <2>3, <3>2, StepFacts
  <2>4. CASE GetRow(t)
    BY <2>1, <2>2, <2>4, GotoFacts DEF GetRow
  <2>5. CASE GetSealed(t)
    BY <2>1, <2>2, <2>3, <2>5 DEF GetSealed, GetRead, GetFails
  <2>6. CASE GetOpen(t)
    <3>1. \/ Return(t)
          \/ Goto(t, [at |-> "get_row", blob |-> task[t].blob, tries |-> task[t].tries + 1,
                      last |-> task[t].pack])
      BY <2>6 DEF GetOpen, GetRead, GetFails
    <3> QED BY <2>1, <2>2, <3>1, GotoFacts
  <2> QED BY <1>20, <2>4, <2>5, <2>6 DEF Get
<1>21. CASE Fail(t)
  BY <1>i, <1>n, <1>21, FailFacts
<1> QED BY <1>1, <1>2, <1>3, <1>4, <1>5, <1>6, <1>7, <1>8, <1>9, <1>10, <1>11, <1>12, <1>13,
           <1>14, <1>15, <1>16, <1>17, <1>18, <1>19, <1>20, <1>21, Zenon
    DEF CallStep, Start, Put, Evict, Collect


(* Nobody but the holder of the writer mutex seals the writer's pack. *)
LEMMA FreeWriter ==
  ASSUME StoreInv, boot = "up", lock = NoTask
  PROVE  file[writer] = "open" \/ drift = "torn"
<1>1. \A t \in Tasks : task[t].at \notin {"put_create", "clear_create"}
  BY Ids DEF StoreInv, LockInv, Locked
<1> QED BY <1>1 DEF StoreInv, WriterInv

LEMMA SourceStep ==
  ASSUME StoreInv, TypeOK', NEW t \in Tasks, CallStep(t)
  PROVE  SourceInv'
<1>0. TypeOK /\ WriterInv /\ SourceInv /\ RowInv
  BY DEF StoreInv
<1>1. /\ DiskKeeps /\ writer' \in {writer, NextPackId}
      /\ writer' = NextPackId => NextPackId \in PackIds
      /\ writer' = writer /\ drift = "torn" => drift' = "torn"
  BY DiskStep, DriftStep
<1>2. boot = "up" /\ \A u \in Tasks \ {t} : task'[u] = task[u]
  BY <1>0, OthersStay
<1>3. ASSUME NEW u \in Tasks, u # t PROVE SourceAt(u)'
  BY <1>0, <1>1, <1>2, <1>3, SourceKeep DEF SourceInv
<1>4. Adds(t) /\ SourceAt(t)
  BY <1>0, AddsStep DEF SourceInv
<1>5. ASSUME NEW p \in ListedBy(task'[t]) PROVE file'[p] # "open" /\ Spent(p)'
  <2>1. p \in PackIds
    BY ListedFacts DEF TypeOK
  <2>2. file[p] # "open" /\ Spent(p)
    BY <1>4, <1>5 DEF Adds, SourceAt, Spent, Exists
  <2> QED BY <1>1, <2>1, <2>2 DEF DiskKeeps
<1>6. ASSUME task'[t].at \in Sources \ {"gc_alloc"}
      PROVE  /\ Above(task[t].pack)' /\ task'[t].pack = task[t].pack
             /\ task[t].pack = writer' => drift' = "torn"
  <2>1. /\ task[t].at \in Sources /\ task'[t].pack = task[t].pack
        /\ task[t].at = "gc_alloc" => GcAlloc(t)
    BY <1>4, <1>6 DEF Adds
  <2> DEFINE p == task[t].pack
  <2>2. p \in PackIds /\ file[p] # "open" /\ Spent(p)
    BY <1>0, <1>4, <2>1, SourceFacts
  <2>3. PICK q \in PackIds : q = p
    BY <2>2
  <2>4. CASE task[t].at = "gc_alloc"
    <3>1. NewPack /\ lock = NoTask /\ writer' = writer
      BY <2>1, <2>4 DEF GcAlloc
    <3>2. \A e \in PackIds : Spent(e) => Above(e)'
      BY <1>0, <3>1, DiskCreated DEF WriterInv
    <3>3. p = writer => drift' = "torn"
      BY <1>1, <1>2, <2>2, <3>1, FreeWriter
    <3>4. Above(q)'
      BY <2>2, <2>3, <3>2
    <3>5. task'[t].pack = q
      BY <2>1, <2>3
    <3> QED BY <2>1, <2>3, <3>1, <3>3, <3>4, <3>5 DEF Above
  <2>5. CASE task[t].at # "gc_alloc"
    <3>1. Above(q) /\ Spent(q) /\ (q = writer => drift = "torn")
      BY <1>0, <1>4, <2>1, <2>2, <2>3, <2>5, SourceFacts
    <3>2. Above(q)'
      BY <1>1, <3>1 DEF DiskKeeps
    <3>3. NextPackId \in PackIds => q # NextPackId
      BY <1>0, <3>1, NextFacts DEF WriterInv
    <3> QED BY <1>1, <2>1, <2>3, <3>1, <3>2, <3>3 DEF Above
  <2> QED BY <2>4, <2>5
<1>7. ASSUME task'[t].at = "gc_unlink_log" PROVE ~(Exists(task[t].pack)')
  <2>1. GcUnlink(t) /\ task'[t].pack = task[t].pack
    BY <1>4, <1>6, <1>7 DEF Adds, Sources
  <2>2. task[t].pack \in PackIds /\ file' = [file EXCEPT ![task[t].pack] = "none"]
    BY <1>0, <1>4, <2>1, SourceFacts DEF GcUnlink, At, Sources
  <2>3. file'[task'[t].pack] = "none"
    BY <1>0, <2>1, <2>2 DEF TypeOK
  <2> QED BY <2>3 DEF Exists
<1>8. ASSUME NEW x \in LoggedBy(task'[t]) PROVE x[1] \in lost' \/ Spent(x[2])'
  <2>1. x \in Blobs \X PackIds
    BY ListedFacts DEF TypeOK
  <2>2. x[1] \in lost \/ Spent(x[2])
    BY <1>0, <1>4, <1>8 DEF Adds, SourceAt, RowInv, Backed, Spent
  <2> QED BY <1>1, <2>1, <2>2 DEF DiskKeeps
<1>9. SourceAt(t)'
  <2>1. task'[t].at \in Sources \ {"gc_alloc"} =>
          Above(task[t].pack)' /\ (task'[t].pack = writer' => drift' = "torn")
    BY <1>6
  <2> QED BY <1>5, <1>7, <1>8, <2>1 DEF SourceAt
<1> QED BY <1>3, <1>9 DEF SourceInv


---------------------------------------------------------------------------
(* TargetInv *)

LEMMA TargetFacts ==
  ASSUME StoreInv, NEW u \in Tasks, task[u].at \in Targets
  PROVE  /\ task[u].dst \in PackIds
         /\ task[u].at \in Copies <=> file[task[u].dst] = "open"
         /\ task[u].dst # writer /\ Spent(task[u].dst) /\ RowsOf(task[u].dst) \subseteq lost
         /\ \A b \in Blobs \ lost : log[task[u].dst][b] = "none"
         /\ task[u].at \in {"gc_seal", "gc_swap"} /\ Exists(task[u].dst) =>
              task[u].sound \subseteq frames[task[u].dst]
         /\ \A v \in Tasks : task[v].at \in Targets /\ task[v].dst = task[u].dst => v = u
         /\ \A v \in Tasks : \A x \in LoggedBy(task[v]) : x[1] \in lost \/ x[2] # task[u].dst
<1>1. task[u].dst \in PackIds
  BY SourceFacts DEF StoreInv, SourceInv, Targets, Copies, Sources
<1>2. TargetAt(u) /\ \A v \in Tasks : Apart(u, v)
  BY DEF StoreInv, TargetInv
<1> QED BY <1>1, <1>2 DEF TargetAt, Apart

(* What a step of t does to a pack d that only another call fills. *)
LEMMA OwnStays ==
  ASSUME StoreInv, NEW t \in Tasks, CallStep(t), NEW u \in Tasks, u # t,
         task[u].at \in Targets, NEW d \in PackIds, d = task[u].dst
  PROVE  /\ file'[d] = "open" <=> file[d] = "open"
         /\ d # writer' /\ RowsOf(d)' \subseteq lost'
         /\ \A b \in Blobs \ lost' : log'[d][b] = "none"
         /\ Exists(d)' => Exists(d) /\ frames[d] \subseteq frames'[d]
<1> USE DEF disk, ghosts, At
<1>0. TypeOK /\ Spent(writer) /\ SourceAt(t)
  BY DEF StoreInv, WriterInv, SourceInv
<1>d. /\ task[u].at \in Copies <=> file[d] = "open"
      /\ d # writer /\ Spent(d) /\ RowsOf(d) \subseteq lost
      /\ \A b \in Blobs \ lost : log[d][b] = "none"
      /\ task[t].at \in Targets => task[t].dst # d
      /\ \A x \in LoggedBy(task[t]) : x[1] \in lost \/ x[2] # d
  BY TargetFacts
<1>1. CASE \/ Start(t) \/ Get(t) \/ PutLock(t) \/ GcNext(t) \/ GcSnapshot(t) \/ GcOpen(t)
  BY <1>1, <1>d, QuietStep DEF RowsOf, Exists
<1>2. CASE PutSeal(t) \/ ClearLock(t)
  <2>1. UNCHANGED <<frames, log, rows, writer, lost>>
    BY <1>2 DEF PutSeal, ClearLock
  <2>2. file'[d] = file[d]
    BY <1>0, <1>2, <1>d DEF PutSeal, ClearLock, Seal, TypeOK
  <2> QED BY <1>d, <2>1, <2>2 DEF RowsOf, Exists
<1>3. CASE PutCreate(t) \/ ClearCreate(t) \/ GcAlloc(t)
  <2>1. NewPack /\ UNCHANGED <<log, rows>> /\ writer' \in {writer, NextPackId}
    BY <1>3 DEF PutCreate, ClearCreate, GcAlloc
  <2>2. d # NextPackId /\ lost \subseteq lost' /\ NextPackId \in PackIds
        /\ (\A p \in PackIds \ {NextPackId} : file'[p] = file[p] /\ frames'[p] = frames[p])
    BY <1>0, <1>d, <2>1, DiskCreated DEF DiskKeeps
  <2>3. file'[d] = file[d] /\ frames'[d] = frames[d]
    BY <2>2
  <2> QED BY <1>d, <2>1, <2>2, <2>3 DEF RowsOf, Exists
<1>4. CASE PutWrite(t)
  <2>1. UNCHANGED <<file, log, rows, writer, lost>> /\ frames'[d] = frames[d]
    BY <1>0, <1>4, <1>d DEF PutWrite, TypeOK
  <2> QED BY <1>d, <2>1 DEF RowsOf, Exists
<1>5. CASE PutInsert(t) \/ ReviveUpdate(t) \/ TombstoneUpdate(t) \/ ClearUpdate(t)
  <2>1. UNCHANGED <<file, frames, log, writer>> /\ lost \subseteq lost'
    BY <1>5 DEF PutInsert, ReviveUpdate, TombstoneUpdate, ClearUpdate
  <2>2. \A b \in Blobs : rows'[b].state # "absent" /\ rows'[b].pack = d =>
                           rows[b].state # "absent" /\ rows[b].pack = d
    <3>1. CASE PutInsert(t)
      BY <1>0, <1>d, <3>1 DEF PutInsert, TypeOK, Row
    <3>2. CASE ReviveUpdate(t)
      BY <1>0, <3>2 DEF ReviveUpdate, TypeOK
    <3>3. CASE TombstoneUpdate(t)
      BY <1>0, <3>3 DEF TombstoneUpdate, TypeOK
    <3>4. CASE ClearUpdate(t)
      BY <1>0, <3>4 DEF ClearUpdate, TypeOK, Row, Live
    <3> QED BY <1>5, <3>1, <3>2, <3>3, <3>4
  <2>3. RowsOf(d)' \subseteq RowsOf(d)
    BY <2>2 DEF RowsOf
  <2> QED BY <1>d, <2>1, <2>3 DEF Exists
<1>6. CASE ReviveLog(t) \/ TombstoneLog(t)
  <2>1. UNCHANGED <<file, frames, rows, writer, lost>>
    BY <1>6 DEF ReviveLog, TombstoneLog
  <2>2. PICK w : log' = [log EXCEPT ![task[t].pack][task[t].blob] = w]
    BY <1>6 DEF ReviveLog, TombstoneLog
  <2>3. <<task[t].blob, task[t].pack>> \in LoggedBy(task[t])
    BY <1>6 DEF ReviveLog, TombstoneLog, LoggedBy
  <2>4. task[t].pack \in PackIds /\ task[t].blob \in Blobs
    BY <1>0, <1>6, Shapes DEF ReviveLog, TombstoneLog, MarkSteps, TypeOK
  <2>5. task[t].blob \in lost \/ task[t].pack # d
    BY <1>d, <2>3
  <2>6. \A b \in Blobs \ lost : log'[d][b] = log[d][b]
    BY <1>0, <2>2, <2>4, <2>5 DEF TypeOK
  <2> QED BY <1>d, <2>1, <2>6 DEF RowsOf, Exists
<1>7. ASSUME NEW p \in PackIds, ClearLog(t, p)
      PROVE  /\ UNCHANGED <<file, frames, rows, writer, lost>>
             /\ \A b \in Blobs \ lost : log'[d][b] = log[d][b]
  <2>1. UNCHANGED <<file, frames, rows, writer, lost>>
    BY <1>7 DEF ClearLog
  <2>2. CASE p # d
    BY <1>0, <1>7, <2>1, <2>2 DEF ClearLog, TypeOK
  <2>3. CASE p = d
    <3>1. ASSUME NEW b \in Blobs \ lost PROVE <<b, p>> \notin task[t].todo
      BY <1>7, <1>d, <2>3, <3>1 DEF ClearLog, LoggedBy
    <3>2. log' = [log EXCEPT ![p] = [b \in Blobs |-> IF <<b, p>> \in task[t].todo
                                                     THEN "tombstone" ELSE @[b]]]
      BY <1>7 DEF ClearLog
    <3>3. \A b \in Blobs : log'[p][b] = IF <<b, p>> \in task[t].todo
                                        THEN "tombstone" ELSE log[p][b]
      BY <1>0, <3>2 DEF TypeOK
    <3> QED BY <2>1, <2>3, <3>1, <3>3
  <2> QED BY <2>2, <2>3
<1>8. CASE GcCopy(t)
  <2>1. UNCHANGED <<file, log, rows, writer, lost>>
    BY <1>8 DEF GcCopy
  <2>2. task[t].dst # d
    BY <1>8, <1>d DEF GcCopy, Targets, Copies
  <2>3. frames'[d] = frames[d]
    BY <1>0, <1>8, <2>2 DEF GcCopy, TypeOK
  <2> QED BY <1>d, <2>1, <2>3 DEF RowsOf, Exists
<1>9. CASE GcSeal(t)
  <2>1. UNCHANGED <<frames, log, rows, writer, lost>>
    BY <1>9 DEF GcSeal
  <2>2. task[t].dst # d
    BY <1>9, <1>d DEF GcSeal, Targets, Copies
  <2>3. file'[d] = file[d]
    BY <1>0, <1>9, <2>2 DEF GcSeal, TypeOK
  <2> QED BY <1>d, <2>1, <2>3 DEF RowsOf, Exists
<1>10. CASE GcSwap(t)
  <2>1. UNCHANGED <<file, frames, log, writer>> /\ lost \subseteq lost'
    BY <1>10 DEF GcSwap
  <2>2. task[t].dst # d
    BY <1>10, <1>d DEF GcSwap, Targets
  <2>3. \A b \in Blobs : \/ rows'[b] = Row(task[t].dst, rows[b].state)
                         \/ rows'[b] = NoRow \/ rows'[b] = rows[b]
    BY <1>10 DEF GcSwap
  <2>4. ASSUME NEW b \in Blobs, rows'[b].state # "absent", rows'[b].pack = d
        PROVE  rows[b].state # "absent" /\ rows[b].pack = d
    <3>1. CASE rows'[b] = Row(task[t].dst, rows[b].state)
      <4>1. rows'[b].pack = task[t].dst
        BY <3>1 DEF Row
      <4> QED BY <2>2, <2>4, <4>1
    <3>2. CASE rows'[b] = NoRow
      <4>1. rows'[b].state = "absent"
        BY <3>2 DEF NoRow
      <4> QED BY <2>4, <4>1
    <3>3. CASE rows'[b] = rows[b]
      BY <2>4, <3>3
    <3> QED BY <2>3, <3>1, <3>2, <3>3
  <2>5. RowsOf(d)' \subseteq RowsOf(d)
    BY <2>4 DEF RowsOf
  <2> QED BY <1>d, <2>1, <2>5 DEF Exists
<1>11. CASE GcUnlink(t)
  <2>1. UNCHANGED <<log, rows, writer, lost>>
    BY <1>11 DEF GcUnlink
  <2>2. task[t].pack \in PackIds /\ file[task[t].pack] # "open"
    BY <1>0, <1>11, SourceFacts DEF GcUnlink, Sources
  <2>3. /\ file' = [file EXCEPT ![task[t].pack] = "none"]
        /\ frames' = [frames EXCEPT ![task[t].pack] = {}]
    BY <1>11 DEF GcUnlink
  <2>4. CASE task[t].pack = d
    <3>1. file'[d] = "none" /\ file[d] # "open"
      BY <1>0, <2>2, <2>3, <2>4 DEF TypeOK
    <3> QED BY <1>d, <2>1, <3>1 DEF RowsOf, Exists
  <2>5. CASE task[t].pack # d
    <3>1. file'[d] = file[d] /\ frames'[d] = frames[d]
      BY <1>0, <2>2, <2>3, <2>5 DEF TypeOK
    <3> QED BY <1>d, <2>1, <3>1 DEF RowsOf, Exists
  <2> QED BY <2>4, <2>5
<1>12. CASE GcUnlinkLog(t)
  <2>1. UNCHANGED <<file, frames, rows, writer, lost>>
    BY <1>12 DEF GcUnlinkLog
  <2>2. \A b \in Blobs \ lost : log'[d][b] = "none"
    BY <1>0, <1>12, <1>d DEF GcUnlinkLog, EmptyLog, TypeOK
  <2> QED BY <1>d, <2>1, <2>2 DEF RowsOf, Exists
<1>13. ASSUME NEW p \in PackIds, ClearLog(t, p)
       PROVE  /\ file'[d] = "open" <=> file[d] = "open"
              /\ d # writer' /\ RowsOf(d)' \subseteq lost'
              /\ \A b \in Blobs \ lost' : log'[d][b] = "none"
              /\ Exists(d)' => Exists(d) /\ frames[d] \subseteq frames'[d]
  BY <1>7, <1>13, <1>d DEF RowsOf, Exists
<1>14. CASE Fail(t)
  <2>1. UNCHANGED <<log, rows, writer>> /\ lost \subseteq lost'
    BY <1>0, <1>14, FailFacts DEF NewPack
  <2>2. file'[d] = file[d] /\ frames'[d] = frames[d]
    <3>1. CASE NewPack
      <4>1. d # NextPackId /\ NextPackId \in PackIds
            /\ (\A p \in PackIds \ {NextPackId} : file'[p] = file[p] /\ frames'[p] = frames[p])
        BY <1>0, <1>d, <3>1, DiskCreated
      <4> QED BY <4>1
    <3>2. CASE ~NewPack
      BY <1>0, <1>14, <1>d, <3>2, FailFacts DEF TypeOK
    <3> QED BY <3>1, <3>2
  <2> QED BY <1>d, <2>1, <2>2 DEF RowsOf, Exists
<1> QED BY <1>1, <1>2, <1>3, <1>4, <1>5, <1>6, <1>8, <1>9, <1>10, <1>11, <1>12, <1>13, <1>14
    DEF CallStep, Put, Evict, Collect


(* The step of t itself. *)
LEMMA OwnMoves ==
  ASSUME StoreInv, NEW t \in Tasks, CallStep(t), task'[t].at \in Targets,
         NEW d \in PackIds, d = task'[t].dst
  PROVE  /\ task'[t].at \in Copies <=> file'[d] = "open"
         /\ d # writer' /\ Spent(d)' /\ RowsOf(d)' \subseteq lost'
         /\ \A b \in Blobs \ lost' : log'[d][b] = "none"
         /\ task'[t].at \in {"gc_seal", "gc_swap"} /\ Exists(d)' => task'[t].sound \subseteq frames'[d]
<1> USE DEF disk, ghosts, At
<1>0. TypeOK /\ Spent(writer) /\ SourceAt(t) /\ RowInv /\ DiskKeeps /\ Adds(t)
  BY DiskStep, AddsStep DEF StoreInv, WriterInv, SourceInv
<1>1. CASE GcAlloc(t)
  <2>1. task'[t] = [at |-> "gc_snapshot", todo |-> task[t].todo, pack |-> task[t].pack,
                    dst |-> NextPackId]
    BY <1>0, <1>1, GotoFacts DEF GcAlloc
  <2>2. d = NextPackId /\ task'[t].at = "gc_snapshot"
    BY <2>1
  <2>3. NewPack /\ UNCHANGED <<log, rows, writer>>
    BY <1>1 DEF GcAlloc
  <2>4. file'[d] = "open" /\ d # writer /\ (\A p \in PackIds : Spent(p) => p # d)
    BY <1>0, <2>2, <2>3, DiskCreated
  <2>5. Spent(d)'
    BY <2>4 DEF Spent, Exists
  <2>6. RowsOf(d) \subseteq lost
    BY <1>0, <2>4 DEF RowInv, RowsOf, Backed, Spent
  <2>7. RowsOf(d)' \subseteq lost'
    BY <1>0, <2>3, <2>6 DEF RowsOf, DiskKeeps
  <2>8. \A b \in Blobs \ lost' : log'[d][b] = "none"
    BY <2>2, <2>3 DEF NewPack
  <2> QED BY <2>2, <2>3, <2>4, <2>5, <2>7, <2>8 DEF Copies
<1>2. CASE ~GcAlloc(t)
  <2>1. task[t].at \in Targets /\ task[t].dst = d
    BY <1>0, <1>2 DEF Adds
  <2>2. /\ task[t].at \in Copies <=> file[d] = "open"
        /\ d # writer /\ Spent(d) /\ RowsOf(d) \subseteq lost
        /\ \A b \in Blobs \ lost : log[d][b] = "none"
        /\ task[t].at \in {"gc_seal", "gc_swap"} /\ Exists(d) => task[t].sound \subseteq frames[d]
    BY <2>1, TargetFacts
  <2>3. Spent(d)'
    BY <1>0, <2>2 DEF DiskKeeps
  <2>i. ~Return(t)
    BY <1>0, ReturnFacts DEF Idle, Targets, Copies
  <2>4. CASE GcSnapshot(t)
    <3>1. UNCHANGED <<file, frames, log, rows, writer, lost>> /\ task[t].at = "gc_snapshot"
      BY <2>4 DEF GcSnapshot
    <3>2. task'[t].at = "gc_open"
      BY <1>0, <2>4, GotoFacts DEF GcSnapshot
    <3> QED BY <2>2, <2>3, <3>1, <3>2 DEF RowsOf, Copies
  <2>5. CASE GcOpen(t)
    <3>1. UNCHANGED <<file, frames, log, rows, writer, lost>> /\ task[t].at = "gc_open"
      BY <2>5 DEF GcOpen
    <3>3. Step(t, "gc_copy")
      BY <2>5, <2>i DEF GcOpen
    <3>4. task'[t].at = "gc_copy"
      BY <1>0, <3>1, <3>3, CopyFields DEF CopySteps
    <3> QED BY <2>2, <2>3, <3>1, <3>4 DEF RowsOf, Copies
  <2>6. CASE GcCopy(t)
    <3>1. UNCHANGED <<file, log, rows, writer, lost>> /\ task[t].at = "gc_copy"
      BY <2>6 DEF GcCopy
    <3>2. CASE UNCHANGED task
      BY <2>2, <2>3, <3>1, <3>2 DEF RowsOf, Copies
    <3>3. CASE Step(t, "gc_seal") /\ UNCHANGED frames /\ task[t].sound \ frames[d] = {}
      <4>1. task'[t].at = "gc_seal" /\ task'[t].sound = task[t].sound
        BY <1>0, <3>1, <3>3, CopyFields DEF CopySteps
      <4> QED BY <2>2, <2>3, <3>1, <3>3, <4>1 DEF RowsOf, Copies
    <3> QED BY <2>1, <2>6, <2>i, <3>2, <3>3 DEF GcCopy
  <2>7. CASE GcSeal(t)
    <3>1. UNCHANGED <<frames, log, rows, writer, lost>> /\ task[t].at = "gc_seal"
      BY <2>7 DEF GcSeal
    <3>2. task'[t].at = "gc_swap" /\ task'[t].sound = task[t].sound
      BY <1>0, <2>7, CopyFields DEF GcSeal, CopySteps
    <3>3. file'[d] = "sealed" /\ Exists(d)
      BY <1>0, <2>1, <2>2, <2>7, <3>1 DEF GcSeal, TypeOK, Copies, Exists
    <3> QED BY <2>2, <2>3, <3>1, <3>2, <3>3 DEF RowsOf, Copies
  <2>8. CASE GcSwap(t)
    <3>1. task'[t].at = "gc_unlink"
      BY <1>0, <2>8, CopyFields DEF GcSwap, CopySteps
    <3> QED BY <3>1 DEF Targets, Copies
  <2>9. task[t].at \in {"gc_snapshot", "gc_open", "gc_copy", "gc_seal", "gc_swap"}
    BY <2>1 DEF Targets, Copies
  <2>10. \/ GcSnapshot(t) \/ GcOpen(t) \/ GcCopy(t) \/ GcSeal(t) \/ GcSwap(t)
    <3>1. ~Start(t)
      BY <2>9 DEF Start, PutStart, TombstoneStart, GetStart, ClearStart, GcStart, Call
    <3>2. ~Put(t)
      BY <2>9 DEF Put, PutLock, PutSeal, PutCreate, PutWrite, PutInsert, ReviveLog, ReviveUpdate
    <3>3. ~Evict(t)
      BY <2>9 DEF Evict, TombstoneLog, TombstoneUpdate, ClearLog, ClearUpdate, ClearLock, ClearCreate
    <3>4. ~Get(t)
      BY <2>9 DEF Get, GetRow, GetSealed, GetOpen
    <3>5. ~(GcNext(t) \/ GcAlloc(t) \/ GcUnlink(t) \/ GcUnlinkLog(t))
      BY <2>9 DEF GcNext, GcAlloc, GcUnlink, GcUnlinkLog
    <3>6. ~Fail(t)
      <4>1. ~Goto(t, [at |-> "gc_next", todo |-> Sealed])
        BY <1>0, GotoFacts DEF Targets, Copies
      <4> QED BY <1>0, <2>i, <4>1, FailFacts
    <3> QED BY <3>1, <3>2, <3>3, <3>4, <3>5, <3>6 DEF CallStep, Collect
  <2> QED BY <2>4, <2>5, <2>6, <2>7, <2>8, <2>10
<1> QED BY <1>1, <1>2

LEMMA TargetStep ==
  ASSUME StoreInv, TypeOK', NEW t \in Tasks, CallStep(t)
  PROVE  TargetInv'
<1>0. /\ TypeOK /\ RowInv /\ DiskKeeps /\ Adds(t) /\ Spent(writer)
      /\ \A u \in Tasks \ {t} : task'[u] = task[u]
  BY DiskStep, AddsStep, OthersStay DEF StoreInv, WriterInv
<1>1. ASSUME NEW u \in Tasks, task'[u].at \in Targets PROVE task'[u].dst \in PackIds
  BY <1>1, Shapes DEF TypeOK, Targets, Copies, CopySteps
<1>2. ASSUME NEW u \in Tasks PROVE TargetAt(u)'
  <2>0. SUFFICES ASSUME task'[u].at \in Targets PROVE TargetAt(u)'
    BY DEF TargetAt
  <2>1. PICK d \in PackIds : d = task'[u].dst
    BY <1>1, <2>0
  <2>2. CASE u = t
    <3>1. /\ task'[t].at \in Copies <=> file'[d] = "open"
          /\ d # writer' /\ Spent(d)' /\ RowsOf(d)' \subseteq lost'
          /\ \A b \in Blobs \ lost' : log'[d][b] = "none"
          /\ task'[t].at \in {"gc_seal", "gc_swap"} /\ Exists(d)' =>
               task'[t].sound \subseteq frames'[d]
      BY <2>0, <2>1, <2>2, OwnMoves
    <3> QED BY <2>1, <2>2, <3>1 DEF TargetAt, Spent, Above, RowsOf, Exists
  <2>3. CASE u # t
    <3>1. task[u] = task'[u]
      BY <1>0, <2>3
    <3>2. /\ task[u].at \in Copies <=> file[d] = "open"
          /\ Spent(d)
          /\ task[u].at \in {"gc_seal", "gc_swap"} /\ Exists(d) => task[u].sound \subseteq frames[d]
      BY <2>0, <2>1, <3>1, TargetFacts
    <3>3. /\ file'[d] = "open" <=> file[d] = "open"
          /\ d # writer' /\ RowsOf(d)' \subseteq lost'
          /\ \A b \in Blobs \ lost' : log'[d][b] = "none"
          /\ Exists(d)' => Exists(d) /\ frames[d] \subseteq frames'[d]
      BY <2>0, <2>1, <2>3, <3>1, OwnStays
    <3>4. Spent(d)'
      BY <1>0, <3>2 DEF DiskKeeps
    <3> QED BY <2>1, <3>1, <3>2, <3>3, <3>4 DEF TargetAt, Spent, Above, RowsOf, Exists
  <2> QED BY <2>2, <2>3
<1>3. ASSUME NEW u \in Tasks, NEW v \in Tasks PROVE Apart(u, v)'
  <2>0. SUFFICES ASSUME task'[u].at \in Targets PROVE Apart(u, v)'
    BY DEF Apart
  <2>1. PICK d \in PackIds : d = task'[u].dst
    BY <1>1, <2>0
  <2>2. \/ task[u].at \in Targets /\ task[u].dst = d
        \/ u = t /\ GcAlloc(t) /\ d = NextPackId
    BY <1>0, <2>0, <2>1, GotoFacts DEF Adds, GcAlloc
  <2>3. CASE task[u].at \in Targets /\ task[u].dst = d
    <3>1. /\ d # NextPackId \/ NextPackId \notin PackIds
          /\ RowsOf(d) \subseteq lost
          /\ task[v].at \in Targets /\ task[v].dst = d => v = u
          /\ \A x \in LoggedBy(task[v]) : x[1] \in lost \/ x[2] # d
      BY <1>0, <2>3, TargetFacts, NextFacts
    <3>2. ASSUME task'[v].at \in Targets, task'[v].dst = d PROVE v = u
      <4>1. \/ task[v].at \in Targets /\ task[v].dst = d
            \/ v = t /\ GcAlloc(t) /\ d = NextPackId
        BY <1>0, <3>2, GotoFacts DEF Adds, GcAlloc
      <4>2. GcAlloc(t) => NextPackId \in PackIds
        BY DEF GcAlloc, NewPack
      <4> QED BY <3>1, <4>1, <4>2
    <3>3. ASSUME NEW x \in LoggedBy(task'[v]) PROVE x[1] \in lost' \/ x[2] # d
      <4>1. \/ x \in LoggedBy(task[v])
            \/ \E b \in Blobs : x = <<b, rows[b].pack>> /\ rows[b].state # "absent"
        BY <1>0, <3>3 DEF Adds
      <4>2. x[1] \in lost \/ x[2] # d
        BY <3>1, <4>1 DEF RowsOf
      <4> QED BY <1>0, <4>2 DEF DiskKeeps
    <3> QED BY <2>1, <3>2, <3>3 DEF Apart
  <2>4. CASE u = t /\ GcAlloc(t) /\ d = NextPackId
    <3>1. \A p \in PackIds : Spent(p) => p # d
      BY <1>0, <2>4, DiskCreated DEF GcAlloc
    <3>2. ASSUME task'[v].at \in Targets, task'[v].dst = d, v # u PROVE FALSE
      <4>1. task[v].at \in Targets /\ task[v].dst = d
        BY <1>0, <2>4, <3>2
      <4> QED BY <3>1, <4>1, TargetFacts
    <3>3. ASSUME NEW x \in LoggedBy(task'[v]) PROVE x[1] \in lost' \/ x[2] # d
      <4>1. \/ x \in LoggedBy(task[v])
            \/ \E b \in Blobs : x = <<b, rows[b].pack>> /\ rows[b].state # "absent"
        BY <1>0, <3>3 DEF Adds
      <4>2. CASE x \in LoggedBy(task[v])
        <5>1. x \in Blobs \X PackIds
          BY <1>0, <4>2, ListedFacts DEF TypeOK
        <5>2. x[1] \in lost \/ Spent(x[2])
          BY <4>2 DEF StoreInv, SourceInv, SourceAt
        <5> QED BY <1>0, <3>1, <5>1, <5>2 DEF DiskKeeps
      <4>3. CASE \E b \in Blobs : x = <<b, rows[b].pack>> /\ rows[b].state # "absent"
        <5>1. PICK b \in Blobs : x = <<b, rows[b].pack>> /\ rows[b].state # "absent"
          BY <4>3
        <5>2. b \in lost \/ Spent(rows[b].pack)
          BY <1>0, <5>1 DEF RowInv, Backed, Spent
        <5>3. rows[b].pack \in PackIds
          BY <1>0, RowFacts
        <5> QED BY <1>0, <3>1, <5>1, <5>2, <5>3 DEF DiskKeeps
      <4> QED BY <4>1, <4>2, <4>3
    <3> QED BY <2>1, <3>2, <3>3 DEF Apart
  <2> QED BY <2>2, <2>3, <2>4
<1> QED BY <1>2, <1>3 DEF TargetInv


---------------------------------------------------------------------------
(* SnapshotInv *)

LEMMA SnapshotKeep ==
  ASSUME NEW u \in Tasks, SnapshotAt(u), task'[u] = task[u], NEW p, p = task[u].pack,
         lost \subseteq lost',
         \A b \in Blobs : rows'[b].state # "absent" /\ rows'[b].pack = p =>
           \/ b \in lost'
           \/ /\ rows[b].state # "absent" /\ rows[b].pack = p
              /\ rows[b].state = "dead" => rows'[b].state = "dead"
  PROVE  SnapshotAt(u)'
BY DEF SnapshotAt, RowsOf

(* Rows that enter the source of a compaction, or come back to life in it, *)
(* are lost.                                                               *)
LEMMA SnapshotOther ==
  ASSUME StoreInv, NEW t \in Tasks, CallStep(t), NEW u \in Tasks, u # t
  PROVE  SnapshotAt(u)'
<1> USE DEF disk, ghosts, At
<1>0. /\ TypeOK /\ SnapshotAt(u) /\ SourceAt(u) /\ SourceAt(t) /\ task'[u] = task[u]
      /\ lost \subseteq lost'
  BY OthersStay, DiskStep DEF StoreInv, SnapshotInv, SourceInv, DiskKeeps
<1>1. CASE task[u].at \notin CopySteps
  BY <1>0, <1>1 DEF SnapshotAt, CopySteps
<1>2. CASE task[u].at \in CopySteps
  <2>1. PICK p \in PackIds : p = task[u].pack
    BY <1>0, <1>2, SourceFacts DEF CopySteps, Sources
  <2>2. /\ p = writer => drift = "torn"
        /\ task[u].at = "gc_unlink_log" => ~Exists(p) /\ RowsOf(p) \subseteq lost
    BY <1>0, <1>2, <2>1 DEF SourceAt, SnapshotAt, CopySteps, Sources
  <2>3. task[u].at # "gc_unlink_log" => Compacting(p)
    BY <1>2, <2>1 DEF Compacting, CopySteps
  <2> DEFINE Stays(b) == rows'[b].state # "absent" /\ rows'[b].pack = p =>
                           \/ b \in lost'
                           \/ /\ rows[b].state # "absent" /\ rows[b].pack = p
                              /\ rows[b].state = "dead" => rows'[b].state = "dead"
  <2>4. ASSUME UNCHANGED rows PROVE \A b \in Blobs : Stays(b)
    BY <2>4
  <2>5. CASE \/ Start(t) \/ Get(t) \/ PutLock(t) \/ GcNext(t) \/ GcSnapshot(t) \/ GcOpen(t)
    BY <1>0, <2>1, <2>4, <2>5, QuietStep, SnapshotKeep
  <2>6. CASE \/ PutSeal(t) \/ PutCreate(t) \/ PutWrite(t) \/ ReviveLog(t) \/ TombstoneLog(t)
             \/ (\E q \in PackIds : ClearLog(t, q)) \/ ClearLock(t) \/ ClearCreate(t)
             \/ GcAlloc(t) \/ GcCopy(t) \/ GcSeal(t) \/ GcUnlink(t) \/ GcUnlinkLog(t) \/ Fail(t)
    <3>1. UNCHANGED rows
      BY <1>0, <2>6, FailFacts DEF PutSeal, PutCreate, PutWrite, ReviveLog, TombstoneLog, ClearLog, ClearLock,
                  ClearCreate, GcAlloc, GcCopy, GcSeal, GcUnlink, GcUnlinkLog
    <3> QED BY <1>0, <2>1, <2>4, <3>1, SnapshotKeep
  <2>7. CASE PutInsert(t)
    <3>1. ASSUME NEW b \in Blobs PROVE Stays(b)
      <4>1. CASE rows'[b] = rows[b]
        BY <4>1
      <4>2. CASE b = task[t].blob /\ rows'[b] = Row(writer, "live")
        BY <2>2, <2>7, <4>2 DEF PutInsert, Row
      <4> QED BY <1>0, <2>7, <4>1, <4>2 DEF PutInsert, TypeOK
    <3> QED BY <1>0, <2>1, <3>1, SnapshotKeep
  <2>8. CASE ReviveUpdate(t)
    <3>1. ASSUME NEW b \in Blobs PROVE Stays(b)
      <4>1. rows'[b] = rows[b] \/ (b = task[t].blob /\ rows[b].state = "dead")
        BY <1>0, <2>8 DEF ReviveUpdate, TypeOK
      <4>2. rows'[b].pack = rows[b].pack
        BY <1>0, <2>8 DEF ReviveUpdate, TypeOK
      <4>3. ASSUME b = task[t].blob, rows[b].state = "dead", rows[b].pack = p PROVE b \in lost'
        <5>1. CASE Compacting(p)
          BY <2>8, <4>3, <5>1 DEF ReviveUpdate
        <5>2. CASE task[u].at = "gc_unlink_log"
          BY <1>0, <2>2, <4>3, <5>2 DEF RowsOf
        <5> QED BY <2>3, <5>1, <5>2
      <4> QED BY <4>1, <4>2, <4>3
    <3> QED BY <1>0, <2>1, <3>1, SnapshotKeep
  <2>9. CASE TombstoneUpdate(t)
    <3>1. \A b \in Blobs : Stays(b)
      BY <1>0, <2>9 DEF TombstoneUpdate, TypeOK
    <3> QED BY <1>0, <2>1, <3>1, SnapshotKeep
  <2>10. CASE ClearUpdate(t)
    <3>1. \A b \in Blobs : Stays(b)
      BY <1>0, <2>10 DEF ClearUpdate, Live, Row, TypeOK
    <3> QED BY <1>0, <2>1, <3>1, SnapshotKeep
  <2>11. CASE GcSwap(t)
    <3>1. ASSUME NEW b \in Blobs PROVE Stays(b)
      <4>1. \/ b \in task[t].live /\ rows'[b] = Row(task[t].dst, rows[b].state)
            \/ rows'[b] = NoRow \/ rows'[b] = rows[b]
        BY <2>11 DEF GcSwap
      <4>2. CASE b \in task[t].live /\ rows'[b] = Row(task[t].dst, rows[b].state)
        <5>1. rows'[b].pack = task[t].dst
          BY <4>2 DEF Row
        <5>2. task[t].dst = p => Doomed(task[t].dst)
          BY <2>2, <2>3 DEF Doomed
        <5>3. Doomed(task[t].dst) => b \in lost'
          BY <2>11, <4>2 DEF GcSwap
        <5> QED BY <5>1, <5>2, <5>3
      <4>3. CASE rows'[b] = NoRow
        <5>1. rows'[b].state = "absent"
          BY <4>3 DEF NoRow
        <5> QED BY <5>1
      <4>4. CASE rows'[b] = rows[b]
        BY <4>4
      <4> QED BY <4>1, <4>2, <4>3, <4>4
    <3> QED BY <1>0, <2>1, <3>1, SnapshotKeep
  <2> QED BY <2>5, <2>6, <2>7, <2>8, <2>9, <2>10, <2>11 DEF CallStep, Put, Evict, Collect
<1> QED BY <1>1, <1>2

LEMMA SnapshotSelf ==
  ASSUME StoreInv, NEW t \in Tasks, CallStep(t)
  PROVE  SnapshotAt(t)'
<1> USE DEF disk, ghosts, At
<1>0. /\ TypeOK /\ SnapshotAt(t) /\ SourceAt(t) /\ Adds(t) /\ lost \subseteq lost'
  BY AddsStep, DiskStep DEF StoreInv, SnapshotInv, SourceInv, DiskKeeps
<1>1. CASE task'[t].at \notin CopySteps
  BY <1>1 DEF SnapshotAt, CopySteps
<1>2. ASSUME task'[t].at \in CopySteps PROVE task[t].at \in {"gc_snapshot"} \cup CopySteps
  <2>1. task[t].at \in Sources /\ (task[t].at = "gc_alloc" => GcAlloc(t))
    BY <1>0, <1>2 DEF Adds, Sources, CopySteps
  <2>2. ~GcAlloc(t)
    BY <1>0, <1>2, GotoFacts DEF GcAlloc, CopySteps
  <2> QED BY <2>1, <2>2 DEF Sources, CopySteps
<1>3. CASE GcSnapshot(t)
  <2> DEFINE p == task[t].pack
             L == RowsOf(p) \ DeadOf(p)
  <2>1. task'[t] = [at |-> "gc_open", todo |-> task[t].todo, pack |-> p,
                    dst |-> task[t].dst, live |-> L, sound |-> L \cap frames[p]]
    BY <1>0, <1>3, GotoFacts DEF GcSnapshot
  <2>2. /\ task'[t].at = "gc_open" /\ task'[t].pack = p
        /\ task'[t].live = L /\ task'[t].sound = L \cap frames[p]
    BY <2>1
  <2>3. UNCHANGED rows /\ lost' = lost
    BY <1>3 DEF GcSnapshot
  <2>4. L \ lost \subseteq frames[p]
    BY DEF StoreInv, RowInv, Backed, RowsOf
  <2>5. \A b \in RowsOf(p) : rows[b].state = "dead" \/ b \in L
    BY DEF DeadOf
  <2> HIDE DEF L
  <2> QED BY <2>2, <2>3, <2>4, <2>5 DEF SnapshotAt, RowsOf
<1>r. CASE Return(t)
  BY <1>0, <1>1, <1>r, ReturnFacts DEF Idle, CopySteps
<1>f. CASE Fail(t)
  <2>1. CASE Goto(t, [at |-> "gc_next", todo |-> Sealed])
    BY <1>0, <1>1, <2>1, GotoFacts DEF CopySteps
  <2> QED BY <1>0, <1>f, <1>r, <2>1, FailFacts
<1>4. CASE GcOpen(t)
  <2>2. CASE Step(t, "gc_copy")
    <3>1. /\ task'[t].at = "gc_copy" /\ task'[t].pack = task[t].pack /\ task'[t].live = task[t].live
          /\ task[t].at = "gc_open" /\ task'[t].sound = task[t].sound
      BY <1>0, <1>4, <2>2, CopyFields DEF GcOpen, CopySteps
    <3>2. UNCHANGED rows
      BY <1>4 DEF GcOpen
    <3> QED BY <1>0, <3>1, <3>2 DEF SnapshotAt, RowsOf
  <2> QED BY <1>4, <1>r, <2>2 DEF GcOpen
<1>5. CASE GcCopy(t)
  <2>1. UNCHANGED rows /\ task[t].at = "gc_copy"
    BY <1>5 DEF GcCopy
  <2>2. CASE UNCHANGED task
    BY <1>0, <2>1, <2>2 DEF SnapshotAt, RowsOf
  <2>3. CASE Step(t, "gc_seal")
    <3>1. /\ task'[t].at = "gc_seal" /\ task'[t].pack = task[t].pack /\ task'[t].live = task[t].live
          /\ task'[t].sound = task[t].sound
      BY <1>0, <2>1, <2>3, CopyFields DEF CopySteps
    <3> QED BY <1>0, <2>1, <3>1 DEF SnapshotAt, RowsOf
  <2> QED BY <1>5, <1>r, <2>2, <2>3 DEF GcCopy
<1>6. CASE GcSeal(t)
  <2>1. /\ task'[t].at = "gc_swap" /\ task'[t].pack = task[t].pack /\ task'[t].live = task[t].live
        /\ task[t].at = "gc_seal" /\ task'[t].sound = task[t].sound
    BY <1>0, <1>6, CopyFields DEF GcSeal, CopySteps
  <2>2. UNCHANGED rows
    BY <1>6 DEF GcSeal
  <2> QED BY <1>0, <2>1, <2>2 DEF SnapshotAt, RowsOf
<1>7. CASE GcSwap(t)
  <2>1. /\ task'[t].at = "gc_unlink" /\ task'[t].pack = task[t].pack /\ task[t].at = "gc_swap"
    BY <1>0, <1>7, CopyFields DEF GcSwap, CopySteps
  <2>2. PICK p \in PackIds : p = task[t].pack
    BY <1>0, <2>1, SourceFacts DEF Sources
  <2>3. ASSUME NEW b \in Blobs, rows'[b].state # "absent", rows'[b].pack = p PROVE b \in lost'
    <3>1. CASE b \in task[t].live /\ rows[b].state # "absent"
      <4>1. rows'[b].pack = task[t].dst
        BY <1>7, <3>1 DEF GcSwap, Row
      <4>2. Compacting(p)
        BY <2>1, <2>2 DEF Compacting
      <4> QED BY <1>7, <2>3, <3>1, <4>1, <4>2 DEF GcSwap, Doomed
    <3>2. CASE b \notin task[t].live /\ b \in DeadOf(task[t].pack)
      <4>1. rows'[b] = NoRow
        BY <1>7, <3>2 DEF GcSwap
      <4>2. rows'[b].state = "absent"
        BY <4>1 DEF NoRow
      <4> QED BY <2>3, <4>2
    <3>3. CASE /\ ~(b \in task[t].live /\ rows[b].state # "absent")
               /\ ~(b \notin task[t].live /\ b \in DeadOf(task[t].pack))
      <4>1. rows'[b] = rows[b]
        BY <1>7, <3>3 DEF GcSwap
      <4>2. b \in RowsOf(p) /\ b \notin task[t].live /\ rows[b].state # "dead"
        BY <2>2, <2>3, <3>3, <4>1 DEF RowsOf, DeadOf
      <4> QED BY <1>0, <2>1, <2>2, <4>2 DEF SnapshotAt
    <3> QED BY <3>1, <3>2, <3>3
  <2> QED BY <2>1, <2>2, <2>3 DEF SnapshotAt, RowsOf
<1>8. CASE GcUnlink(t)
  <2>1. /\ task'[t].at = "gc_unlink_log" /\ task'[t].pack = task[t].pack
        /\ task[t].at = "gc_unlink"
    BY <1>0, <1>8, CopyFields DEF GcUnlink, CopySteps
  <2>2. UNCHANGED rows
    BY <1>8 DEF GcUnlink
  <2> QED BY <1>0, <2>1, <2>2 DEF SnapshotAt, RowsOf
<1>9. CASE GcUnlinkLog(t)
  <2>1. task'[t].at = "gc_next"
    BY <1>0, <1>9, GotoFacts DEF GcUnlinkLog
  <2> QED BY <1>1, <2>1 DEF CopySteps
<1>10. ASSUME task[t].at \in {"gc_snapshot"} \cup CopySteps
       PROVE  \/ GcSnapshot(t) \/ GcOpen(t) \/ GcCopy(t) \/ GcSeal(t) \/ GcSwap(t) \/ GcUnlink(t)
              \/ GcUnlinkLog(t) \/ Fail(t)
  <2> USE <1>10 DEF CopySteps
  <2>1. ~Start(t)
    BY DEF Start, PutStart, TombstoneStart, GetStart, ClearStart, GcStart, Call
  <2>2. ~Put(t)
    BY DEF Put, PutLock, PutSeal, PutCreate, PutWrite, PutInsert, ReviveLog, ReviveUpdate
  <2>3. ~Evict(t)
    BY DEF Evict, TombstoneLog, TombstoneUpdate, ClearLog, ClearUpdate, ClearLock, ClearCreate
  <2>4. ~Get(t)
    BY DEF Get, GetRow, GetSealed, GetOpen
  <2>5. ~(GcNext(t) \/ GcAlloc(t))
    BY DEF GcNext, GcAlloc
  <2> QED BY <2>1, <2>2, <2>3, <2>4, <2>5 DEF CallStep, Collect
<1> QED BY <1>1, <1>2, <1>3, <1>4, <1>5, <1>6, <1>7, <1>8, <1>9, <1>10, <1>f


---------------------------------------------------------------------------
(* LockInv, WriterInv, LookedInv *)

LEMMA PutFields ==
  ASSUME TypeOK, NEW t \in Tasks, task[t].at \in PutSteps, NEW s \in PutSteps, Step(t, s)
  PROVE  task'[t].at = s /\ task'[t].blob = task[t].blob /\ task[t].blob \in Blobs
<1>1. task'[t] = [at |-> s, blob |-> task[t].blob] /\ task[t].blob \in Blobs
  BY PutStep, Zenon
<1> QED BY <1>1

(* How a call comes to hold the writer mutex, and what it found then. *)
LEMMA LockMoves ==
  ASSUME TypeOK, NEW t \in Tasks, CallStep(t), task'[t].at \in Locked
  PROVE  \/ /\ lock = NoTask /\ lock' = t /\ PutLock(t)
            /\ task'[t].at \in {"put_seal", "put_write"}
            /\ task'[t].blob = task[t].blob /\ task[t].blob \in Blobs
            /\ rows[task[t].blob].state = "absent"
         \/ /\ lock = NoTask /\ lock' = t /\ ClearLock(t) /\ Seal /\ task'[t].at = "clear_create"
         \/ /\ task[t].at \in Locked \ {"clear_create"} /\ lock' = lock /\ UNCHANGED rows
            /\ task'[t].at # "clear_create"
            /\ task'[t].blob = task[t].blob /\ task[t].blob \in Blobs
            /\ \/ PutSeal(t) /\ task'[t].at = "put_create"
               \/ PutCreate(t) /\ task'[t].at = "put_write"
               \/ PutWrite(t) /\ task'[t].at = "put_insert"
<1> USE DEF At, Call
<1>i. ~Return(t)
  BY ReturnFacts DEF Idle, Locked
<1>n. ~Goto(t, [at |-> "gc_next", todo |-> Sealed])
  BY GotoFacts DEF Locked
<1>1. ~Start(t)
  <2>1. ASSUME NEW b \in Blobs, PutStart(t, b) \/ TombstoneStart(t, b) \/ GetStart(t, b)
        PROVE  FALSE
    <3>1. \/ Goto(t, [at |-> "revive_log", blob |-> b, pack |-> rows[b].pack])
          \/ Goto(t, [at |-> "put_lock", blob |-> b])
          \/ Goto(t, [at |-> "tomb_log", blob |-> b, pack |-> rows[b].pack])
          \/ Goto(t, [at |-> "get_row", blob |-> b, tries |-> 0, last |-> NoRow.pack])
      BY <1>i, <2>1, RowFacts DEF PutStart, TombstoneStart, GetStart
    <3>2. task'[t].at \in {"revive_log", "put_lock", "tomb_log", "get_row"}
      BY <3>1, GotoFacts
    <3> QED BY <3>2 DEF Locked
  <2>2. ASSUME ClearStart(t) \/ GcStart(t) PROVE FALSE
    <3>1. task'[t].at \in {"clear_lock", "clear_log", "gc_next"}
      BY <2>2, GotoFacts DEF ClearStart, GcStart
    <3> QED BY <3>1 DEF Locked
  <2> QED BY <2>1, <2>2 DEF Start
<1>2. CASE PutLock(t)
  <2>0. task[t].blob \in Blobs
    BY <1>2, Shapes DEF PutLock, PutSteps, TypeOK
  <2>1. rows[task[t].blob].state # "live"
    BY <1>i, <1>2 DEF PutLock
  <2>2. rows[task[t].blob].state # "dead"
    <3>1. SUFFICES ASSUME rows[task[t].blob].state = "dead" PROVE FALSE
      OBVIOUS
    <3>2. task'[t].at = "revive_log"
      BY <1>2, <3>1, GotoFacts DEF PutLock
    <3> QED BY <3>2 DEF Locked
  <2>3. rows[task[t].blob].state = "absent"
    BY <2>0, <2>1, <2>2, RowFacts
  <2>4. PICK s \in {"put_seal", "put_write"} : Step(t, s) /\ lock' = t /\ lock = NoTask
    BY <1>2, <2>3 DEF PutLock
  <2>5. task[t].at \in PutSteps /\ s \in PutSteps
    BY <1>2 DEF PutLock, PutSteps
  <2>6. task'[t].at = s /\ task'[t].blob = task[t].blob
    BY <2>4, <2>5, PutFields
  <2> QED BY <1>2, <2>0, <2>3, <2>4, <2>6
<1>3. CASE PutSeal(t) \/ PutCreate(t) \/ PutWrite(t)
  <2>1. lock' = lock /\ UNCHANGED rows /\ task[t].at \in Locked \ {"clear_create"}
        /\ task[t].at \in PutSteps
    BY <1>3 DEF PutSeal, PutCreate, PutWrite, Locked, PutSteps
  <2>2. CASE PutSeal(t)
    <3>1. task'[t].at = "put_create" /\ task'[t].blob = task[t].blob /\ task[t].blob \in Blobs
      BY <2>1, <2>2, PutFields DEF PutSeal, PutSteps
    <3> QED BY <2>1, <2>2, <3>1
  <2>3. CASE PutCreate(t)
    <3>1. task'[t].at = "put_write" /\ task'[t].blob = task[t].blob /\ task[t].blob \in Blobs
      BY <2>1, <2>3, PutFields DEF PutCreate, PutSteps
    <3> QED BY <2>1, <2>3, <3>1
  <2>4. CASE PutWrite(t)
    <3>1. task'[t].at = "put_insert" /\ task'[t].blob = task[t].blob /\ task[t].blob \in Blobs
      BY <2>1, <2>4, PutFields DEF PutWrite, PutSteps
    <3> QED BY <2>1, <2>4, <3>1
  <2> QED BY <1>3, <2>2, <2>3, <2>4
<1>4. ~(ReviveLog(t) \/ TombstoneLog(t))
  <2>1. SUFFICES ASSUME ReviveLog(t) \/ TombstoneLog(t) PROVE FALSE
    OBVIOUS
  <2>2. PICK s \in {"revive_update", "tomb_update"} : Step(t, s)
    BY <2>1 DEF ReviveLog, TombstoneLog
  <2>3. task[t].at \in MarkSteps /\ s \in MarkSteps
    BY <2>1 DEF ReviveLog, TombstoneLog, MarkSteps
  <2>4. task'[t] = [at |-> s, blob |-> task[t].blob, pack |-> task[t].pack]
    BY <2>2, <2>3, MarkStep, Zenon
  <2>5. task'[t].at \in {"revive_update", "tomb_update"}
    BY <2>4
  <2> QED BY <2>5 DEF Locked
<1>5. ~(PutInsert(t) \/ ReviveUpdate(t) \/ TombstoneUpdate(t))
  BY <1>i DEF PutInsert, ReviveUpdate, TombstoneUpdate
<1>6. ~(\E p \in PackIds : ClearLog(t, p))
  <2>1. SUFFICES ASSUME NEW p \in PackIds, ClearLog(t, p) PROVE FALSE
    OBVIOUS
  <2>2. task'[t].at \in {"clear_update", "clear_log"}
    BY <2>1, GotoFacts DEF ClearLog
  <2> QED BY <2>2 DEF Locked
<1>7. ~ClearUpdate(t)
  <2>1. SUFFICES ASSUME ClearUpdate(t) PROVE FALSE
    OBVIOUS
  <2>2. task'[t] = [at |-> "clear_lock"]
    BY <2>1, ClearStep DEF ClearUpdate, ClearSteps
  <2>3. task'[t].at = "clear_lock"
    BY <2>2
  <2> QED BY <2>3 DEF Locked
<1>8. CASE ClearLock(t)
  <2>1. CASE Goto(t, [at |-> "gc_next", todo |-> Sealed])
    BY <1>n, <2>1
  <2>2. CASE Step(t, "clear_create") /\ lock' = t /\ Seal
    <3>1. task'[t] = [at |-> "clear_create"]
      BY <1>8, <2>2, ClearStep DEF ClearLock, ClearSteps
    <3>2. task'[t].at = "clear_create"
      BY <3>1
    <3> QED BY <1>8, <2>2, <3>2 DEF ClearLock
  <2> QED BY <1>8, <2>1, <2>2 DEF ClearLock
<1>9. ~ClearCreate(t)
  <2>1. ASSUME ClearCreate(t) PROVE task'[t].at = "gc_next"
    BY <2>1, GotoFacts DEF ClearCreate
  <2> QED BY <2>1 DEF Locked
<1>10. ~Collect(t)
  <2>0. ASSUME Collect(t) PROVE FALSE
    <3>1. CASE task'[t].at \in {"gc_next"} \cup Sources
      BY <3>1 DEF Locked, Sources
    <3>2. CASE GcNext(t)
      <4>1. PICK S, p : \/ Goto(t, [at |-> "gc_next", todo |-> S])
                        \/ Goto(t, [at |-> "gc_alloc", todo |-> S, pack |-> p])
        BY <1>i, <3>2 DEF GcNext
      <4> QED BY <3>1, <4>1, GotoFacts DEF Sources
    <3>3. CASE GcAlloc(t)
      <4>1. task'[t].at = "gc_snapshot"
        BY <3>3, GotoFacts DEF GcAlloc
      <4> QED BY <3>1, <4>1 DEF Sources
    <3>4. CASE GcSnapshot(t)
      <4>1. task'[t].at = "gc_open"
        BY <3>4, GotoFacts DEF GcSnapshot
      <4> QED BY <3>1, <4>1 DEF Sources
    <3>5. CASE GcOpen(t) \/ GcSeal(t) \/ GcSwap(t) \/ GcUnlink(t)
      <4>1. PICK s \in CopySteps : Step(t, s)
        BY <1>i, <3>5 DEF GcOpen, GcSeal, GcSwap, GcUnlink, CopySteps
      <4>2. task[t].at \in CopySteps
        BY <3>5 DEF GcOpen, GcSeal, GcSwap, GcUnlink, CopySteps
      <4>3. task'[t].at = s
        BY <4>1, <4>2, CopyFields
      <4> QED BY <3>1, <4>3 DEF CopySteps, Sources
    <3>6. CASE GcCopy(t)
      <4>1. UNCHANGED task => task'[t].at = "gc_copy"
        BY <3>6 DEF GcCopy
      <4>2. Step(t, "gc_seal") => task'[t].at = "gc_seal"
        BY <3>6, CopyFields DEF GcCopy, CopySteps
      <4> QED BY <1>i, <3>1, <3>6, <4>1, <4>2 DEF GcCopy, Sources
    <3>7. CASE GcUnlinkLog(t)
      <4>1. task'[t].at = "gc_next"
        BY <3>7, GotoFacts DEF GcUnlinkLog
      <4> QED BY <3>1, <4>1
    <3> QED BY <2>0, <3>2, <3>3, <3>4, <3>5, <3>6, <3>7 DEF Collect
  <2> QED BY <2>0
<1>11. ~Get(t)
  <2>0. ASSUME Get(t) PROVE FALSE
    <3>1. CASE GetRow(t) \/ GetOpen(t)
      <4>1. PICK s \in {"get_row", "get_sealed"} : task'[t].at = s
        <5>1. CASE GetRow(t)
          BY <1>i, <5>1, GotoFacts DEF GetRow
        <5>2. CASE GetOpen(t)
          <6>1. Goto(t, [at |-> "get_row", blob |-> task[t].blob, tries |-> task[t].tries + 1,
                         last |-> task[t].pack])
            BY <1>i, <5>2 DEF GetOpen, GetRead, GetFails
          <6> QED BY <6>1, GotoFacts
        <5> QED BY <3>1, <5>1, <5>2
      <4> QED BY <4>1 DEF Locked
    <3>2. CASE GetSealed(t)
      <4>1. Step(t, "get_open") /\ task[t].at = "get_sealed"
        BY <1>i, <3>2 DEF GetSealed, GetRead, GetFails
      <4>2. task[t] = [at |-> task[t].at, blob |-> task[t].blob, tries |-> task[t].tries,
                       last |-> task[t].last, pack |-> task[t].pack]
        BY <4>1, Shapes DEF TypeOK
      <4>3. [task[t] EXCEPT !.at = "get_open"].at = "get_open"
        BY <4>2
      <4>4. task'[t].at = "get_open"
        BY <4>1, <4>3, StepFacts
      <4> QED BY <4>4 DEF Locked
    <3> QED BY <2>0, <3>1, <3>2 DEF Get
  <2> QED BY <2>0
<1>12. ~Fail(t)
  BY <1>i, <1>n, FailFacts
<1> QED BY <1>1, <1>2, <1>3, <1>4, <1>5, <1>6, <1>7, <1>8, <1>9, <1>10, <1>11, <1>12
    DEF CallStep, Put, Evict


LEMMA LockStep ==
  ASSUME StoreInv, NEW t \in Tasks, CallStep(t)
  PROVE  LockInv'
<1>0. /\ TypeOK /\ LockInv /\ boot' = "up" /\ \A u \in Tasks \ {t} : task'[u] = task[u]
  BY OthersStay DEF StoreInv
<1>1. ASSUME NEW u \in Tasks, u # t, lock = u PROVE lock' = lock
  <2> USE DEF At, Call
  <2>1. lock # NoTask /\ lock # t
    BY <1>1, Ids
  <2>2. task[t].at \notin Locked
    BY <1>0, <2>1 DEF LockInv
  <2>3. Start(t) \/ Get(t) \/ Collect(t) => lock' = lock
    BY DEF Start, PutStart, TombstoneStart, GetStart, ClearStart, GcStart, Get, GetRow,
           GetSealed, GetOpen, Collect, GcNext, GcAlloc, GcSnapshot, GcOpen, GcCopy, GcSeal,
           GcSwap, GcUnlink, GcUnlinkLog
  <2>4. Put(t) => lock' = lock
    BY <2>1, <2>2 DEF Put, PutLock, PutSeal, PutCreate, PutWrite, PutInsert, ReviveLog,
                      ReviveUpdate, Unlock, Locked
  <2>5. Evict(t) => lock' = lock
    BY <2>1, <2>2 DEF Evict, TombstoneLog, TombstoneUpdate, ClearLog, ClearUpdate, ClearLock,
                      ClearCreate, Locked
  <2>6. Fail(t) => lock' = lock
    BY <2>1, <2>2 DEF Fail, PutSealFails, PutCreateFails, PutWriteFails, PutInsertFails,
                      ClearLockFails, ClearCreateFails, Abort, Unlock, Locked
  <2> QED BY <2>3, <2>4, <2>5, <2>6 DEF CallStep
<1>2. ASSUME NEW u \in Tasks, task'[u].at \in Locked PROVE lock' = u
  <2>1. CASE u = t
    <3>1. lock' = t \/ (lock' = lock /\ task[t].at \in Locked)
      BY <1>0, <1>2, <2>1, LockMoves
    <3> QED BY <1>0, <2>1, <3>1 DEF LockInv
  <2>2. CASE u # t
    BY <1>0, <1>1, <1>2, <2>2 DEF LockInv
  <2> QED BY <2>1, <2>2
<1> QED BY <1>0, <1>2 DEF LockInv

(* The writer's pack, unless it is sealed or replaced: only when a failed  *)
(* rotation has left the writer on it does a collection unlink it.         *)
LEMMA WriterStays ==
  ASSUME StoreInv, NEW t \in Tasks, CallStep(t),
         ~(PutSeal(t) \/ ClearLock(t) \/ PutCreate(t) \/ ClearCreate(t))
  PROVE  /\ writer' = writer
         /\ file'[writer] = file[writer] \/ drift = "torn"
         /\ drift = "none" /\ drift' = "none" => frames[writer] \subseteq frames'[writer]
<1> USE DEF disk, ghosts, At
<1>0. /\ TypeOK /\ writer \in PackIds /\ Spent(writer) /\ SourceAt(t)
  BY DEF StoreInv, WriterInv, TypeOK, SourceInv
<1>1. CASE \/ Start(t) \/ Get(t) \/ PutLock(t) \/ GcNext(t) \/ GcSnapshot(t) \/ GcOpen(t)
  BY <1>1, QuietStep
<1>2. CASE \/ PutInsert(t) \/ ReviveLog(t) \/ ReviveUpdate(t) \/ TombstoneLog(t)
           \/ TombstoneUpdate(t) \/ (\E p \in PackIds : ClearLog(t, p)) \/ ClearUpdate(t)
           \/ GcSwap(t) \/ GcUnlinkLog(t)
  BY <1>2 DEF PutInsert, ReviveLog, ReviveUpdate, TombstoneLog, TombstoneUpdate, ClearLog,
              ClearUpdate, GcSwap, GcUnlinkLog
<1>3. CASE PutWrite(t)
  BY <1>0, <1>3 DEF PutWrite, TypeOK
<1>4. ASSUME NewPack PROVE file'[writer] = file[writer] /\ frames'[writer] = frames[writer]
  BY <1>0, <1>4, DiskCreated
<1>5. CASE GcAlloc(t)
  BY <1>4, <1>5 DEF GcAlloc
<1>6. CASE GcCopy(t)
  <2>1. UNCHANGED <<file, writer>>
    BY <1>6 DEF GcCopy
  <2>2. frames' = frames \/ \E q, B : frames' = [frames EXCEPT ![q] = @ \cup B]
    BY <1>6 DEF GcCopy
  <2>3. ASSUME NEW q, NEW B, frames' = [frames EXCEPT ![q] = @ \cup B]
        PROVE  frames[writer] \subseteq frames'[writer]
    BY <1>0, <2>3 DEF TypeOK
  <2> QED BY <2>1, <2>2, <2>3
<1>7. CASE GcSeal(t)
  <2>1. task[t].at \in Targets
    BY <1>7 DEF GcSeal, Targets, Copies
  <2>2. task[t].dst # writer
    BY <2>1, TargetFacts
  <2> QED BY <1>0, <1>7, <2>2 DEF GcSeal, TypeOK
<1>8. CASE GcUnlink(t)
  <2>1. task[t].pack = writer => drift = "torn"
    BY <1>0, <1>8, SourceFacts DEF GcUnlink, Sources
  <2> QED BY <1>0, <1>8, <2>1 DEF GcUnlink, TypeOK
<1>9. CASE Fail(t)
  <2>1. writer' = writer
    BY <1>0, <1>9, FailFacts
  <2>2. CASE NewPack
    BY <1>4, <2>1, <2>2
  <2>3. CASE ~NewPack
    BY <1>0, <1>9, <2>1, <2>3, FailFacts
  <2> QED BY <2>2, <2>3
<1> QED BY <1>1, <1>2, <1>3, <1>5, <1>6, <1>7, <1>8, <1>9 DEF CallStep, Put, Evict, Collect

LEMMA WriterStep ==
  ASSUME StoreInv, TypeOK', NEW t \in Tasks, CallStep(t)
  PROVE  WriterInv'
<1> USE DEF disk, ghosts, At
<1>0. /\ TypeOK /\ LockInv /\ WriterInv /\ writer \in PackIds /\ boot = "up" /\ boot' = "up"
      /\ \A u \in Tasks \ {t} : task'[u] = task[u]
  BY OthersStay DEF StoreInv, TypeOK
<1>1. ASSUME NEW u \in Tasks, task'[u].at = "put_insert", u # t, task[t].at \in Locked PROVE FALSE
  BY <1>0, <1>1 DEF LockInv, Locked
<1>2. ASSUME task'[t].at = "put_insert" PROVE PutWrite(t) /\ task'[t].blob = task[t].blob
  BY <1>0, <1>2, LockMoves DEF Locked
<1>3. CASE PutCreate(t) \/ ClearCreate(t)
  <2>1. NewPack /\ writer' = NextPackId /\ task[t].at \in Locked
    BY <1>3 DEF PutCreate, ClearCreate, Locked
  <2>2. file'[writer'] = "open"
    BY <1>0, <2>1, DiskCreated DEF WriterInv
  <2>3. ~PutWrite(t)
    BY <1>3 DEF PutCreate, ClearCreate, PutWrite
  <2>4. \A u \in Tasks : task'[u].at # "put_insert"
    BY <1>1, <1>2, <2>1, <2>3
  <2>5. Spent(writer)'
    BY <2>2 DEF Spent, Exists
  <2> QED BY <1>0, <2>2, <2>4, <2>5 DEF WriterInv
<1>k. writer' = writer => Spent(writer)'
  <2>1. DiskKeeps
    BY DiskStep
  <2>2. PICK w \in PackIds : w = writer
    BY <1>0
  <2>3. Spent(w)'
    BY <1>0, <2>1, <2>2 DEF DiskKeeps, WriterInv
  <2> QED BY <2>2, <2>3 DEF Spent, Above, Exists
<1>d. /\ writer' = writer /\ drift' = "none" => drift = "none"
      /\ writer' = writer /\ drift = "torn" => drift' = "torn"
  BY DriftStep
<1>4. CASE PutSeal(t) \/ (ClearLock(t) /\ Seal /\ Step(t, "clear_create"))
  <2>1. writer' = writer /\ frames' = frames
    BY <1>4 DEF PutSeal, ClearLock
  <2>2. task'[t].at \in {"put_create", "clear_create"}
    <3>1. CASE PutSeal(t)
      BY <1>0, <3>1, PutFields DEF PutSeal, PutSteps
    <3>2. CASE ClearLock(t) /\ Step(t, "clear_create")
      <4>1. task'[t] = [at |-> "clear_create"]
        BY <1>0, <3>2, ClearStep DEF ClearLock, ClearSteps
      <4> QED BY <4>1
    <3> QED BY <1>4, <3>1, <3>2
  <2>3. ASSUME NEW u \in Tasks, task'[u].at = "put_insert", drift' = "none"
        PROVE  task'[u].blob \in frames'[writer']
    BY <1>0, <1>d, <2>1, <2>2, <2>3 DEF WriterInv
  <2> QED BY <1>0, <1>k, <2>1, <2>2, <2>3 DEF WriterInv
<1>5. CASE ~(PutCreate(t) \/ ClearCreate(t) \/ PutSeal(t) \/ (ClearLock(t) /\ Seal /\ Step(t, "clear_create")))
  <2>1. /\ writer' = writer
        /\ file'[writer] = file[writer] \/ drift = "torn"
        /\ drift = "none" /\ drift' = "none" => frames[writer] \subseteq frames'[writer]
    <3>1. CASE ClearLock(t)
      BY <1>5, <3>1 DEF ClearLock
    <3>2. CASE ~ClearLock(t)
      BY <1>5, <3>2, WriterStays
    <3> QED BY <3>1, <3>2
  <2>2. ASSUME task[t].at \in {"put_create", "clear_create"} PROVE drift' = "torn"
    <3> USE DEF Call
    <3>2. ~Start(t) /\ ~Get(t)
      BY <2>2 DEF Start, PutStart, TombstoneStart, GetStart, ClearStart, GcStart, Get, GetRow,
                  GetSealed, GetOpen
    <3>3. ~Put(t)
      BY <1>5, <2>2 DEF Put, PutLock, PutSeal, PutWrite, PutInsert, ReviveLog, ReviveUpdate
    <3>4. ~Evict(t)
      BY <1>5, <2>2 DEF Evict, TombstoneLog, TombstoneUpdate, ClearLog, ClearUpdate, ClearLock
    <3>5. ~Collect(t)
      BY <2>2 DEF Collect, GcNext, GcAlloc, GcSnapshot, GcOpen, GcCopy, GcSeal, GcSwap, GcUnlink,
                  GcUnlinkLog
    <3> QED BY <1>0, <2>2, <3>2, <3>3, <3>4, <3>5, FailFacts DEF CallStep
  <2>3. ASSUME file'[writer'] # "open", drift' # "torn"
        PROVE  \E v \in Tasks : task'[v].at \in {"put_create", "clear_create"}
    <3>1. file[writer] # "open" /\ drift # "torn"
      BY <1>d, <2>1, <2>3
    <3>2. PICK v \in Tasks : task[v].at \in {"put_create", "clear_create"}
      BY <1>0, <3>1 DEF WriterInv
    <3> QED BY <1>0, <2>2, <2>3, <3>2
  <2>4. ASSUME NEW u \in Tasks, task'[u].at = "put_insert", drift' = "none"
        PROVE  task'[u].blob \in frames'[writer']
    <3>0. drift = "none"
      BY <1>d, <2>1, <2>4
    <3>1. CASE u = t
      <4>1. PutWrite(t) /\ task'[t].blob = task[t].blob
        BY <1>2, <2>4, <3>1
      <4>2. task[t].blob \in frames'[writer]
        BY <1>0, <3>0, <4>1 DEF PutWrite, TypeOK
      <4> QED BY <2>1, <3>1, <4>1, <4>2
    <3>2. CASE u # t
      <4>1. task'[u] = task[u] /\ task[u].blob \in frames[writer]
        BY <1>0, <2>4, <3>0, <3>2 DEF WriterInv
      <4> QED BY <2>1, <2>4, <3>0, <4>1
    <3> QED BY <3>1, <3>2
  <2> QED BY <1>0, <1>k, <2>1, <2>3, <2>4 DEF WriterInv
<1> QED BY <1>3, <1>4, <1>5

LEMMA LookedStep ==
  ASSUME StoreInv, NEW t \in Tasks, CallStep(t)
  PROVE  LookedInv'
<1> USE DEF disk, ghosts, At
<1>0. /\ TypeOK /\ LockInv /\ LookedInv /\ RowInv
      /\ \A u \in Tasks \ {t} : task'[u] = task[u]
  BY OthersStay DEF StoreInv
<1>1. ASSUME NEW u \in Tasks, u # t, task[u].at \in Locked \ {"clear_create"},
             NEW b \in Blobs, rows[b] = NoRow
      PROVE  rows'[b] = NoRow
  <2>0. rows[b].state = "absent" /\ lock = u
    BY <1>0, <1>1 DEF NoRow, LockInv
  <2>1. CASE \/ Start(t) \/ Get(t) \/ PutLock(t) \/ GcNext(t) \/ GcSnapshot(t) \/ GcOpen(t)
    BY <1>1, <2>1, QuietStep
  <2>2. CASE \/ PutSeal(t) \/ PutCreate(t) \/ PutWrite(t) \/ ReviveLog(t) \/ TombstoneLog(t)
             \/ (\E q \in PackIds : ClearLog(t, q)) \/ ClearLock(t) \/ ClearCreate(t)
             \/ GcAlloc(t) \/ GcCopy(t) \/ GcSeal(t) \/ GcUnlink(t) \/ GcUnlinkLog(t) \/ Fail(t)
    BY <1>0, <1>1, <2>2, FailFacts DEF PutSeal, PutCreate, PutWrite, ReviveLog, TombstoneLog, ClearLog, ClearLock,
                      ClearCreate, GcAlloc, GcCopy, GcSeal, GcUnlink, GcUnlinkLog
  <2>3. ~PutInsert(t)
    BY <1>0, <1>1, <2>0 DEF PutInsert, LockInv, Locked
  <2>4. CASE ReviveUpdate(t)
    BY <1>0, <1>1, <2>0, <2>4 DEF ReviveUpdate, TypeOK
  <2>5. CASE TombstoneUpdate(t)
    BY <1>0, <1>1, <2>0, <2>5 DEF TombstoneUpdate, TypeOK
  <2>6. CASE ClearUpdate(t)
    BY <1>1, <2>0, <2>6 DEF ClearUpdate, Live
  <2>7. CASE GcSwap(t)
    BY <1>1, <2>0, <2>7 DEF GcSwap
  <2> QED BY <2>1, <2>2, <2>3, <2>4, <2>5, <2>6, <2>7 DEF CallStep, Put, Evict, Collect
<1>2. ASSUME NEW u \in Tasks, task'[u].at \in Locked \ {"clear_create"}
      PROVE  rows'[task'[u].blob] = NoRow
  <2>1. CASE u # t
    <3>1. task'[u] = task[u] /\ task[u].at \in PutSteps
      BY <1>0, <1>2, <2>1 DEF Locked, PutSteps
    <3>2. task[u].blob \in Blobs
      BY <1>0, <3>1, Shapes DEF TypeOK
    <3> QED BY <1>0, <1>1, <1>2, <2>1, <3>1, <3>2 DEF LookedInv
  <2>2. CASE u = t
    <3>1. CASE /\ PutLock(t) /\ task'[t].blob = task[t].blob /\ task[t].blob \in Blobs
               /\ rows[task[t].blob].state = "absent"
      <4>1. rows' = rows
        BY <3>1 DEF PutLock
      <4> QED BY <1>0, <2>2, <3>1, <4>1 DEF RowInv
    <3>2. CASE /\ task[t].at \in Locked \ {"clear_create"} /\ UNCHANGED rows
               /\ task'[t].blob = task[t].blob
      BY <1>0, <2>2, <3>2 DEF LookedInv
    <3> QED BY <1>0, <1>2, <2>2, <3>1, <3>2, LockMoves
  <2> QED BY <2>1, <2>2
<1> QED BY <1>2 DEF LookedInv


---------------------------------------------------------------------------
(* RowInv *)

LEMMA RowKeep ==
  ASSUME TypeOK, RowInv, UNCHANGED rows, lost \subseteq lost',
         \A b \in Blobs \ lost' : rows[b].state # "absent" =>
           LET p == rows[b].pack
           IN (file[p] # "none" => file'[p] # "none") /\ frames[p] \subseteq frames'[p]
  PROVE  RowInv'
BY DEF RowInv, Backed, Exists

LEMMA RowStep ==
  ASSUME StoreInv, TypeOK', NEW t \in Tasks, CallStep(t)
  PROVE  RowInv'
<1> USE DEF disk, ghosts, At
<1>0. /\ TypeOK /\ RowInv /\ SourceAt(t) /\ SnapshotAt(t) /\ Spent(writer)
      /\ lost \subseteq lost' /\ writer \in PackIds
  BY DiskStep DEF StoreInv, SourceInv, SnapshotInv, WriterInv, DiskKeeps, TypeOK
<1>1. CASE \/ Start(t) \/ Get(t) \/ PutLock(t) \/ GcNext(t) \/ GcSnapshot(t) \/ GcOpen(t)
  BY <1>0, <1>1, QuietStep, RowKeep
<1>2. CASE \/ ReviveLog(t) \/ TombstoneLog(t) \/ (\E q \in PackIds : ClearLog(t, q))
           \/ GcUnlinkLog(t)
  <2>1. UNCHANGED <<rows, file, frames>>
    BY <1>2 DEF ReviveLog, TombstoneLog, ClearLog, GcUnlinkLog
  <2> QED BY <1>0, <2>1, RowKeep
<1>3. CASE PutSeal(t) \/ ClearLock(t)
  <2>1. UNCHANGED <<rows, frames>>
    BY <1>3 DEF PutSeal, ClearLock
  <2>2. \A p \in PackIds : file[p] # "none" => file'[p] # "none"
    BY <1>0, <1>3 DEF PutSeal, ClearLock, Seal, TypeOK
  <2> QED BY <1>0, <2>1, <2>2, RowKeep, RowFacts
<1>4. CASE PutCreate(t) \/ ClearCreate(t) \/ GcAlloc(t) \/ (Fail(t) /\ NewPack)
  <2>1. NewPack /\ UNCHANGED rows
    BY <1>0, <1>4, FailFacts DEF PutCreate, ClearCreate, GcAlloc
  <2>2. /\ \A p \in PackIds \ {NextPackId} : file'[p] = file[p] /\ frames'[p] = frames[p]
        /\ \A p \in PackIds : Spent(p) => p # NextPackId
    BY <1>0, <2>1, DiskCreated
  <2>3. ASSUME NEW b \in Blobs \ lost', rows[b].state # "absent"
        PROVE  file'[rows[b].pack] = file[rows[b].pack] /\ frames'[rows[b].pack] = frames[rows[b].pack]
    BY <1>0, <2>2, <2>3, RowFacts DEF RowInv, Backed, Spent
  <2> QED BY <1>0, <2>1, <2>3, RowKeep
<1>5. CASE PutWrite(t) \/ GcCopy(t)
  <2>1. UNCHANGED <<rows, file>>
    BY <1>5 DEF PutWrite, GcCopy
  <2>2. frames' = frames \/ \E q, B : frames' = [frames EXCEPT ![q] = @ \cup B]
    BY <1>5 DEF PutWrite, GcCopy
  <2>3. ASSUME NEW p \in PackIds PROVE frames[p] \subseteq frames'[p]
    <3>1. CASE frames' = frames
      BY <3>1
    <3>2. ASSUME NEW q, NEW B, frames' = [frames EXCEPT ![q] = @ \cup B]
          PROVE  frames[p] \subseteq frames'[p]
      <4>1. frames'[p] = IF p = q THEN frames[p] \cup B ELSE frames[p]
        BY <1>0, <3>2 DEF TypeOK
      <4> QED BY <4>1
    <3> QED BY <2>2, <3>1, <3>2
  <2> QED BY <1>0, <2>1, <2>3, RowKeep, RowFacts
<1>6. CASE GcSeal(t)
  <2>1. UNCHANGED <<rows, frames>>
    BY <1>6 DEF GcSeal
  <2>2. \A p \in PackIds : file[p] # "none" => file'[p] # "none"
    BY <1>0, <1>6 DEF GcSeal, TypeOK
  <2> QED BY <1>0, <2>1, <2>2, RowKeep, RowFacts
<1>7. CASE GcUnlink(t)
  <2>1. UNCHANGED <<rows, lost>> /\ RowsOf(task[t].pack) \subseteq lost
    BY <1>0, <1>7 DEF GcUnlink, SnapshotAt
  <2>2. \A p \in PackIds \ {task[t].pack} : file'[p] = file[p] /\ frames'[p] = frames[p]
    BY <1>0, <1>7 DEF GcUnlink, TypeOK
  <2>3. ASSUME NEW b \in Blobs \ lost', rows[b].state # "absent"
        PROVE  rows[b].pack \in PackIds \ {task[t].pack}
    BY <1>0, <2>1, <2>3, RowFacts DEF RowsOf
  <2> QED BY <1>0, <2>1, <2>2, <2>3, RowKeep
<1>8. CASE PutInsert(t)
  <2>1. UNCHANGED <<file, frames>>
    BY <1>8 DEF PutInsert
  <2>2. task[t].blob \notin lost' => Exists(writer) /\ task[t].blob \in frames[writer]
    <3>1. SUFFICES ASSUME drift = "none" PROVE file[writer] = "open" /\ task[t].blob \in frames[writer]
      BY <1>8 DEF PutInsert, Exists
    <3>2. boot = "up" /\ task[t].at = "put_insert"
      BY <1>8 DEF PutInsert
    <3>3. \A v \in Tasks : task[v].at \notin {"put_create", "clear_create"}
      BY <3>2 DEF StoreInv, LockInv, Locked
    <3> QED BY <3>1, <3>2, <3>3 DEF StoreInv, WriterInv
  <2>3. \A b \in Blobs : rows'[b] = rows[b] \/ (b = task[t].blob /\ rows'[b] = Row(writer, "live"))
    BY <1>0, <1>8 DEF PutInsert, TypeOK
  <2>4. ASSUME NEW b \in Blobs PROVE rows'[b].state = "absent" => rows'[b] = NoRow
    BY <1>0, <2>3 DEF RowInv, Row
  <2>5. ASSUME NEW b \in Blobs \ lost', rows'[b].state # "absent" PROVE Backed(b)'
    BY <1>0, <2>1, <2>2, <2>3, <2>5 DEF RowInv, Row, Backed, Exists
  <2> QED BY <2>1, <2>4, <2>5 DEF RowInv
<1>9. CASE ReviveUpdate(t) \/ TombstoneUpdate(t) \/ ClearUpdate(t)
  <2>1. UNCHANGED <<file, frames>>
    BY <1>9 DEF ReviveUpdate, TombstoneUpdate, ClearUpdate
  <2>2. \A b \in Blobs : \/ rows'[b] = rows[b]
                         \/ /\ rows'[b].pack = rows[b].pack /\ rows[b].state # "absent"
                            /\ rows'[b].state # "absent"
    <3>1. CASE ReviveUpdate(t)
      BY <1>0, <3>1 DEF ReviveUpdate, TypeOK
    <3>2. CASE TombstoneUpdate(t)
      BY <1>0, <3>2 DEF TombstoneUpdate, TypeOK
    <3>3. CASE ClearUpdate(t)
      BY <1>0, <3>3 DEF ClearUpdate, Live, Row, TypeOK
    <3> QED BY <1>9, <3>1, <3>2, <3>3
  <2> QED BY <1>0, <2>1, <2>2 DEF RowInv, Backed, Exists
<1>10. CASE GcSwap(t)
  <2>1. UNCHANGED <<file, frames>>
    BY <1>10 DEF GcSwap
  <2>2. task[t].at = "gc_swap"
    BY <1>10 DEF GcSwap
  <2>3. Exists(task[t].dst) => task[t].live \ lost \subseteq frames[task[t].dst]
    BY <1>0, <2>2, TargetFacts DEF Targets, SnapshotAt
  <2>4. \A b \in Blobs : \/ /\ b \in task[t].live /\ rows[b].state # "absent"
                            /\ rows'[b] = Row(task[t].dst, rows[b].state)
                         \/ rows'[b] = NoRow \/ rows'[b] = rows[b]
    BY <1>10 DEF GcSwap
  <2>5. ASSUME NEW b \in Blobs
        PROVE  /\ rows'[b].state = "absent" => rows'[b] = NoRow
               /\ b \notin lost' /\ rows'[b].state # "absent" => Backed(b)'
    <3>1. CASE /\ b \in task[t].live /\ rows[b].state # "absent"
               /\ rows'[b] = Row(task[t].dst, rows[b].state)
      <4>1. rows'[b].pack = task[t].dst /\ rows'[b].state # "absent"
        BY <3>1 DEF Row
      <4>2. b \notin lost' => Exists(task[t].dst)
        BY <1>10, <3>1 DEF GcSwap, Doomed
      <4> QED BY <1>0, <2>1, <2>3, <3>1, <4>1, <4>2 DEF Backed, Exists
    <3>2. CASE rows'[b] = NoRow
      <4>1. rows'[b].state = "absent"
        BY <3>2 DEF NoRow
      <4> QED BY <3>2, <4>1
    <3>3. CASE rows'[b] = rows[b]
      BY <1>0, <2>1, <3>3 DEF RowInv, Backed, Exists
    <3> QED BY <2>4, <3>1, <3>2, <3>3
  <2> QED BY <2>5 DEF RowInv
<1>11. CASE Fail(t) /\ ~NewPack
  <2>1. UNCHANGED <<rows, file, lost>>
    BY <1>0, <1>11, FailFacts
  <2>2. CASE frames' = frames
    BY <1>0, <2>1, <2>2, RowKeep
  <2>3. CASE /\ task[t].at = "put_insert"
             /\ frames' = [frames EXCEPT ![writer] = @ \ {task[t].blob}]
    <3>1. rows[task[t].blob].state = "absent"
      BY <2>3 DEF StoreInv, LookedInv, Locked, NoRow
    <3>2. ASSUME NEW b \in Blobs, rows[b].state # "absent", NEW p \in PackIds, b \in frames[p]
          PROVE  b \in frames'[p]
      BY <1>0, <2>3, <3>1, <3>2 DEF TypeOK
    <3> QED BY <1>0, <2>1, <3>2, RowFacts DEF RowInv, Backed, Exists
  <2> QED BY <1>0, <1>11, <2>1, <2>2, <2>3, FailFacts
<1> QED BY <1>1, <1>2, <1>3, <1>4, <1>5, <1>6, <1>7, <1>8, <1>9, <1>10, <1>11
    DEF CallStep, Put, Evict, Collect

---------------------------------------------------------------------------
(* KeptInv *)

LEMMA PromiseFacts ==
  ASSUME NEW b \in Blobs, NEW row, Promise(b, row)
  PROVE  \A c \in kept' : c \in kept
                            \/ (c = b /\ row.state = "live" /\ log[row.pack][b] # "tombstone")
BY DEF Promise

LEMMA KeptStep ==
  ASSUME StoreInv, TypeOK', NEW t \in Tasks, CallStep(t)
  PROVE  KeptInv'
<1> USE DEF disk, ghosts, At
<1>0. TypeOK /\ KeptInv /\ lost \subseteq lost' /\ kept \subseteq Blobs
  BY DiskStep DEF StoreInv, DiskKeeps, TypeOK
<1>1. CASE \/ (\E b \in Blobs : TombstoneStart(t, b) \/ GetStart(t, b)) \/ ClearStart(t) \/ GcStart(t)
           \/ Get(t) \/ GcNext(t) \/ GcSnapshot(t) \/ GcOpen(t)
           \/ PutSeal(t) \/ PutCreate(t) \/ PutWrite(t) \/ ClearLock(t) \/ ClearCreate(t)
           \/ GcAlloc(t) \/ GcCopy(t) \/ GcSeal(t) \/ GcUnlink(t) \/ Fail(t)
  <2>1. UNCHANGED <<rows, log, kept>>
    BY <1>0, <1>1, FailFacts DEF TombstoneStart, GetStart, ClearStart, GcStart, Get, GetRow, GetSealed, GetOpen,
                GcNext, GcSnapshot, GcOpen, PutSeal, PutCreate, PutWrite, ClearLock, ClearCreate,
                GcAlloc, GcCopy, GcSeal, GcUnlink
  <2> QED BY <1>0, <2>1 DEF KeptInv
<1>2. ASSUME NEW b \in Blobs, PutStart(t, b) PROVE KeptInv'
  <2>1. UNCHANGED <<rows, log, lost>>
    BY <1>2 DEF PutStart
  <2>2. kept' = kept \/ Promise(b, rows[b])
    BY <1>2, <1>0, RowFacts DEF PutStart
  <2> QED BY <1>0, <2>1, <2>2, PromiseFacts DEF KeptInv
<1>3. CASE PutLock(t)
  <2>0. task[t].blob \in Blobs
    BY <1>0, <1>3, Shapes DEF PutLock, PutSteps, TypeOK
  <2>1. UNCHANGED <<rows, log, lost>>
    BY <1>3 DEF PutLock
  <2>2. kept' = kept \/ Promise(task[t].blob, rows[task[t].blob])
    BY <1>0, <1>3, <2>0, RowFacts DEF PutLock
  <2> QED BY <1>0, <2>0, <2>1, <2>2, PromiseFacts DEF KeptInv
<1>4. CASE PutInsert(t)
  <2>0. task[t].blob \in Blobs
    BY <1>0, <1>4, Shapes DEF PutInsert, PutSteps, TypeOK
  <2>1. UNCHANGED log /\ Promise(task[t].blob, rows'[task[t].blob])
    BY <1>4 DEF PutInsert
  <2>2. \A c \in Blobs : rows[c].state # "absent" => rows'[c] = rows[c]
    BY <1>0, <1>4 DEF PutInsert, TypeOK
  <2>3. \A c \in kept' : c \in kept \/ (c = task[t].blob /\ rows'[c].state = "live"
                                         /\ log[rows'[c].pack][c] # "tombstone")
    BY <2>0, <2>1, PromiseFacts
  <2> QED BY <1>0, <2>1, <2>2, <2>3 DEF KeptInv
<1>5. CASE ReviveUpdate(t)
  <2>0. task[t].blob \in Blobs
    BY <1>0, <1>5, Shapes DEF ReviveUpdate, MarkSteps, TypeOK
  <2>1. UNCHANGED log /\ Promise(task[t].blob, rows'[task[t].blob])
    BY <1>5 DEF ReviveUpdate
  <2>2. \A c \in Blobs : rows[c].state = "live" => rows'[c] = rows[c]
    BY <1>0, <1>5 DEF ReviveUpdate, TypeOK
  <2>3. \A c \in kept' : c \in kept \/ (c = task[t].blob /\ rows'[c].state = "live"
                                         /\ log[rows'[c].pack][c] # "tombstone")
    BY <2>0, <2>1, PromiseFacts
  <2> QED BY <1>0, <2>1, <2>2, <2>3 DEF KeptInv
<1>6. CASE ReviveLog(t)
  <2>0. task[t].blob \in Blobs /\ task[t].pack \in PackIds
    BY <1>0, <1>6, Shapes DEF ReviveLog, MarkSteps, TypeOK
  <2>1. UNCHANGED <<rows, kept, lost>>
    BY <1>6 DEF ReviveLog
  <2>2. \A p \in PackIds, c \in Blobs : log'[p][c] \in {log[p][c], "revive"}
    BY <1>0, <1>6, <2>0 DEF ReviveLog, TypeOK
  <2> QED BY ZenonT(30), <1>0, <2>1, <2>2, RowFacts DEF KeptInv
<1>7. CASE TombstoneLog(t)
  <2>0. task[t].blob \in Blobs /\ task[t].pack \in PackIds
    BY <1>0, <1>7, Shapes DEF TombstoneLog, MarkSteps, TypeOK
  <2>1. UNCHANGED <<rows, lost>> /\ kept' = kept \ {task[t].blob}
    BY <1>7 DEF TombstoneLog, Evicted
  <2>2. \A p \in PackIds, c \in Blobs \ {task[t].blob} : log'[p][c] = log[p][c]
    BY <1>0, <1>7, <2>0 DEF TombstoneLog, TypeOK
  <2>4. ASSUME NEW c \in kept' \ lost'
        PROVE  rows'[c].state = "live" /\ log'[rows'[c].pack][c] # "tombstone"
    <3>1. c \in kept \ lost /\ c \in Blobs \ {task[t].blob}
      BY <1>0, <2>1, <2>4
    <3>2. rows[c].pack \in PackIds /\ rows[c].state = "live" /\ log[rows[c].pack][c] # "tombstone"
      BY <1>0, <3>1, RowFacts DEF KeptInv
    <3> QED BY <2>1, <2>2, <3>1, <3>2
  <2> QED BY <2>4 DEF KeptInv
<1>8. CASE TombstoneUpdate(t)
  <2>1. UNCHANGED <<log, lost>> /\ kept' = kept \ {task[t].blob}
    BY <1>8 DEF TombstoneUpdate, Evicted
  <2>2. \A c \in Blobs \ {task[t].blob} : rows'[c] = rows[c]
    BY <1>0, <1>8 DEF TombstoneUpdate, TypeOK
  <2> QED BY <1>0, <2>1, <2>2 DEF KeptInv
<1>9. ASSUME NEW p \in PackIds, ClearLog(t, p) PROVE KeptInv'
  <2> DEFINE batch == {b \in Blobs : <<b, p>> \in task[t].todo}
  <2>1. UNCHANGED <<rows, lost>> /\ kept' = kept \ batch
    BY <1>9 DEF ClearLog, Evicted
  <2>2. log' = [log EXCEPT ![p] = [b \in Blobs |-> IF b \in batch THEN "tombstone" ELSE @[b]]]
    BY <1>9 DEF ClearLog
  <2> HIDE DEF batch
  <2>3. \A q \in PackIds, c \in Blobs \ batch : log'[q][c] = log[q][c]
    BY <1>0, <2>2 DEF TypeOK
  <2>4. ASSUME NEW c \in kept' \ lost'
        PROVE  rows'[c].state = "live" /\ log'[rows'[c].pack][c] # "tombstone"
    <3>1. c \in kept \ lost /\ c \in Blobs \ batch
      BY <1>0, <2>1, <2>4
    <3>2. rows[c].pack \in PackIds /\ rows[c].state = "live" /\ log[rows[c].pack][c] # "tombstone"
      BY <1>0, <3>1, RowFacts DEF KeptInv
    <3> QED BY <2>1, <2>3, <3>1, <3>2
  <2> QED BY <2>4 DEF KeptInv
<1>10. CASE ClearUpdate(t)
  <2>1. kept' = {}
    BY <1>0, <1>10 DEF ClearUpdate, Evicted
  <2> QED BY <2>1 DEF KeptInv
<1>11. CASE GcUnlinkLog(t)
  <2>1. UNCHANGED <<rows, kept, lost>>
    BY <1>11 DEF GcUnlinkLog
  <2>2. \A p \in PackIds, c \in Blobs : log'[p][c] \in {log[p][c], "none"}
    BY <1>0, <1>11 DEF GcUnlinkLog, EmptyLog, TypeOK
  <2> QED BY ZenonT(30), <1>0, <2>1, <2>2, RowFacts DEF KeptInv
<1>12. CASE GcSwap(t)
  <2>1. UNCHANGED <<log, kept>> /\ task[t].at = "gc_swap"
    BY <1>12 DEF GcSwap
  <2>2. ASSUME NEW b \in kept \ lost' PROVE rows'[b].state = "live" /\ log[rows'[b].pack][b] # "tombstone"
    <3>0. b \in Blobs \ lost /\ rows[b].state = "live" /\ log[rows[b].pack][b] # "tombstone"
      BY <1>0, <2>2 DEF KeptInv
    <3>1. CASE b \in task[t].live
      <4>1. rows'[b] = Row(task[t].dst, "live")
        BY <1>12, <3>0, <3>1 DEF GcSwap
      <4>2. rows'[b].pack = task[t].dst /\ rows'[b].state = "live"
        BY <4>1 DEF Row
      <4>3. log[task[t].dst][b] = "none"
        BY <2>1, <3>0, TargetFacts DEF Targets
      <4> QED BY <4>2, <4>3
    <3>2. CASE b \notin task[t].live
      <4>1. b \notin DeadOf(task[t].pack)
        BY <3>0 DEF DeadOf
      <4>2. rows'[b] = rows[b]
        BY <1>12, <3>0, <3>2, <4>1 DEF GcSwap
      <4> QED BY <3>0, <4>2
    <3> QED BY <3>1, <3>2
  <2> QED BY <2>1, <2>2 DEF KeptInv
<1> QED BY <1>1, <1>2, <1>3, <1>4, <1>5, <1>6, <1>7, <1>8, <1>9, <1>10, <1>11, <1>12
    DEF CallStep, Start, Put, Evict, Collect


---------------------------------------------------------------------------
(* Deaths and restarts: nobody is in a call. *)

LEMMA IdleFacts ==
  /\ ListedBy(Idle) = {} /\ LoggedBy(Idle) = {} /\ Idle.at = "idle"
  /\ Idle.at \notin Sources /\ Idle.at \notin Targets /\ Idle.at \notin Locked
BY DEF Idle, ListedBy, LoggedBy, Sources, Targets, Copies, Locked

LEMMA IdleInv ==
  ASSUME \A t \in Tasks : task[t] = Idle
  PROVE  SourceInv /\ TargetInv /\ SnapshotInv /\ LookedInv
<1>1. SourceInv
  BY IdleFacts DEF SourceInv, SourceAt
<1>2. TargetInv
  BY IdleFacts DEF TargetInv, TargetAt, Apart
<1>3. SnapshotInv
  BY IdleFacts DEF SnapshotInv, SnapshotAt
<1>4. LookedInv
  BY IdleFacts DEF LookedInv
<1> QED BY <1>1, <1>2, <1>3, <1>4

LEMMA IdleInvNext ==
  ASSUME \A t \in Tasks : task'[t] = Idle
  PROVE  SourceInv' /\ TargetInv' /\ SnapshotInv' /\ LookedInv'
<1>1. SourceInv'
  BY IdleFacts DEF SourceInv, SourceAt
<1>2. TargetInv'
  BY IdleFacts DEF TargetInv, TargetAt, Apart
<1>3. SnapshotInv'
  BY IdleFacts DEF SnapshotInv, SnapshotAt
<1>4. LookedInv'
  BY IdleFacts DEF LookedInv
<1> QED BY <1>1, <1>2, <1>3, <1>4

LEMMA StoreInit ==
  ASSUME Init
  PROVE  StoreInv
<1>1. \A t \in Tasks : task[t] = Idle
  BY DEF Init
<1>2. TypeOK
  BY Ids DEF Init, TypeOK, EmptyLog, NoRow, Calling
<1>3. LockInv
  BY <1>1, IdleFacts DEF Init, LockInv
<1>4. WriterInv
  BY <1>1, Ids, IdleFacts DEF Init, WriterInv, Spent, Exists
<1>5. RowInv /\ KeptInv
  BY DEF Init, RowInv, KeptInv, NoRow
<1> QED BY <1>1, <1>2, <1>3, <1>4, <1>5, IdleInv DEF StoreInv

LEMMA CrashStep ==
  ASSUME StoreInv, TypeOK', Crash
  PROVE  StoreInv'
<1> USE DEF disk, ghosts
<1>1. \A t \in Tasks : task'[t] = Idle
  BY DEF Crash
<1>2. /\ UNCHANGED <<file, frames, log, rows, writer, drift, lost, kept>>
      /\ boot' = "down" /\ lock' = NoTask
  BY DEF Crash
<1>3. LockInv'
  BY <1>1, <1>2, IdleFacts DEF LockInv
<1>4. WriterInv'
  BY <1>1, <1>2, IdleFacts DEF StoreInv, WriterInv, Spent, Above, Exists
<1>5. RowInv' /\ KeptInv'
  BY <1>2 DEF StoreInv, RowInv, KeptInv, Backed, Exists
<1> QED BY <1>1, <1>3, <1>4, <1>5, IdleInvNext DEF StoreInv

LEMMA RecoverStep ==
  ASSUME StoreInv, TypeOK', Recover
  PROVE  WriterInv' /\ RowInv' /\ KeptInv'
<1> USE DEF disk, ghosts
<1>0. /\ TypeOK /\ RowInv /\ KeptInv /\ Spent(writer) /\ boot' = "recovered" /\ drift' = "none"
      /\ \A t \in Tasks : task'[t] = Idle
  BY DEF StoreInv, WriterInv, LockInv, Recover
<1>1. CASE Opens = {}
  <2>1. NewPack /\ writer' = NextPackId /\ UNCHANGED <<log, rows, kept>>
    BY <1>1 DEF Recover
  <2>2. /\ \A p \in PackIds \ {NextPackId} : file'[p] = file[p] /\ frames'[p] = frames[p]
        /\ \A p \in PackIds : Spent(p) => p # NextPackId
        /\ file'[NextPackId] = "open" /\ lost \subseteq lost'
    BY <1>0, <2>1, DiskCreated DEF DiskKeeps
  <2>3. ASSUME NEW b \in Blobs \ lost', rows[b].state # "absent"
        PROVE  file'[rows[b].pack] = file[rows[b].pack] /\ frames'[rows[b].pack] = frames[rows[b].pack]
    BY <1>0, <2>2, <2>3, RowFacts DEF RowInv, Backed, Spent
  <2>4. RowInv'
    BY <1>0, <2>1, <2>2, <2>3, RowKeep
  <2>5. WriterInv'
    BY <1>0, <2>1, <2>2, IdleFacts DEF WriterInv, Spent, Exists
  <2>6. KeptInv'
    BY <1>0, <2>1, <2>2 DEF KeptInv
  <2> QED BY <2>4, <2>5, <2>6
<1>2. CASE Opens # {}
  <2>1. PICK w \in PackIds : w = Min(Opens) /\ w \in Opens
    BY <1>2, Ids, MinFacts DEF Opens
  <2>2. /\ \A p \in PackIds :
             IF p \in Opens \ {w} THEN file'[p] = "none" /\ frames'[p] = {} /\ log'[p] = EmptyLog
             ELSE file'[p] = file[p] /\ frames[p] \subseteq frames'[p] /\ log'[p] = log[p]
        /\ frames'[w] = Walk(w)
        /\ writer' = w /\ rows' = Reindexed(rows, w) /\ UNCHANGED kept
        /\ lost' = lost \cup {b \in Blobs :
                     IF b \in Walk(w) THEN b \notin RowsOf(w) /\ log[w][b] = "tombstone"
                     ELSE \E p \in Opens \ {w} : b \in RowsOf(p)}
    BY <1>2, <2>1 DEF Recover, Without, Walk
  <2>3. file'[w] = "open" /\ frames'[w] = Walk(w) /\ log'[w] = log[w]
    BY <2>1, <2>2 DEF Opens
  <2>4. WriterInv'
    BY <1>0, <2>2, <2>3, IdleFacts DEF WriterInv, Spent, Exists
  <2>5. ASSUME NEW b \in Blobs
        PROVE  \/ /\ b \in Walk(w)
                  /\ rows'[b] = Row(w, IF rows[b].state = "dead" THEN "dead" ELSE "live")
               \/ b \notin Walk(w) /\ rows'[b] = rows[b]
    BY <2>2 DEF Reindexed
  <2>6. ASSUME NEW b \in Blobs
        PROVE  /\ rows'[b].state = "absent" => rows'[b] = NoRow
               /\ b \notin lost' /\ rows'[b].state # "absent" => Backed(b)'
    <3>1. CASE /\ b \in Walk(w)
               /\ rows'[b] = Row(w, IF rows[b].state = "dead" THEN "dead" ELSE "live")
      <4>1. rows'[b].pack = w /\ rows'[b].state # "absent"
        BY <3>1 DEF Row
      <4> QED BY <2>3, <3>1, <4>1 DEF Backed, Exists
    <3>2. CASE b \notin Walk(w) /\ rows'[b] = rows[b]
      <4>1. ASSUME b \notin lost', rows[b].state # "absent"
            PROVE  rows[b].pack \in PackIds \ (Opens \ {w})
        BY <1>0, <2>2, <3>2, <4>1, RowFacts DEF RowsOf
      <4>2. ASSUME b \notin lost', rows[b].state # "absent" PROVE Backed(b)'
        <5>1. file[rows[b].pack] # "none" /\ b \in frames[rows[b].pack]
          BY <1>0, <2>2, <4>2 DEF RowInv, Backed, Exists
        <5>2. file'[rows[b].pack] = file[rows[b].pack] /\ frames[rows[b].pack] \subseteq frames'[rows[b].pack]
          BY <2>2, <4>1, <4>2
        <5> QED BY <3>2, <5>1, <5>2 DEF Backed, Exists
      <4> QED BY <1>0, <3>2, <4>2 DEF RowInv
    <3> QED BY <2>5, <3>1, <3>2
  <2>7. RowInv'
    BY <2>6 DEF RowInv
  <2>8. ASSUME NEW b \in kept \ lost'
        PROVE  rows'[b].state = "live" /\ log'[rows'[b].pack][b] # "tombstone"
    <3>0. /\ b \in Blobs /\ b \notin lost /\ rows[b].state = "live"
          /\ log[rows[b].pack][b] # "tombstone" /\ rows[b].pack \in PackIds
      BY <1>0, <2>2, <2>8, RowFacts DEF KeptInv, TypeOK
    <3>1. CASE /\ b \in Walk(w)
               /\ rows'[b] = Row(w, IF rows[b].state = "dead" THEN "dead" ELSE "live")
      <4>1. rows'[b].pack = w /\ rows'[b].state = "live"
        BY <3>0, <3>1 DEF Row
      <4>2. log[w][b] # "tombstone"
        BY <2>2, <2>8, <3>0, <3>1 DEF RowsOf
      <4> QED BY <2>3, <4>1, <4>2
    <3>2. CASE b \notin Walk(w) /\ rows'[b] = rows[b]
      <4>1. log'[rows[b].pack] = EmptyLog \/ log'[rows[b].pack] = log[rows[b].pack]
        BY <2>2, <3>0
      <4>2. EmptyLog[b] # "tombstone"
        BY <3>0 DEF EmptyLog
      <4> QED BY <3>0, <3>2, <4>1, <4>2
    <3> QED BY <2>5, <3>0, <3>1, <3>2
  <2>9. KeptInv'
    BY <2>2, <2>8 DEF KeptInv
  <2> QED BY <2>4, <2>7, <2>9
<1> QED BY <1>1, <1>2

LEMMA RebuildStep ==
  ASSUME StoreInv, TypeOK', Rebuild
  PROVE  WriterInv' /\ RowInv' /\ KeptInv'
<1> USE DEF disk, ghosts
<1>0. /\ TypeOK /\ RowInv /\ KeptInv /\ WriterInv /\ boot' = "rebuilt"
      /\ UNCHANGED <<file, log, writer, drift, task, kept>> /\ boot = "recovered"
  BY DEF StoreInv, Rebuild
<1>t. \A t \in Tasks : task[t] = Idle
  BY <1>0 DEF StoreInv, LockInv
<1>w. /\ \A p \in PackIds : frames[p] \subseteq frames'[p]
      /\ \A p \in Sealed : frames'[p] = Walk(p)
  BY DEF Rebuild, Walk, Sealed
<1>1. \A b \in Blobs : rows'[b] = RebuiltRow(b)
  BY DEF Rebuild
<1>2. lost' = lost \cup {b \in Blobs : \E p \in Sealed :
                           b \notin RowsOf(p) /\ log[p][b] = "tombstone"}
  BY DEF Rebuild
<1>3. WriterInv'
  BY <1>0, <1>t, IdleFacts DEF WriterInv, Spent, Above, Exists
<1>4. ASSUME NEW b \in Blobs
      PROVE  /\ rows'[b].state = "absent" => rows'[b] = NoRow
             /\ b \notin lost' /\ rows'[b].state # "absent" => Backed(b)'
             /\ b \in kept \ lost' => rows'[b].state = "live" /\ log[rows'[b].pack][b] # "tombstone"
  <2> DEFINE holds == {p \in Sealed : b \in Walk(p)}
             says == {p \in Sealed : log[p][b] # "none"}
             place == IF holds = {} THEN rows[b].pack ELSE Max(holds)
             state == CASE says # {} /\ log[Max(says)][b] = "tombstone" -> "dead"
                        [] says # {} /\ log[Max(says)][b] = "revive" -> "live"
                        [] says = {} -> IF rows[b].state = "dead" THEN "dead" ELSE "live"
  <2>1. holds \in SUBSET (0..MaxPack) /\ says \in SUBSET (0..MaxPack)
    BY Ids DEF Sealed
  <2>2. holds # {} => Max(holds) \in holds
    BY <2>1, Ids, MaxFacts
  <2>3. says # {} => Max(says) \in says
    BY <2>1, Ids, MaxFacts
  <2>4. says # {} => Max(says) \in Sealed /\ log[Max(says)][b] \in {"tombstone", "revive"}
    BY <1>0, <2>3 DEF TypeOK, Sealed
  <2>5. state \in {"live", "dead"}
    BY <2>4
  <2>6. rows'[b] = IF holds = {} /\ rows[b].state = "absent" THEN NoRow ELSE Row(place, state)
    BY <1>1 DEF RebuiltRow
  <2>7. CASE holds = {} /\ rows[b].state = "absent"
    <3>1. rows'[b] = NoRow /\ rows'[b].state = "absent"
      BY <2>6, <2>7 DEF NoRow
    <3>2. b \notin kept \ lost
      BY <1>0, <2>7 DEF KeptInv
    <3> QED BY <1>2, <3>1, <3>2
  <2>8. CASE ~(holds = {} /\ rows[b].state = "absent")
    <3>1. rows'[b].pack = place /\ rows'[b].state = state
      <4> HIDE DEF place, state
      <4> QED BY <2>6, <2>8 DEF Row
    <3>2. b \notin lost' => Exists(place) /\ b \in frames'[place]
      <4>1. CASE holds # {}
        BY <1>w, <2>2, <4>1 DEF Sealed, Exists
      <4>2. CASE holds = {}
        BY <1>0, <1>2, <1>w, <2>8, <4>2, RowFacts DEF RowInv, Backed
      <4> QED BY <4>1, <4>2
    <3>3. ASSUME b \in kept \ lost' PROVE state = "live" /\ log[place][b] # "tombstone"
      <4>1. /\ b \notin lost /\ rows[b].state = "live" /\ log[rows[b].pack][b] # "tombstone"
        BY <1>0, <1>2, <3>3 DEF KeptInv
      <4>2. \A p \in Sealed : log[p][b] # "tombstone"
        BY <1>2, <3>3, <4>1 DEF RowsOf
      <4>3. state = "live"
        BY <2>4, <4>1, <4>2
      <4>4. log[place][b] # "tombstone"
        BY <2>2, <4>1, <4>2
      <4> QED BY <4>3, <4>4
    <3>4. b \notin lost' => Backed(b)'
      <4> HIDE DEF place
      <4> QED BY <1>0, <3>1, <3>2 DEF Backed, Exists
    <3> HIDE DEF place, state
    <3> QED BY <2>5, <3>1, <3>3, <3>4
  <2> QED BY <2>7, <2>8
<1>5. RowInv'
  BY <1>4 DEF RowInv
<1>6. KeptInv'
  <2>1. kept \subseteq Blobs
    BY <1>0 DEF TypeOK
  <2> QED BY <1>0, <1>4, <2>1 DEF KeptInv
<1> QED BY <1>3, <1>5, <1>6

LEMMA SweepStep ==
  ASSUME StoreInv, TypeOK', Sweep \/ SweepFails
  PROVE  WriterInv' /\ RowInv' /\ KeptInv'
<1> USE DEF disk, ghosts
<1>1. PICK S \in SUBSET Sealed : /\ Swept(S) /\ lost \subseteq lost'
                                 /\ \A p \in S : RowsOf(p) \subseteq lost'
  <2>1. CASE Sweep
    BY <2>1 DEF Sweep, Orphans
  <2>2. CASE SweepFails
    <3>1. PICK p \in Sealed \ Orphans : Swept(Orphans \cup {p}) /\ lost' = lost \cup RowsOf(p)
      BY <2>2 DEF SweepFails
    <3>2. Orphans \cup {p} \in SUBSET Sealed
      BY DEF Orphans
    <3>3. \A q \in Orphans \cup {p} : RowsOf(q) \subseteq lost'
      BY <3>1 DEF Orphans
    <3> QED BY <3>1, <3>2, <3>3
  <2> QED BY <2>1, <2>2
<1>0. /\ TypeOK /\ RowInv /\ KeptInv /\ WriterInv /\ LockInv /\ boot \in {"recovered", "rebuilt"}
      /\ UNCHANGED <<rows, writer, drift, task, kept>>
  BY <1>1 DEF StoreInv, Swept
<1>2. \A p \in PackIds :
        IF p \in S THEN file'[p] = "none" /\ frames'[p] = {} /\ log'[p] = EmptyLog
        ELSE file'[p] = file[p] /\ frames'[p] = frames[p] /\ log'[p] = log[p]
  BY <1>1 DEF Swept, Without
<1>3. \A t \in Tasks : task[t] = Idle
  BY <1>0 DEF LockInv
<1>4. file[writer] = "open" /\ writer \in PackIds /\ drift = "none"
  BY <1>0, <1>3, IdleFacts DEF WriterInv, TypeOK
<1>5. WriterInv'
  <2>1. file'[writer] = "open"
    BY <1>2, <1>4 DEF Sealed
  <2> QED BY <1>0, <1>3, <1>4, <2>1, IdleFacts DEF WriterInv, Spent, Exists
<1>6. ASSUME NEW b \in Blobs \ lost', rows[b].state # "absent"
      PROVE  /\ file'[rows[b].pack] = file[rows[b].pack] /\ frames'[rows[b].pack] = frames[rows[b].pack]
             /\ log'[rows[b].pack] = log[rows[b].pack]
  <2>1. rows[b].pack \in PackIds /\ b \in RowsOf(rows[b].pack)
    BY <1>0, <1>6, RowFacts DEF RowsOf
  <2>2. rows[b].pack \notin S
    BY <1>1, <1>6, <2>1
  <2> QED BY <1>2, <2>1, <2>2
<1>7. RowInv'
  BY <1>0, <1>1, <1>6, RowKeep
<1>8. KeptInv'
  BY <1>0, <1>1, <1>6 DEF KeptInv, TypeOK
<1> QED BY <1>5, <1>7, <1>8

LEMMA RestartStep ==
  ASSUME StoreInv, TypeOK', Restart
  PROVE  StoreInv'
<1>1. /\ \A t \in Tasks : task[t] = Idle
      /\ lock = NoTask /\ UNCHANGED <<task, lock>>
  BY DEF StoreInv, LockInv, Restart, Recover, Rebuild, Sweep, SweepFails, Swept
<1>2. LockInv'
  BY <1>1, IdleFacts DEF LockInv
<1>3. WriterInv' /\ RowInv' /\ KeptInv'
  BY RecoverStep, RebuildStep, SweepStep DEF Restart
<1> QED BY <1>1, <1>2, <1>3, IdleInvNext DEF StoreInv


---------------------------------------------------------------------------
(* The theorems *)

LEMMA StoreStep ==
  ASSUME StoreInv, [Next]_vars
  PROVE  StoreInv'
<1>1. CASE Next
  <2>0. TypeOK'
    BY <1>1, TypeStep DEF StoreInv
  <2>1. ASSUME NEW t \in Tasks, CallStep(t) PROVE StoreInv'
    <3>1. SnapshotInv'
      BY <2>1, SnapshotOther, SnapshotSelf DEF SnapshotInv
    <3> QED BY <2>0, <2>1, <3>1, LockStep, WriterStep, SourceStep, TargetStep, RowStep, LookedStep,
               KeptStep DEF StoreInv
  <2> QED BY <1>1, <2>0, <2>1, CrashStep, RestartStep DEF Next, CallStep
<1>2. CASE UNCHANGED vars
  <2>1. UNCHANGED <<file, frames, strays, log, rows, writer, drift, lock, task, boot, kept, lost,
                    sure, misses>>
    BY <1>2 DEF vars, disk, ghosts
  <2>2. TypeOK' /\ LockInv' /\ WriterInv' /\ RowInv' /\ LookedInv' /\ KeptInv'
    BY <2>1 DEF StoreInv, TypeOK, LockInv, WriterInv, Spent, Above, RowInv, Backed, Exists,
                LookedInv, KeptInv
  <2>3. SourceInv'
    BY <2>1 DEF StoreInv, SourceInv, SourceAt, Spent, Above, Exists
  <2>4. TargetInv'
    BY <2>1 DEF StoreInv, TargetInv, TargetAt, Apart, Spent, Above, Exists, RowsOf
  <2>5. SnapshotInv'
    BY <2>1 DEF StoreInv, SnapshotInv, SnapshotAt, RowsOf
  <2> QED BY <2>2, <2>3, <2>4, <2>5 DEF StoreInv
<1> QED BY <1>1, <1>2

(* The inductive invariant of the pack store, type correctness included:   *)
(* put, get, eviction, compaction, deaths, recovery and rebuilds keep it,  *)
(* and so does every write, creation or statement that fails in them.      *)
THEOREM StoreInvariant == Spec => []StoreInv
<1>1. Init => StoreInv
  BY StoreInit
<1>2. StoreInv /\ [Next]_vars => StoreInv'
  BY StoreStep
<1> QED BY <1>1, <1>2, PTL DEF Spec

(* What put promised stays readable until it is evicted, for any number of *)
(* concurrent calls, compactions, deaths, rebuilds and failing operations, *)
(* outside the windows that `lost' records: what was stored behind a put   *)
(* or a rotation that failed is one of them.                               *)
THEOREM KeptTheorem == Spec => []KeptIsReadable
<1>1. StoreInv => KeptIsReadable
  BY DEF StoreInv, KeptIsReadable, KeptInv, RowInv, Backed, Readable, TypeOK
<1> QED BY <1>1, StoreInvariant, PTL

(* Every index row points at its frame on disk, so a revive needs no       *)
(* bytes, unless the row was inserted behind a failed put or met another   *)
(* of the windows that `lost' records.                                     *)
THEOREM BackedTheorem == Spec => []RowsAreBacked
<1>1. StoreInv => RowsAreBacked
  BY DEF StoreInv, RowsAreBacked, RowInv, Backed
<1> QED BY <1>1, StoreInvariant, PTL

(* The writer and the compactions append to different open packs: the ids  *)
(* that next_pack_id gives out under the writer mutex do not collide, also *)
(* after a rotation that failed half way.                                  *)
THEOREM AppenderTheorem == Spec => []OneAppender
<1>1. ASSUME StoreInv, boot = "up", NEW t \in Tasks, task[t].at \in Copies
      PROVE  /\ file[task[t].dst] = "open" /\ task[t].dst # writer
             /\ \A u \in Tasks : task[u].at \in Copies /\ task[t].dst = task[u].dst => t = u
  BY <1>1, TargetFacts DEF Targets
<1>2. StoreInv => OneAppender
  BY <1>1, FreeWriter DEF OneAppender, Copies
<1> QED BY <1>2, StoreInvariant, PTL

(* put writes a frame only for a blob without a row: INSERT OR IGNORE      *)
(* never ignores, whatever collections and other puts do meanwhile.        *)
THEOREM HiddenTheorem == Spec => []NoHiddenFrame
<1>1. StoreInv => NoHiddenFrame
  BY DEF StoreInv, LookedInv, NoHiddenFrame, Locked
<1> QED BY <1>1, StoreInvariant, PTL
=============================================================================
