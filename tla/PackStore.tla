----------------------------- MODULE PackStore -----------------------------
(***************************************************************************)
(* The attachment pack store: content-addressed blobs appended as frames   *)
(* to numbered pack files, an index row per blob, a tombstone log per      *)
(* pack, compaction of sealed packs, and recovery when the Service boots.  *)
(*                                                                         *)
(* Every task runs one call of the store.  The connection mutex makes each *)
(* index access a step; the writer mutex is held by put, rotate and the    *)
(* allocation of a compaction's destination.  Anything else interleaves.   *)
(* A frame is its blob's hash; of offsets only is kept whether a row names *)
(* its frame; of a log the last record of each blob, the one replay obeys. *)
(*                                                                         *)
(* Writes, renames and creations of files and statements of the index may  *)
(* fail; reads of a file, appends of half a log record and failing unlinks *)
(* are left out.                                                           *)
(***************************************************************************)
EXTENDS Naturals, FiniteSets, FiniteSetsExt

CONSTANTS
  Blobs,         \* contents, identified with their hashes
  Tasks,         \* concurrent callers of the store
  NoTask,        \* nobody
  TargetFrames,  \* frames after which the open pack is rotated
  MaxPack,       \* bound on pack ids
  MaxCalls,      \* bound on calls
  MaxCrashes,    \* bound on deaths of the Service
  MaxFaults      \* bound on failing file and index operations

ASSUME PackAssumption ==
  /\ IsFiniteSet(Blobs) /\ IsFiniteSet(Tasks) /\ NoTask \notin Tasks
  /\ TargetFrames \in Nat \ {0} /\ MaxPack \in Nat
  /\ MaxCalls \in Nat /\ MaxCrashes \in Nat /\ MaxFaults \in Nat

VARIABLES
  file,     \* pack id -> "none", "open" or "sealed"
  frames,   \* pack id -> the blobs it holds where their rows say
  strays,   \* pack id -> the blobs whose frame only a walk of the pack finds
  log,      \* pack id -> blob -> last record of the pack's tombstone log
  rows,     \* blob -> its attachment_blobs row
  writer,   \* pack id of the OpenPack
  drift,    \* what its file holds behind its offset: "none", "whole" frames
            \* or "torn" bytes, which end a walk
  lock,     \* holder of the writer mutex
  task,     \* task -> where it is in its call
  boot,     \* "down", "recovered" or "up"
  calls, crashes, faults,
  kept,     \* blobs a put promised and nobody evicted since
  lost,     \* blobs that met one of the windows the code leaves open
  sure,     \* blobs kept since the first of their running gets began
  misses    \* blobs a get failed to read although they were sure

disk == <<file, frames, strays, log>>
counters == <<calls, crashes, faults>>
ghosts == <<kept, lost, sure, misses>>
vars == <<disk, rows, writer, drift, lock, task, boot, counters, ghosts>>

PackIds == 0..MaxPack
NoRow == [pack |-> 0, state |-> "absent"]
Row(p, s) == [pack |-> p, state |-> s]

Idle == [at |-> "idle"]
Steps == {"idle", "put_lock", "put_seal", "put_create", "put_write", "put_insert",
          "revive_log", "revive_update", "get_row", "get_sealed", "get_open",
          "tomb_log", "tomb_update", "clear_log", "clear_update", "clear_lock", "clear_create",
          "gc_next", "gc_alloc", "gc_snapshot", "gc_open", "gc_copy", "gc_seal", "gc_swap",
          "gc_unlink", "gc_unlink_log"}

EmptyLog == [b \in Blobs |-> "none"]

Init ==
  /\ file = [p \in PackIds |-> IF p = 0 THEN "open" ELSE "none"]
  /\ frames = [p \in PackIds |-> {}] /\ strays = [p \in PackIds |-> {}]
  /\ log = [p \in PackIds |-> EmptyLog]
  /\ rows = [b \in Blobs |-> NoRow]
  /\ writer = 0 /\ drift = "none" /\ lock = NoTask
  /\ task = [t \in Tasks |-> Idle]
  /\ boot = "up" /\ calls = 0 /\ crashes = 0 /\ faults = 0
  /\ kept = {} /\ lost = {} /\ sure = {} /\ misses = {}

Exists(p) == file[p] # "none"

Sealed == {p \in PackIds : file[p] = "sealed"}
RowsOf(p) == {b \in Blobs : rows[b].state # "absent" /\ rows[b].pack = p}

(* Mutant: only sealed packs are counted. *)
NextPackId_SealedOnly == Max(Sealed \cup {writer}) + 1

(* next_pack_id: one above every pack on disk, open ones included. *)
NextPackId == Max({p \in PackIds : Exists(p)}) + 1

Goto(t, r) == task' = [task EXCEPT ![t] = r]
Step(t, s) == task' = [task EXCEPT ![t].at = s]
Return(t) == Goto(t, Idle)

(* A new call, within the bound. *)
Call(t) ==
  /\ boot = "up" /\ task[t].at = "idle" /\ calls < MaxCalls
  /\ calls' = calls + 1 /\ UNCHANGED <<crashes, faults>>

At(t, s) == boot = "up" /\ task[t].at = s /\ UNCHANGED <<boot, counters>>

(* An operation fails. *)
Fault == faults < MaxFaults /\ faults' = faults + 1 /\ UNCHANGED <<calls, crashes>>

FaultAt(t, s) == boot = "up" /\ task[t].at = s /\ Fault /\ UNCHANGED boot

Unlock(t) == lock' = IF lock = t THEN NoTask ELSE lock

(* A put answers with the hash: the blob is to be kept, if neither the row *)
(* nor the log says that an eviction overtook it.  The caller has its hash *)
(* then as well, and two windows of the code are open: the revived row has *)
(* gone with its pack, or the log holds the tombstone of an eviction that  *)
(* got no further, which the next rebuild replays.                         *)
Promise(b, row) ==
  kept' = IF row.state = "live" /\ log[row.pack][b] # "tombstone"
          THEN kept \cup {b} ELSE kept

(* seal_open_pack: the tail is written at the offset, over whatever lies   *)
(* behind it ...                                                           *)
WriteTail == \E s \in SUBSET strays[writer] : strays' = [strays EXCEPT ![writer] = s]

(* ... and the file renamed. *)
Seal == file[writer] = "open" /\ WriteTail /\ file' = [file EXCEPT ![writer] = "sealed"]

(* It fails, for sure if a rotation that failed has renamed the file.  The *)
(* tail stays behind the offset.                                           *)
SealFails ==
  /\ Fault \/ (file[writer] # "open" /\ UNCHANGED counters)
  /\ WriteTail /\ drift' = "torn"

(* A pack is created at the next id.  Its log is opened, not truncated: a  *)
(* log whose pack was unlinked and whose id is given out again stays.      *)
NewPack ==
  /\ NextPackId \in PackIds
  /\ file' = [file EXCEPT ![NextPackId] = "open"]
  /\ frames' = [frames EXCEPT ![NextPackId] = {}]
  /\ strays' = [strays EXCEPT ![NextPackId] = {}]
  /\ lost' = lost \cup {b \in Blobs : log[NextPackId][b] # "none"}

(* rotate_pack fails after the rename: the writer stays on the sealed pack *)
(* and behind its tail; the new file is there or not.                      *)
CreateFails ==
  /\ Fault /\ UNCHANGED boot
  /\ NewPack \/ UNCHANGED <<file, frames, strays, lost>>
  /\ drift' = "torn"

Evicted(bs) == kept' = kept \ bs /\ sure' = sure \ bs

---------------------------------------------------------------------------
(* put: the lock-free look at the index. *)
PutStart(t, b) ==
  /\ Call(t)
  /\ CASE rows[b].state = "live" -> Return(t) /\ Promise(b, rows[b])
       [] rows[b].state = "dead" ->
            /\ Goto(t, [at |-> "revive_log", blob |-> b, pack |-> rows[b].pack])
            /\ UNCHANGED kept
       [] rows[b].state = "absent" ->
            Goto(t, [at |-> "put_lock", blob |-> b]) /\ UNCHANGED kept
  /\ UNCHANGED <<disk, rows, writer, drift, lock, boot, lost, sure, misses>>

(* The writer's offset is 0: the pack was empty and no put filled it. *)
OffsetZero ==
  /\ frames[writer] = {}
  /\ drift # "none" => RowsOf(writer) = {} /\ file[writer] = "open"

(* Frames differ in size: on a pack where a put failed the next one may    *)
(* fit or not.                                                             *)
Rotates ==
  IF drift = "none" THEN {Cardinality(frames[writer]) >= TargetFrames}
  ELSE IF OffsetZero THEN {FALSE} ELSE BOOLEAN

(* Mutant: the second look is dropped. *)
PutLock_NoRecheck(t) ==
  /\ At(t, "put_lock") /\ lock = NoTask
  /\ \E rotate \in Rotates :
       lock' = t /\ Step(t, IF rotate THEN "put_seal" ELSE "put_write")
  /\ UNCHANGED <<disk, rows, writer, drift, ghosts>>

(* The writer is acquired and the index looked at again. *)
PutLock(t) ==
  /\ At(t, "put_lock") /\ lock = NoTask
  /\ LET b == task[t].blob IN
       CASE rows[b].state = "live" -> Return(t) /\ Promise(b, rows[b]) /\ UNCHANGED lock
         [] rows[b].state = "dead" ->
              /\ Goto(t, [at |-> "revive_log", blob |-> b, pack |-> rows[b].pack])
              /\ lock' = t /\ UNCHANGED kept
         [] rows[b].state = "absent" ->
              /\ \E rotate \in Rotates : Step(t, IF rotate THEN "put_seal" ELSE "put_write")
              /\ lock' = t /\ UNCHANGED kept
  /\ UNCHANGED <<disk, rows, writer, drift, lost, sure, misses>>

PutSeal(t) ==
  /\ At(t, "put_seal")
  /\ Seal
  /\ Step(t, "put_create")
  /\ UNCHANGED <<frames, log, rows, writer, drift, lock, ghosts>>

PutSealFails(t) ==
  /\ boot = "up" /\ task[t].at = "put_seal" /\ UNCHANGED boot
  /\ SealFails
  /\ Return(t) /\ Unlock(t)
  /\ UNCHANGED <<file, frames, log, rows, writer, ghosts>>

PutCreate(t) ==
  /\ At(t, "put_create")
  /\ NewPack
  /\ writer' = NextPackId /\ drift' = "none"
  /\ Step(t, "put_write")
  /\ UNCHANGED <<log, rows, lock, kept, sure, misses>>

PutCreateFails(t) ==
  /\ boot = "up" /\ task[t].at = "put_create"
  /\ CreateFails
  /\ Return(t) /\ Unlock(t)
  /\ UNCHANGED <<log, rows, writer, kept, sure, misses>>

(* The frame is written and synced at the end of the file.  With something *)
(* behind the offset that is not where the row will say: only a walk finds *)
(* it, and none does behind torn bytes.  The offset may be that of a frame *)
(* which a failed put of the same bytes has left.                          *)
PutWrite(t) ==
  /\ At(t, "put_write")
  /\ LET b == task[t].blob
         with(f, bs) == [f EXCEPT ![writer] = @ \cup bs]
     IN /\ frames' \in IF drift = "none" THEN {with(frames, {b})}
                       ELSE {frames, with(frames, {b} \cap strays[writer])}
        /\ strays' = IF drift = "whole" THEN with(strays, {b}) ELSE strays
  /\ Step(t, "put_insert")
  /\ UNCHANGED <<file, log, rows, writer, drift, lock, ghosts>>

(* Part of the frame is written and an error ends the put; recovery cuts   *)
(* the torn bytes off, but the writer goes on behind them.                 *)
PutWriteFails(t) ==
  /\ FaultAt(t, "put_write")
  /\ drift' = "torn"
  /\ Return(t) /\ Unlock(t)
  /\ UNCHANGED <<disk, rows, writer, ghosts>>

(* INSERT OR IGNORE, the offset is advanced and the writer released.  A    *)
(* row inserted behind a failed put names the wrong place.                 *)
PutInsert(t) ==
  /\ At(t, "put_insert")
  /\ LET b == task[t].blob IN
       /\ rows' = IF rows[b].state = "absent"
                   THEN [rows EXCEPT ![b] = Row(writer, "live")] ELSE rows
       /\ lost' = IF drift = "none" THEN lost ELSE lost \cup {b}
       /\ Promise(b, rows'[b])
  /\ lock' = NoTask /\ Return(t)
  /\ UNCHANGED <<disk, writer, drift, sure, misses>>

(* The sync or the INSERT fails: the offset stays before the whole frame.  *)
PutInsertFails(t) ==
  /\ FaultAt(t, "put_insert")
  /\ LET b == task[t].blob
         clean == drift = "none"
     IN /\ frames' = [frames EXCEPT ![writer] = IF clean THEN @ \ {b} ELSE @]
        /\ strays' = [strays EXCEPT ![writer] = IF clean THEN @ \cup {b} ELSE @]
        /\ drift' = IF clean THEN "whole" ELSE drift
  /\ Return(t) /\ Unlock(t)
  /\ UNCHANGED <<file, log, rows, writer, ghosts>>

(* A tombstoned row is revived: the log first. *)
ReviveLog(t) ==
  /\ At(t, "revive_log")
  /\ log' = [log EXCEPT ![task[t].pack][task[t].blob] = "revive"]
  /\ Step(t, "revive_update")
  /\ UNCHANGED <<file, frames, strays, rows, writer, drift, lock, ghosts>>

(* A compaction of pack p is past its snapshot. *)
Compacting(p) ==
  \E t \in Tasks :
    /\ task[t].at \in {"gc_open", "gc_copy", "gc_seal", "gc_swap", "gc_unlink"}
    /\ task[t].pack = p

(* What enters pack p will go with it. *)
Doomed(p) == Compacting(p) \/ ~Exists(p)

(* Then the row, if it is still there. *)
ReviveUpdate(t) ==
  /\ At(t, "revive_update")
  /\ LET b == task[t].blob IN
       /\ rows' = IF rows[b].state = "dead" THEN [rows EXCEPT ![b].state = "live"] ELSE rows
       /\ lost' = IF rows[b].state = "dead" /\ Compacting(rows[b].pack)
                   THEN lost \cup {b} ELSE lost
       /\ Promise(b, rows'[b])
  /\ Unlock(t) /\ Return(t)
  /\ UNCHANGED <<disk, writer, drift, sure, misses>>

---------------------------------------------------------------------------
(* tombstone: the live row's pack is looked up. *)
TombstoneStart(t, b) ==
  /\ Call(t) /\ rows[b].state = "live"
  /\ Goto(t, [at |-> "tomb_log", blob |-> b, pack |-> rows[b].pack])
  /\ UNCHANGED <<disk, rows, writer, drift, lock, boot, ghosts>>

TombstoneLog(t) ==
  /\ At(t, "tomb_log")
  /\ log' = [log EXCEPT ![task[t].pack][task[t].blob] = "tombstone"]
  /\ Evicted({task[t].blob})
  /\ Step(t, "tomb_update")
  /\ UNCHANGED <<file, frames, strays, rows, writer, drift, lock, lost, misses>>

TombstoneUpdate(t) ==
  /\ At(t, "tomb_update")
  /\ LET b == task[t].blob IN
       /\ rows' = IF rows[b].state = "live" THEN [rows EXCEPT ![b].state = "dead"] ELSE rows
       /\ Evicted({b})
  /\ Return(t)
  /\ UNCHANGED <<disk, writer, drift, lock, lost, misses>>

Live == {b \in Blobs : rows[b].state = "live"}

(* handle_clear_cache: tombstone_all_live, rotate_open_pack, then a        *)
(* garbage collection.  The live blobs are read with their packs ...       *)
ClearStart(t) ==
  /\ Call(t)
  /\ Goto(t, IF Live = {} THEN [at |-> "clear_lock"]
             ELSE [at |-> "clear_log", todo |-> {<<b, rows[b].pack>> : b \in Live}])
  /\ UNCHANGED <<disk, rows, writer, drift, lock, boot, ghosts>>

(* ... each pack's log gets its batch ... *)
ClearLog(t, p) ==
  /\ At(t, "clear_log")
  /\ LET batch == {b \in Blobs : <<b, p>> \in task[t].todo}
         rest == {x \in task[t].todo : x[2] # p}
     IN /\ batch # {}
        /\ log' = [log EXCEPT ![p] = [b \in Blobs |-> IF b \in batch THEN "tombstone" ELSE @[b]]]
        /\ Evicted(batch)
        /\ Goto(t, IF rest = {} THEN [at |-> "clear_update"]
                   ELSE [at |-> "clear_log", todo |-> rest])
  /\ UNCHANGED <<file, frames, strays, rows, writer, drift, lock, lost, misses>>

(* ... and every live row is tombstoned, later ones too. *)
ClearUpdate(t) ==
  /\ At(t, "clear_update")
  /\ rows' = [b \in Blobs |-> IF b \in Live THEN Row(rows[b].pack, "dead") ELSE rows[b]]
  /\ Evicted(Blobs)
  /\ Step(t, "clear_lock")
  /\ UNCHANGED <<disk, writer, drift, lock, lost, misses>>

(* rotate_open_pack: an empty pack is left alone. *)
ClearLock(t) ==
  /\ At(t, "clear_lock") /\ lock = NoTask
  /\ IF OffsetZero
     THEN Goto(t, [at |-> "gc_next", todo |-> Sealed]) /\ UNCHANGED <<lock, file, strays>>
     ELSE Step(t, "clear_create") /\ lock' = t /\ Seal
  /\ UNCHANGED <<frames, log, rows, writer, drift, ghosts>>

ClearCreate(t) ==
  /\ At(t, "clear_create")
  /\ NewPack
  /\ writer' = NextPackId /\ drift' = "none" /\ lock' = NoTask
  /\ Goto(t, [at |-> "gc_next", todo |-> Sealed])
  /\ UNCHANGED <<log, rows, kept, sure, misses>>

(* A rotation that fails is logged, and the garbage collection follows. *)
ClearLockFails(t) ==
  /\ boot = "up" /\ task[t].at = "clear_lock" /\ lock = NoTask /\ ~OffsetZero
  /\ SealFails
  /\ Goto(t, [at |-> "gc_next", todo |-> Sealed])
  /\ UNCHANGED <<file, frames, log, rows, writer, lock, boot, ghosts>>

ClearCreateFails(t) ==
  /\ boot = "up" /\ task[t].at = "clear_create"
  /\ CreateFails
  /\ lock' = NoTask /\ Goto(t, [at |-> "gc_next", todo |-> Sealed])
  /\ UNCHANGED <<log, rows, writer, kept, sure, misses>>

---------------------------------------------------------------------------
(* run_gc: the sealed packs are listed once. *)
GcStart(t) ==
  /\ Call(t)
  /\ Goto(t, [at |-> "gc_next", todo |-> Sealed])
  /\ UNCHANGED <<disk, rows, writer, drift, lock, boot, ghosts>>

DeadOf(p) == {b \in RowsOf(p) : rows[b].state = "dead"}

(* pack_density against DEFAULT_DENSITY_THRESHOLD, a quarter. *)
Dense(p) == RowsOf(p) = {} \/ 4 * Cardinality(DeadOf(p)) < Cardinality(RowsOf(p))

GcNext(t) ==
  /\ At(t, "gc_next")
  /\ IF task[t].todo = {} THEN Return(t)
     ELSE LET p == Min(task[t].todo)
              rest == task[t].todo \ {p}
          IN Goto(t, IF Dense(p) THEN [at |-> "gc_next", todo |-> rest]
                     ELSE [at |-> "gc_alloc", todo |-> rest, pack |-> p])
  /\ UNCHANGED <<disk, rows, writer, drift, lock, ghosts>>

(* compact_pack: the destination is created under the writer mutex. *)
GcAlloc(t) ==
  /\ At(t, "gc_alloc") /\ lock = NoTask
  /\ NewPack
  /\ Goto(t, [at |-> "gc_snapshot", todo |-> task[t].todo, pack |-> task[t].pack,
              dst |-> NextPackId])
  /\ UNCHANGED <<log, rows, writer, drift, lock, kept, sure, misses>>

(* The live rows are read; those in sound name their frames. *)
GcSnapshot(t) ==
  /\ At(t, "gc_snapshot")
  /\ LET p == task[t].pack
         live == RowsOf(p) \ DeadOf(p)
     IN Goto(t, [at |-> "gc_open", todo |-> task[t].todo, pack |-> p, dst |-> task[t].dst,
                 live |-> live, sound |-> live \cap frames[p]])
  /\ UNCHANGED <<disk, rows, writer, drift, lock, ghosts>>

(* The source is opened; another collection may have unlinked it, which    *)
(* ends this one and leaves its destination behind.                        *)
GcOpen(t) ==
  /\ At(t, "gc_open")
  /\ IF file[task[t].pack] = "sealed" THEN Step(t, "gc_copy") ELSE Return(t)
  /\ UNCHANGED <<disk, rows, writer, drift, lock, ghosts>>

(* The bytes at a row's place are copied if they look like a frame; a row  *)
(* that names the wrong place gets bytes that are not its own, or ends the *)
(* collection.                                                             *)
GcCopy(t) ==
  /\ At(t, "gc_copy")
  /\ LET r == task[t]
         rest == r.sound \ frames[r.dst]
     IN \/ \E b \in rest :
              frames' = [frames EXCEPT ![r.dst] = @ \cup {b}] /\ UNCHANGED task
        \/ rest = {} /\ Step(t, "gc_seal") /\ UNCHANGED frames
        \/ r.live # r.sound /\ Return(t) /\ UNCHANGED frames
  /\ UNCHANGED <<file, strays, log, rows, writer, drift, lock, ghosts>>

GcSeal(t) ==
  /\ At(t, "gc_seal")
  /\ file' = [file EXCEPT ![task[t].dst] = "sealed"]
  /\ Step(t, "gc_swap")
  /\ UNCHANGED <<frames, strays, log, rows, writer, drift, lock, ghosts>>

(* Mutant: the copied rows keep pointing at the source. *)
GcSwap_DeadOnly(t) ==
  /\ At(t, "gc_swap")
  /\ rows' = [b \in Blobs |-> IF b \in DeadOf(task[t].pack) THEN NoRow ELSE rows[b]]
  /\ Step(t, "gc_unlink")
  /\ UNCHANGED <<disk, writer, drift, lock, ghosts>>

(* One transaction: the copied rows move, the source's dead rows go. *)
GcSwap(t) ==
  /\ At(t, "gc_swap")
  /\ LET r == task[t] IN
       rows' = [b \in Blobs |->
                  CASE b \in r.live /\ rows[b].state # "absent" -> Row(r.dst, rows[b].state)
                    [] b \notin r.live /\ b \in DeadOf(r.pack) -> NoRow
                    [] OTHER -> rows[b]]
  /\ lost' = IF Doomed(task[t].dst) THEN lost \cup task[t].live ELSE lost
  /\ Step(t, "gc_unlink")
  /\ UNCHANGED <<disk, writer, drift, lock, kept, sure, misses>>

GcUnlink(t) ==
  /\ At(t, "gc_unlink")
  /\ file' = [file EXCEPT ![task[t].pack] = "none"]
  /\ frames' = [frames EXCEPT ![task[t].pack] = {}]
  /\ strays' = [strays EXCEPT ![task[t].pack] = {}]
  /\ Step(t, "gc_unlink_log")
  /\ UNCHANGED <<log, rows, writer, drift, lock, ghosts>>

GcUnlinkLog(t) ==
  /\ At(t, "gc_unlink_log")
  /\ log' = [log EXCEPT ![task[t].pack] = EmptyLog]
  /\ Goto(t, [at |-> "gc_next", todo |-> task[t].todo])
  /\ UNCHANGED <<file, frames, strays, rows, writer, drift, lock, ghosts>>

---------------------------------------------------------------------------
(* get: the row is read, then the sealed file tried, then the open one. *)
GetStart(t, b) ==
  /\ Call(t)
  /\ Goto(t, [at |-> "get_row", blob |-> b, tries |-> 0, last |-> NoRow.pack])
  /\ sure' = IF \E u \in Tasks : task[u].at \in {"get_row", "get_sealed", "get_open"}
                                  /\ task[u].blob = b
             THEN sure ELSE sure \cup ({b} \cap kept)
  /\ UNCHANGED <<disk, rows, writer, drift, lock, boot, kept, lost, misses>>

GetRow(t) ==
  /\ At(t, "get_row")
  /\ LET r == task[t] IN
       IF rows[r.blob].state # "live" THEN Return(t)
       ELSE Goto(t, [at |-> "get_sealed", blob |-> r.blob, tries |-> r.tries, last |-> r.last,
                     pack |-> rows[r.blob].pack])
  /\ UNCHANGED <<disk, rows, writer, drift, lock, ghosts>>

GetFails(t) == Return(t) /\ misses' = misses \cup ({task[t].blob} \cap sure)

(* The frame is there, or the read fails. *)
GetRead(t) ==
  IF task[t].blob \in frames[task[t].pack] THEN Return(t) /\ UNCHANGED misses
  ELSE GetFails(t)

GetSealed(t) ==
  /\ At(t, "get_sealed")
  /\ IF file[task[t].pack] = "sealed" THEN GetRead(t)
     ELSE Step(t, "get_open") /\ UNCHANGED misses
  /\ UNCHANGED <<disk, rows, writer, drift, lock, kept, lost, sure>>

MaxGetGcRetries == 4

(* Neither file: the row is read again, unless this place failed before or *)
(* the retries are used up.                                                *)
GetOpen(t) ==
  /\ At(t, "get_open")
  /\ LET r == task[t]
         again == /\ r.tries + 1 < MaxGetGcRetries
                  /\ ~(r.tries > 0 /\ r.last = r.pack)
     IN CASE file[r.pack] = "open" -> GetRead(t)
          [] file[r.pack] # "open" /\ again ->
               /\ Goto(t, [at |-> "get_row", blob |-> r.blob, tries |-> r.tries + 1,
                           last |-> r.pack])
               /\ UNCHANGED misses
          [] file[r.pack] # "open" /\ ~again -> GetFails(t)
  /\ UNCHANGED <<disk, rows, writer, drift, lock, kept, lost, sure>>

---------------------------------------------------------------------------
(* An operation that fails before it changed anything ends its call.  A    *)
(* compaction's destination stays behind.                                  *)
Abort(t) ==
  /\ \E s \in {"put_lock", "put_write", "revive_log", "revive_update", "tomb_log", "tomb_update",
               "clear_log", "clear_update", "gc_alloc", "gc_copy", "gc_seal", "gc_swap"} :
       FaultAt(t, s)
  /\ Return(t) /\ Unlock(t)
  /\ UNCHANGED <<disk, rows, writer, drift, ghosts>>

(* The Service dies; what is on disk and in the index stays. *)
Crash ==
  /\ boot = "up" /\ crashes < MaxCrashes
  /\ boot' = "down" /\ crashes' = crashes + 1 /\ UNCHANGED faults
  /\ task' = [t \in Tasks |-> Idle] /\ lock' = NoTask
  /\ UNCHANGED <<disk, rows, writer, drift, calls, ghosts>>

Opens == {p \in PackIds : file[p] = "open"}

(* What a walk of pack p finds. *)
Walk(p) == frames[p] \cup strays[p]

(* An index row for every frame of pack p, the tombstone kept. *)
Reindexed(idx, p) ==
  [b \in Blobs |-> IF b \notin Walk(p) THEN idx[b]
                   ELSE Row(p, IF idx[b].state = "dead" THEN "dead" ELSE "live")]

(* The packs in gone are unlinked with their logs. *)
Without(gone) ==
  /\ file' = [p \in PackIds |-> IF p \in gone THEN "none" ELSE file[p]]
  /\ log' = [p \in PackIds |-> IF p \in gone THEN EmptyLog ELSE log[p]]

(* recover_and_open_current_pack: the lowest open pack is the writer's,    *)
(* the others are unlinked; its frames are indexed, what follows torn      *)
(* bytes is cut off, and the offset is the end of the file.                *)
Recover ==
  /\ boot = "down"
  /\ IF Opens = {}
     THEN NewPack /\ writer' = NextPackId /\ UNCHANGED <<log, rows>>
     ELSE LET w == Min(Opens)
              stale == Opens \ {w}
          IN /\ Without(stale)
             /\ frames' = [p \in PackIds |-> IF p \in stale THEN {}
                                             ELSE IF p = w THEN Walk(w) ELSE frames[p]]
             /\ strays' = [p \in PackIds |-> IF p \in Opens THEN {} ELSE strays[p]]
             /\ writer' = w
             /\ rows' = Reindexed(rows, w)
             /\ lost' = lost \cup {b \in Blobs :
                    IF b \in Walk(w) THEN b \notin RowsOf(w) /\ log[w][b] = "tombstone"
                    ELSE \E p \in stale : b \in RowsOf(p)}
  /\ boot' = "recovered" /\ drift' = "none"
  /\ UNCHANGED <<lock, task, counters, kept, sure, misses>>

(* run_rebuild_index: of the sealed packs that hold b the last decides     *)
(* where it is, and the last log with a record of b whether it is dead.    *)
RebuiltRow(b) ==
  LET holds == {p \in Sealed : b \in Walk(p)}
      says == {p \in Sealed : log[p][b] # "none"}
      place == IF holds = {} THEN rows[b].pack ELSE Max(holds)
      state == CASE says # {} /\ log[Max(says)][b] = "tombstone" -> "dead"
                 [] says # {} /\ log[Max(says)][b] = "revive" -> "live"
                 [] says = {} -> IF rows[b].state = "dead" THEN "dead" ELSE "live"
  IN IF holds = {} /\ rows[b].state = "absent" THEN NoRow ELSE Row(place, state)

(* --rebuild-attachment-index, asked for when the index is damaged.  It    *)
(* runs before the sweep: the source of a compaction that died before its  *)
(* unlink is walked, and its log replayed, like any other pack.            *)
Rebuild ==
  /\ boot = "recovered" /\ boot' = "rebuilt"
  /\ rows' = [b \in Blobs |-> RebuiltRow(b)]
  /\ frames' = [p \in PackIds |-> IF p \in Sealed THEN Walk(p) ELSE frames[p]]
  /\ strays' = [p \in PackIds |-> IF p \in Sealed THEN {} ELSE strays[p]]
  /\ lost' = lost \cup {b \in Blobs : \E p \in Sealed :
                 b \notin RowsOf(p) /\ log[p][b] = "tombstone"}
  /\ UNCHANGED <<file, log, writer, drift, lock, task, counters, kept, sure, misses>>

(* sweep_orphan_sealed_packs, on every boot: the packs in gone are taken   *)
(* for orphans.                                                            *)
Swept(gone) ==
  /\ boot \in {"recovered", "rebuilt"} /\ boot' = "up"
  /\ Without(gone)
  /\ frames' = [p \in PackIds |-> IF p \in gone THEN {} ELSE frames[p]]
  /\ strays' = [p \in PackIds |-> IF p \in gone THEN {} ELSE strays[p]]
  /\ UNCHANGED <<rows, writer, drift, lock, task, calls, crashes, kept, sure, misses>>

Orphans == {p \in Sealed : RowsOf(p) = {}}

(* Mutant: a pack without live rows is an orphan. *)
Sweep_LiveRows ==
  Swept({p \in Sealed : RowsOf(p) = DeadOf(p)}) /\ UNCHANGED <<faults, lost>>

Sweep == Swept(Orphans) /\ UNCHANGED <<faults, lost>>

(* A row count that fails is taken for zero. *)
SweepFails ==
  \E p \in Sealed \ Orphans :
    /\ Swept(Orphans \cup {p})
    /\ Fault
    /\ lost' = lost \cup RowsOf(p)

---------------------------------------------------------------------------
Start(t) ==
  \/ \E b \in Blobs : PutStart(t, b) \/ TombstoneStart(t, b) \/ GetStart(t, b)
  \/ ClearStart(t) \/ GcStart(t)

Put(t) == PutLock(t) \/ PutSeal(t) \/ PutCreate(t) \/ PutWrite(t) \/ PutInsert(t)
          \/ ReviveLog(t) \/ ReviveUpdate(t)
Fail(t) == PutSealFails(t) \/ PutCreateFails(t) \/ PutWriteFails(t) \/ PutInsertFails(t)
           \/ ClearLockFails(t) \/ ClearCreateFails(t) \/ Abort(t)
Evict(t) == TombstoneLog(t) \/ TombstoneUpdate(t) \/ (\E p \in PackIds : ClearLog(t, p))
            \/ ClearUpdate(t) \/ ClearLock(t) \/ ClearCreate(t)
Collect(t) == GcNext(t) \/ GcAlloc(t) \/ GcSnapshot(t) \/ GcOpen(t) \/ GcCopy(t) \/ GcSeal(t)
              \/ GcSwap(t) \/ GcUnlink(t) \/ GcUnlinkLog(t)
Get(t) == GetRow(t) \/ GetSealed(t) \/ GetOpen(t)

Restart == Recover \/ Rebuild \/ Sweep \/ SweepFails

Next ==
  \/ \E t \in Tasks : Start(t) \/ Put(t) \/ Evict(t) \/ Collect(t) \/ Get(t) \/ Fail(t)
  \/ Crash \/ Restart

Spec == Init /\ [][Next]_vars
---------------------------------------------------------------------------
(* The calls: each with what it holds at its steps. *)
Putting == [at : {"put_lock", "put_seal", "put_create", "put_write", "put_insert"}, blob : Blobs]
Marking == [at : {"revive_log", "revive_update", "tomb_log", "tomb_update"},
            blob : Blobs, pack : PackIds]
Clearing == [at : {"clear_log"}, todo : SUBSET (Blobs \X PackIds)]
              \cup [at : {"clear_update", "clear_lock", "clear_create"}]
Choosing == [at : {"gc_next"}, todo : SUBSET PackIds]
              \cup [at : {"gc_alloc"}, todo : SUBSET PackIds, pack : PackIds]
Copying == [at : {"gc_snapshot"}, todo : SUBSET PackIds, pack : PackIds, dst : PackIds]
             \cup [at : {"gc_open", "gc_copy", "gc_seal", "gc_swap", "gc_unlink", "gc_unlink_log"},
                   todo : SUBSET PackIds, pack : PackIds, dst : PackIds, live : SUBSET Blobs,
                   sound : SUBSET Blobs]
Getting == [at : {"get_row"}, blob : Blobs, tries : Nat, last : PackIds]
             \cup [at : {"get_sealed", "get_open"}, blob : Blobs, tries : Nat, last : PackIds,
                   pack : PackIds]
Calling == {Idle} \cup Putting \cup Marking \cup Clearing \cup Choosing \cup Copying \cup Getting

TypeOK ==
  /\ file \in [PackIds -> {"none", "open", "sealed"}]
  /\ frames \in [PackIds -> SUBSET Blobs] /\ strays \in [PackIds -> SUBSET Blobs]
  /\ log \in [PackIds -> [Blobs -> {"none", "tombstone", "revive"}]]
  /\ rows \in [Blobs -> [pack : PackIds, state : {"absent", "live", "dead"}]]
  /\ writer \in PackIds /\ drift \in {"none", "whole", "torn"}
  /\ lock \in Tasks \cup {NoTask}
  /\ task \in [Tasks -> Calling]
  /\ boot \in {"down", "recovered", "rebuilt", "up"}
  /\ kept \subseteq Blobs /\ lost \subseteq Blobs /\ sure \subseteq kept
  /\ misses \subseteq Blobs

Readable(b) ==
  rows[b].state = "live" /\ Exists(rows[b].pack) /\ b \in frames[rows[b].pack]

(* A blob that put accepted stays readable until it is evicted, across     *)
(* rotations, compactions, deaths and rebuilds, unless it met one of the   *)
(* windows that `lost' records: revived in a pack that is being compacted, *)
(* or copied into one that is or is gone; discarded by recovery with an    *)
(* open pack that is not the writer's; buried by the tombstone of a pack   *)
(* it has left, which a rebuild replays or to which recovery points it     *)
(* back; or by the log that a reused pack id inherits; stored behind a     *)
(* put or a rotation that failed, whose offset its row names; or unlinked  *)
(* by a sweep that could not count its pack's rows.                        *)
KeptIsReadable == boot = "up" => \A b \in kept \ lost : Readable(b)

(* Every index row, dead ones too, points at a frame of a pack on disk: a  *)
(* put that revives a row needs no bytes.  Excepted are the rows of blobs  *)
(* that met one of the windows above.                                      *)
RowsAreBacked ==
  boot = "up" => \A b \in Blobs \ lost :
    rows[b].state # "absent" => Exists(rows[b].pack) /\ b \in frames[rows[b].pack]

(* "so they can't collide": the writer and every compaction append to      *)
(* different open packs.  Only a rotation that failed after its rename     *)
(* leaves the writer on a sealed pack.                                     *)
OneAppender ==
  boot = "up" =>
    LET dst == {t \in Tasks : task[t].at \in {"gc_snapshot", "gc_open", "gc_copy", "gc_seal"}}
    IN /\ \A t \in dst : file[task[t].dst] = "open" /\ task[t].dst # writer
       /\ \A t, u \in dst : task[t].dst = task[u].dst => t = u
       /\ lock = NoTask => file[writer] = "open" \/ drift = "torn"

(* The second look at the index closes the race of two puts of the same    *)
(* bytes: a frame is written only if no row exists, so INSERT OR IGNORE    *)
(* never ignores and no frame of an answered put is hidden from the        *)
(* collections.                                                            *)
NoHiddenFrame ==
  \A t \in Tasks : task[t].at \in {"put_write", "put_insert"} => rows[task[t].blob] = NoRow

(* "If the index still points at the same place we already failed to open, *)
(* the file really is gone (not a GC relocation)": a get does not fail on  *)
(* a blob that is kept all the while, whatever rotation and compaction do  *)
(* behind its back.  It may: a pack renamed between the two opens is       *)
(* missed, the row is the same, and the compaction comes before the second *)
(* try.                                                                    *)
GetFinds == misses \subseteq lost
=============================================================================
