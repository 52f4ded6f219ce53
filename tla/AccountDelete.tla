--------------------------- MODULE AccountDelete ---------------------------
(***************************************************************************)
(* account.delete: the handler quiesces the account's writers, gathers     *)
(* what is to be removed, and drives five clean-up steps whose progress a  *)
(* marker file records; boot resumes every marker it finds.  Around it the *)
(* prefetch pipeline and attachment.fetch store attachment bytes for the   *)
(* same accounts, a sync run brings and removes messages, and the eviction *)
(* sweep tombstones what no recent message refers to.  The Service may die *)
(* between any two calls and any call may fail.                            *)
(*                                                                         *)
(* Message ids are abstracted to whether a store still holds anything of   *)
(* the account.  A blob is live, tombstoned ("dead") or was never stored;  *)
(* a reference is an attachments row whose content_hash is set.  An        *)
(* attachment is known by the hash of its bytes.                           *)
(***************************************************************************)
EXTENDS Naturals, Sequences, FiniteSets

CONSTANTS
  Accounts, Hashes,
  Attached,     \* the attachments the messages of an account may have
  Recent,       \* those of messages in the retention window
  Prefetched,   \* those whose bytes are stored already
  NoMarker,
  MaxRequests,  \* bound on account.delete and attachment.fetch calls, prefetched items and sync runs
  MaxCrashes,   \* bound on Service deaths
  MaxFaults     \* bound on failing calls

ASSUME DeleteAssumption ==
  /\ {Attached, Recent, Prefetched} \subseteq [Accounts -> SUBSET Hashes]
  /\ \A a \in Accounts : Recent[a] \cup Prefetched[a] \subseteq Attached[a]
  /\ Hashes # {}
  /\ {MaxRequests, MaxCrashes, MaxFaults} \subseteq Nat

Stores == {"bodies", "inline", "search"}
Order == <<"bodies", "inline", "cache", "search", "cascade">>
Steps == {Order[i] : i \in DOMAIN Order}

(* AccountDeletionMarker: the hashes no other account had, and the steps done. *)
Marker == [hashes : SUBSET Hashes, done : SUBSET Steps]
Gathered(hs) == [hashes |-> hs, done |-> {}]
NoGather == Gathered({})

ASSUME NoMarkerAssumption == NoMarker \notin Marker

TaskStates == {"idle", "flag", "quiesce", "cancel", "gather", "write",
               "step", "hashes", "save", "unlink"}
Stored == {"recheck", "bury", "update"}   \* the bytes are in the pack store
FetchStates == {"idle", "put"} \cup Stored
AskStates == {"idle", "put", "update"}

VARIABLES
  rows,       \* rows of the accounts table
  flagged,    \* accounts with is_deleting = 1
  atts,       \* an account's attachments rows
  refs,       \* those with a content_hash
  blob,       \* the pack store's index per hash
  stores,     \* stores that hold something of an account
  marker,     \* account_delete_markers/<account>.json
  system,     \* "down", "drain" (boot resumes markers), "up"
  listed,     \* markers boot has still to resume
  task,       \* per account: where its deletion is
  at,         \* per account: index of the step it is at
  mark,       \* per account: the marker value it works from
  failed,     \* accounts with a failed step in this drive
  left,       \* per account: hashes it has left to tombstone
  cancelling, \* PrefetchRuntime.cancelling_accounts
  fetch,      \* per account: where its prefetch item is
  item,       \* per account: the hash of that item
  ask,        \* per account: where its attachment.fetch is
  asked,      \* per account: the hash of that call
  sweep,      \* the eviction sweep: "idle", "due" or "walk"
  page,       \* what it has left to tombstone
  runner,     \* per account: "none", "admitted" (start_account has read the flag), "running"
  escaped,    \* ghost: accounts with a run after the quiesce
  stray,      \* ghost: blobs in a window between reference and deletion
  requests, crashes, faults

tables == <<rows, flagged, atts, refs>>
disk == <<blob, stores, marker>>
drive == <<task, at, mark, failed, left>>
prefetch == <<cancelling, fetch, item>>
asking == <<ask, asked>>
eviction == <<sweep, page>>
around == <<prefetch, asking, eviction>>
ghosts == <<escaped, stray>>
budget == <<requests, crashes, faults>>
vars == <<tables, disk, system, listed, drive, around, runner, ghosts, budget>>

Init ==
  /\ rows = Accounts /\ flagged = {} /\ atts = Attached /\ refs = Prefetched
  /\ blob = [h \in Hashes |-> IF \E a \in Accounts : h \in refs[a] THEN "live" ELSE "none"]
  /\ stores = [a \in Accounts |-> Stores]
  /\ marker = [a \in Accounts |-> NoMarker]
  /\ system = "up" /\ listed = {}
  /\ task = [a \in Accounts |-> "idle"] /\ at = [a \in Accounts |-> 1]
  /\ mark = [a \in Accounts |-> NoGather]
  /\ failed = {} /\ left = [a \in Accounts |-> {}]
  /\ cancelling = {} /\ fetch = [a \in Accounts |-> "idle"]
  /\ item = [a \in Accounts |-> CHOOSE h \in Hashes : TRUE]
  /\ ask = [a \in Accounts |-> "idle"] /\ asked = item
  /\ sweep = "idle" /\ page = {}
  /\ runner = [a \in Accounts |-> "none"]
  /\ escaped = {} /\ stray = {}
  /\ requests = 0 /\ crashes = 0 /\ faults \in 0..MaxFaults

Up == system = "up"
Fault == faults < MaxFaults /\ faults' = faults + 1 /\ UNCHANGED <<requests, crashes>>
NoFault == UNCHANGED budget

Go(a, where) == task' = [task EXCEPT ![a] = where]

(* The call is over, with Ok or Err: its locals are gone. *)
Finish(a) ==
  /\ Go(a, "idle") /\ failed' = failed \ {a}
  /\ at' = [at EXCEPT ![a] = 1] /\ mark' = [mark EXCEPT ![a] = NoGather]
Deleting(a) == task[a] # "idle" \/ marker[a] # NoMarker

---------------------------------------------------------------------------
(* The handler: quiesce, gather, mark.                                     *)

(* handle_delete begins; the UI offers the accounts that have a row. *)
DeleteRequest(a) ==
  /\ Up /\ task[a] = "idle" /\ a \in rows /\ requests < MaxRequests
  /\ Go(a, "flag") /\ requests' = requests + 1
  /\ UNCHANGED <<tables, disk, system, listed, at, mark, failed, left, around, runner, ghosts,
                 crashes, faults>>

(* is_deleting = 1; a failing write is logged and the deletion goes on. *)
SetFlag(a) ==
  /\ task[a] = "flag"
  /\ \/ flagged' = flagged \cup ({a} \cap rows) /\ NoFault
     \/ Fault /\ UNCHANGED flagged
  /\ Go(a, "quiesce")
  /\ UNCHANGED <<rows, atts, refs, disk, system, listed, at, mark, failed, left, around, runner, ghosts>>

(* SyncRuntime::cancel_account_and_await; an error is logged only. *)
Quiesce(a) ==
  /\ task[a] = "quiesce"
  /\ \/ /\ runner' = [runner EXCEPT ![a] = IF @ = "running" THEN "none" ELSE @]
        /\ NoFault /\ UNCHANGED escaped
     \/ /\ runner[a] = "running" /\ Fault
        /\ escaped' = escaped \cup {a} /\ UNCHANGED runner
  /\ Go(a, "cancel")
  /\ UNCHANGED <<tables, disk, system, listed, at, mark, failed, left, around, stray>>

(* PrefetchRuntime::cancel_account. *)
CancelPrefetch(a) ==
  /\ task[a] = "cancel"
  /\ cancelling' = cancelling \cup {a}
  /\ Go(a, "gather")
  /\ UNCHANGED <<tables, disk, system, listed, at, mark, failed, left, fetch, item, asking,
                 eviction, runner, ghosts, budget>>

(* The hashes of the account that no row of another account names. *)
Unshared(a) == {h \in refs[a] : \A b \in Accounts \ {a} : h \notin refs[b]}

(* delete_with_marker reads its plan in one hold of the write connection.  *)
(* A blob it leaves to a sharer that is being deleted too may be left by   *)
(* both; a reference that is still to be written, by a prefetch past its   *)
(* second check or by attachment.fetch, is not seen.                        *)
Gather(a) ==
  /\ task[a] = "gather"
  /\ \/ /\ mark' = [mark EXCEPT ![a] = Gathered(Unshared(a))]
        /\ stray' = stray
             \cup {h \in refs[a] : \E b \in Accounts \ {a} : h \in refs[b] /\ Deleting(b)}
             \cup (IF fetch[a] = "update" THEN {item[a]} ELSE {})
             \cup (IF ask[a] # "idle" THEN {asked[a]} ELSE {})
        /\ Go(a, "write") /\ NoFault /\ UNCHANGED <<at, failed>>
     \/ Fault /\ Finish(a) /\ UNCHANGED stray
  /\ UNCHANGED <<tables, disk, system, listed, left, around, runner, escaped>>

(* Mutant: the marker is written once the first step has succeeded. *)
WriteMarker_Later(a) ==
  /\ task[a] = "write"
  /\ Go(a, "step") /\ NoFault
  /\ UNCHANGED <<tables, disk, system, listed, at, mark, failed, left, around, runner, ghosts>>

(* A write that fails has not renamed the new file into place, or has (the *)
(* sync of the directory comes after).                                      *)
WriteMarker(a) ==
  /\ task[a] = "write"
  /\ \/ /\ marker' = [marker EXCEPT ![a] = mark[a]]
        /\ Go(a, "step") /\ NoFault /\ UNCHANGED <<at, mark, failed>>
     \/ Fault /\ Finish(a) /\ marker' \in {marker, [marker EXCEPT ![a] = mark[a]]}
  /\ UNCHANGED <<tables, blob, stores, system, listed, left, around, runner, ghosts>>

---------------------------------------------------------------------------
(* drive_steps.                                                            *)

Step(a) == Order[at[a]]

(* The loop passes the steps the marker has as completed. *)
NextStep(n, m) ==
  CHOOSE i \in n..Len(Order) :
    Order[i] \notin m.done /\ \A j \in n..(i - 1) : Order[j] \in m.done
Advance(a) == at' = [at EXCEPT ![a] = NextStep(@ + 1, mark[a])]

(* Bodies, InlineImages, SearchIndex: a failure is noted, the loop goes on. *)
CleanStore(a) ==
  /\ task[a] = "step" /\ Step(a) \in Stores \ mark[a].done
  /\ \/ /\ stores' = [stores EXCEPT ![a] = @ \ {Step(a)}]
        /\ Go(a, "save") /\ NoFault /\ UNCHANGED <<at, failed>>
     \/ /\ Fault /\ failed' = failed \cup {a} /\ Advance(a)
        /\ UNCHANGED <<stores, task>>
  /\ UNCHANGED <<tables, blob, marker, system, listed, mark, left, around, runner, ghosts>>

(* AttachmentCache; without a PackStore the step fails. *)
CleanCache(a) ==
  /\ task[a] = "step" /\ Step(a) = "cache" /\ "cache" \notin mark[a].done
  /\ \/ /\ left' = [left EXCEPT ![a] = mark[a].hashes]
        /\ Go(a, IF mark[a].hashes = {} THEN "save" ELSE "hashes")
        /\ NoFault /\ UNCHANGED <<at, failed>>
     \/ /\ Fault /\ failed' = failed \cup {a} /\ Advance(a)
        /\ UNCHANGED <<left, task>>
  /\ UNCHANGED <<tables, disk, system, listed, mark, around, runner, ghosts>>

Tombstoned(h) == [blob EXCEPT ![h] = IF @ = "live" THEN "dead" ELSE @]

(* One hash; an error is reported and does not fail the step. *)
TombstoneHash(a) ==
  /\ task[a] = "hashes"
  /\ \E h \in left[a] :
       /\ left' = [left EXCEPT ![a] = @ \ {h}]
       /\ Go(a, IF left[a] = {h} THEN "save" ELSE "hashes")
       /\ \/ blob' = Tombstoned(h) /\ NoFault /\ UNCHANGED stray
          \/ Fault /\ stray' = stray \cup {h} /\ UNCHANGED blob
  /\ UNCHANGED <<tables, stores, marker, system, listed, at, mark, failed, around, runner, escaped>>

(* The step joins completed_steps and the marker is rewritten. *)
SaveStep(a) ==
  /\ task[a] = "save"
  /\ LET m == [mark[a] EXCEPT !.done = @ \cup {Step(a)}] IN
       \/ /\ mark' = [mark EXCEPT ![a] = m] /\ marker' = [marker EXCEPT ![a] = m]
          /\ Go(a, "step") /\ Advance(a) /\ NoFault /\ UNCHANGED failed
       \/ Fault /\ Finish(a) /\ marker' \in {marker, [marker EXCEPT ![a] = m]}
  /\ UNCHANGED <<tables, blob, stores, system, listed, left, around, runner, ghosts>>

(* DELETE FROM accounts and its cascade. *)
DeleteRow(a) ==
  /\ rows' = rows \ {a} /\ flagged' = flagged \ {a}
  /\ atts' = [atts EXCEPT ![a] = {}] /\ refs' = [refs EXCEPT ![a] = {}]

(* Mutant: the cascade does not look at the failures of this drive. *)
Cascade_Ungated(a) ==
  /\ task[a] = "step" /\ Step(a) = "cascade"
  /\ DeleteRow(a) /\ Go(a, "unlink") /\ NoFault
  /\ UNCHANGED <<disk, system, listed, at, mark, failed, left, around, runner, ghosts>>

(* AccountRowCascade: skipped after a failed step; a failing DELETE ends   *)
(* the drive.  The marker stays in both cases.                              *)
Cascade(a) ==
  /\ task[a] = "step" /\ Step(a) = "cascade"
  /\ \/ /\ a \notin failed /\ DeleteRow(a)
        /\ Go(a, "unlink") /\ NoFault /\ UNCHANGED <<at, mark, failed>>
     \/ a \in failed /\ Finish(a) /\ NoFault /\ UNCHANGED tables
     \/ a \notin failed /\ Fault /\ Finish(a) /\ UNCHANGED tables
  /\ UNCHANGED <<disk, system, listed, left, around, runner, ghosts>>

(* Mutant: the file is left for the next boot to find. *)
UnlinkMarker_Keeps(a) ==
  /\ task[a] = "unlink"
  /\ Finish(a) /\ NoFault
  /\ UNCHANGED <<tables, disk, system, listed, left, around, runner, ghosts>>

UnlinkMarker(a) ==
  /\ task[a] = "unlink"
  /\ \/ marker' = [marker EXCEPT ![a] = NoMarker] /\ NoFault
     \/ Fault /\ UNCHANGED marker
  /\ Finish(a)
  /\ UNCHANGED <<tables, blob, stores, system, listed, left, around, runner, ghosts>>

---------------------------------------------------------------------------
(* Death and boot.                                                         *)

(* The bytes are stored, and the reference is still to come. *)
InFlight(a, h) ==
  \/ fetch[a] \in Stored /\ item[a] = h
  \/ ask[a] = "update" /\ asked[a] = h

Crash ==
  /\ system # "down" /\ crashes < MaxCrashes
  /\ crashes' = crashes + 1
  /\ system' = "down" /\ listed' = {}
  /\ task' = [a \in Accounts |-> "idle"] /\ failed' = {}
  /\ at' = [a \in Accounts |-> 1] /\ mark' = [a \in Accounts |-> NoGather]
  /\ left' = [a \in Accounts |-> {}]
  /\ cancelling' = {} /\ fetch' = [a \in Accounts |-> "idle"]
  /\ ask' = [a \in Accounts |-> "idle"]
  /\ sweep' = "idle" /\ page' = {}
  /\ runner' = [a \in Accounts |-> "none"]
  /\ stray' = stray \cup {h \in Hashes : \E a \in Accounts : InFlight(a, h)}
  /\ UNCHANGED <<tables, disk, item, asked, escaped, requests, faults>>

(* drain_pending_deletions lists the markers; an unreadable one is passed  *)
(* over, and a failing listing resumes none.                                *)
BootList ==
  /\ system = "down" /\ system' = "drain"
  /\ LET found == {a \in Accounts : marker[a] # NoMarker} IN
       \/ listed' = found /\ NoFault
       \/ Fault /\ listed' \in SUBSET found
  /\ UNCHANGED <<tables, disk, drive, around, runner, ghosts>>

(* The markers are driven one after the other. *)
BootResume ==
  /\ system = "drain" /\ \A a \in Accounts : task[a] = "idle"
  /\ \E a \in listed :
       /\ listed' = listed \ {a}
       /\ mark' = [mark EXCEPT ![a] = marker[a]] /\ Go(a, "step")
       /\ at' = [at EXCEPT ![a] = NextStep(1, marker[a])]
  /\ UNCHANGED <<tables, disk, system, failed, left, around, runner, ghosts, budget>>

(* boot.ready; the startup sweep is spawned. *)
BootDone ==
  /\ system = "drain" /\ listed = {} /\ \A a \in Accounts : task[a] = "idle"
  /\ system' = "up" /\ sweep' = "due"
  /\ UNCHANGED <<tables, disk, listed, drive, prefetch, asking, page, runner, ghosts, budget>>

---------------------------------------------------------------------------
(* The prefetch pipeline, attachment.fetch, the sync runner and eviction.  *)

To(a, where) == fetch' = [fetch EXCEPT ![a] = where]
Cached(a, h) == h \in refs[a] /\ blob[h] = "live"

(* A read of is_deleting that lets the caller pass: a failing one counts as *)
(* not set.                                                                 *)
FlagPasses(a) ==
  \/ a \notin flagged /\ UNCHANGED faults
  \/ a \in flagged /\ faults < MaxFaults /\ faults' = faults + 1

(* The plan of the deletion has been read. *)
Planned(a) ==
  task[a] \notin {"idle", "flag", "quiesce", "cancel", "gather"} \/ marker[a] # NoMarker

(* An item is taken, its bytes are fetched and the first check lets it     *)
(* pass; an item that is dropped there has done nothing.                    *)
FetchStart(a) ==
  /\ Up /\ fetch[a] = "idle" /\ requests < MaxRequests
  /\ a \notin cancelling /\ FlagPasses(a)
  /\ \E h \in atts[a] \cap Recent[a] :
       /\ ~Cached(a, h)
       /\ item' = [item EXCEPT ![a] = h]
  /\ To(a, "put") /\ requests' = requests + 1
  /\ UNCHANGED <<tables, disk, system, listed, drive, cancelling, asking, eviction, runner, ghosts,
                 crashes>>

Revived(h) == [blob EXCEPT ![h] = "live"]

(* PackStore::put; an item whose put fails is dropped. *)
FetchPut(a) ==
  /\ fetch[a] = "put"
  /\ \/ blob' = Revived(item[a]) /\ To(a, "recheck") /\ NoFault
     \/ Fault /\ To(a, "idle") /\ UNCHANGED blob
  /\ UNCHANGED <<tables, stores, marker, system, listed, drive, cancelling, item, asking, eviction,
                 runner, ghosts>>

(* Mutant: no second look after the put. *)
FetchRecheck_None(a) ==
  /\ fetch[a] = "recheck"
  /\ To(a, "update")
  /\ UNCHANGED <<tables, disk, system, listed, drive, cancelling, item, asking, eviction, runner,
                 ghosts, budget>>

(* After the put.  The check does not see a deletion whose flag could not  *)
(* be written, or read, and whose marker a later boot did not get to       *)
(* resume.                                                                  *)
FetchRecheck(a) ==
  /\ fetch[a] = "recheck"
  /\ \/ a \in cancelling \cup flagged /\ To(a, "bury") /\ UNCHANGED <<stray, faults>>
     \/ /\ a \notin cancelling /\ FlagPasses(a) /\ To(a, "update")
        /\ stray' = IF marker[a] # NoMarker THEN stray \cup {item[a]} ELSE stray
  /\ UNCHANGED <<tables, disk, system, listed, drive, cancelling, item, asking, eviction, runner,
                 escaped, requests, crashes>>

(* The late blob is tombstoned, whoever else refers to it; an error is logged. *)
FetchBury(a) ==
  /\ fetch[a] = "bury"
  /\ \/ blob' = Tombstoned(item[a]) /\ NoFault /\ UNCHANGED stray
     \/ Fault /\ stray' = stray \cup {item[a]} /\ UNCHANGED blob
  /\ To(a, "idle")
  /\ UNCHANGED <<tables, stores, marker, system, listed, drive, cancelling, item, asking, eviction,
                 runner, escaped>>

(* update_attachment_cache_fields: an UPDATE, of no row once the row is gone. *)
WriteRef(a, h) ==
  \/ /\ refs' = [refs EXCEPT ![a] = @ \cup ({h} \cap atts[a])]
     /\ NoFault /\ UNCHANGED stray
  \/ Fault /\ stray' = stray \cup {h} /\ UNCHANGED refs

FetchUpdate(a) ==
  /\ fetch[a] = "update"
  /\ WriteRef(a, item[a]) /\ To(a, "idle")
  /\ UNCHANGED <<rows, flagged, atts, disk, system, listed, drive, cancelling, item, asking,
                 eviction, runner, escaped>>

AskTo(a, where) == ask' = [ask EXCEPT ![a] = where]

(* handle_fetch on a miss: is_deleting is read once, before the bytes are  *)
(* fetched.                                                                 *)
AskFetch(a) ==
  /\ Up /\ ask[a] = "idle" /\ requests < MaxRequests
  /\ FlagPasses(a)
  /\ \E h \in atts[a] :
       /\ ~Cached(a, h)
       /\ asked' = [asked EXCEPT ![a] = h]
       /\ stray' = IF Planned(a) THEN stray \cup {h} ELSE stray
  /\ AskTo(a, "put") /\ requests' = requests + 1
  /\ UNCHANGED <<tables, disk, system, listed, drive, prefetch, eviction, runner, escaped, crashes>>

AskPut(a) ==
  /\ ask[a] = "put"
  /\ \/ blob' = Revived(asked[a]) /\ AskTo(a, "update") /\ NoFault
     \/ Fault /\ AskTo(a, "idle") /\ UNCHANGED blob
  /\ UNCHANGED <<tables, stores, marker, system, listed, drive, prefetch, asked, eviction, runner,
                 ghosts>>

AskUpdate(a) ==
  /\ ask[a] = "update"
  /\ WriteRef(a, asked[a]) /\ AskTo(a, "idle")
  /\ UNCHANGED <<rows, flagged, atts, disk, system, listed, drive, prefetch, asked, eviction, runner,
                 escaped>>

(* The deletion has put the account's runs behind it. *)
Quiesced(a) ==
  task[a] \notin {"idle", "flag", "quiesce"} \/ marker[a] # NoMarker \/ a \notin rows

(* start_account reads is_deleting, then takes the accounts lock. *)
SyncAdmit(a) ==
  /\ Up /\ runner[a] = "none" /\ a \in rows \ flagged /\ requests < MaxRequests
  /\ runner' = [runner EXCEPT ![a] = "admitted"] /\ requests' = requests + 1
  /\ UNCHANGED <<tables, disk, system, listed, drive, around, ghosts, crashes, faults>>

SyncSpawn(a) ==
  /\ runner[a] = "admitted"
  /\ runner' = [runner EXCEPT ![a] = "running"]
  /\ escaped' = IF Quiesced(a) THEN escaped \cup {a} ELSE escaped
  /\ UNCHANGED <<tables, disk, system, listed, drive, around, stray, budget>>

(* The run stores bodies, images and documents of new messages.  The       *)
(* messages it removes take their attachments rows with them, and the       *)
(* blobs stay.                                                              *)
SyncWrite(a) ==
  /\ runner[a] = "running"
  /\ stores' = [stores EXCEPT ![a] = Stores]
  /\ \E now \in SUBSET (IF a \in rows THEN Attached[a] ELSE {}) :
       /\ atts' = [atts EXCEPT ![a] = now]
       /\ refs' = [refs EXCEPT ![a] = @ \cap now]
       /\ stray' = stray \cup (atts[a] \ now)
  /\ UNCHANGED <<rows, flagged, blob, marker, system, listed, drive, around, runner, escaped, budget>>

(* A run that ends well, with caching on, spawns the post-sync sweep. *)
SyncEnd(a) ==
  /\ runner[a] = "running"
  /\ runner' = [runner EXCEPT ![a] = "none"]
  /\ sweep' \in {sweep, IF sweep = "idle" THEN "due" ELSE sweep}
  /\ UNCHANGED <<tables, disk, system, listed, drive, prefetch, asking, page, ghosts, budget>>

(* Mutant: only blobs that an attachments row names are looked at. *)
Evictable_Named ==
  {h \in Hashes : /\ blob[h] = "live"
                  /\ \E a \in Accounts : h \in refs[a]
                  /\ \A a \in Accounts : h \notin refs[a] \cap Recent[a]}

(* Live blobs that no message in the retention window refers to. *)
Evictable == {h \in Hashes : blob[h] = "live" /\ \A a \in Accounts : h \notin refs[a] \cap Recent[a]}

(* run_eviction_sweep queries a page and then tombstones it hash by hash;  *)
(* a failing query ends the sweep, a failing tombstone is passed over.      *)
EvictQuery ==
  /\ sweep = "due"
  /\ \/ page' = Evictable /\ NoFault
     \/ Fault /\ UNCHANGED page
  /\ sweep' = IF page' = {} THEN "idle" ELSE "walk"
  /\ UNCHANGED <<tables, disk, system, listed, drive, prefetch, asking, runner, ghosts>>

EvictHash ==
  /\ sweep = "walk"
  /\ \E h \in page :
       /\ page' = page \ {h}
       /\ \/ blob' = Tombstoned(h) /\ NoFault
          \/ Fault /\ UNCHANGED blob
  /\ sweep' = IF page' = {} THEN "idle" ELSE "walk"
  /\ UNCHANGED <<tables, stores, marker, system, listed, drive, prefetch, asking, runner, ghosts>>

---------------------------------------------------------------------------
TaskStep(a) ==
  \/ SetFlag(a) \/ Quiesce(a) \/ CancelPrefetch(a) \/ Gather(a) \/ WriteMarker(a)
  \/ CleanStore(a) \/ CleanCache(a) \/ TombstoneHash(a)
  \/ SaveStep(a) \/ Cascade(a) \/ UnlinkMarker(a)

BootStep == BootList \/ BootResume \/ BootDone

FetchStep(a) ==
  \/ FetchStart(a) \/ FetchPut(a) \/ FetchRecheck(a) \/ FetchBury(a)
  \/ FetchUpdate(a)

AskStep(a) == AskFetch(a) \/ AskPut(a) \/ AskUpdate(a)

EvictStep == EvictQuery \/ EvictHash

SyncStep(a) == SyncAdmit(a) \/ SyncSpawn(a) \/ SyncWrite(a) \/ SyncEnd(a)

Next ==
  \/ \E a \in Accounts :
       DeleteRequest(a) \/ TaskStep(a) \/ FetchStep(a) \/ AskStep(a) \/ SyncStep(a)
  \/ BootStep \/ EvictStep \/ Crash

(* A deletion that has begun and a sweep that is due are polled to their   *)
(* end, and the UI respawns a dead Service.                                 *)
Fairness ==
  WF_vars(\E a \in Accounts : TaskStep(a)) /\ WF_vars(BootStep) /\ WF_vars(EvictStep)

Spec == Init /\ [][Next]_vars /\ Fairness

---------------------------------------------------------------------------
(* Properties.                                                             *)

TablesType ==
  /\ rows \subseteq Accounts /\ flagged \subseteq rows
  /\ {atts, refs} \subseteq [Accounts -> SUBSET Hashes]
  /\ \A a \in Accounts :
       refs[a] \subseteq atts[a] /\ atts[a] \subseteq Attached[a] /\ (a \notin rows => atts[a] = {})

DiskType ==
  /\ blob \in [Hashes -> {"none", "live", "dead"}]
  /\ stores \in [Accounts -> SUBSET Stores]
  /\ marker \in [Accounts -> Marker \cup {NoMarker}]

DriveType ==
  /\ task \in [Accounts -> TaskStates] /\ at \in [Accounts -> DOMAIN Order]
  /\ mark \in [Accounts -> Marker] /\ failed \subseteq Accounts
  /\ left \in [Accounts -> SUBSET Hashes]

PrefetchType ==
  /\ cancelling \subseteq Accounts /\ fetch \in [Accounts -> FetchStates]
  /\ item \in [Accounts -> Hashes]

AroundType ==
  /\ ask \in [Accounts -> AskStates] /\ asked \in [Accounts -> Hashes]
  /\ sweep \in {"idle", "due", "walk"} /\ page \subseteq Hashes

TypeOK ==
  /\ TablesType /\ DiskType /\ DriveType /\ PrefetchType /\ AroundType
  /\ system \in {"down", "drain", "up"} /\ listed \subseteq Accounts
  /\ runner \in [Accounts -> {"none", "admitted", "running"}]
  /\ escaped \subseteq Accounts /\ stray \subseteq Hashes

(* The row goes last: once the account is gone no store holds anything of  *)
(* it, whatever steps failed, died or were resumed before, unless a run    *)
(* escaped the quiesce (drive_steps' gate on the cascade).                  *)
CascadeIsLast ==
  \A a \in Accounts \ (rows \cup escaped) : stores[a] = {}

(* A deletion that has removed anything has its marker on disk until the   *)
(* row is gone, so that a death at any point is resumed                     *)
(* (delete_with_marker, drain_pending_deletions).                           *)
MarkerCoversDeletion ==
  \A a \in rows : stores[a] # Stores => marker[a] # NoMarker

(* A live blob has a reference, or a fetch that has just stored it, also    *)
(* after the accounts that had it are gone: the second look of              *)
(* run_item_pipeline keeps a late prefetch from outrunning the snapshot of  *)
(* delete_with_marker.  `stray' has the windows that are left: the message  *)
(* was removed by a sync; the account was deleted while attachment.fetch,   *)
(* or a prefetch past its second check, was under way; two accounts that    *)
(* share it were deleted together; the deletion was marked and neither      *)
(* flagged nor resumed; a death or a failing call cut a fetch or a          *)
(* tombstone short.                                                         *)
NoOrphanBlob ==
  \A h \in Hashes \ stray : blob[h] = "live" =>
    \E a \in Accounts : h \in refs[a] \/ InFlight(a, h)

Orphan(h) == blob[h] = "live" /\ \A a \in Accounts : h \notin refs[a]

(* Whatever window left it behind, no blob without a reference outlives    *)
(* the next start: the startup sweep tombstones it (run_eviction_sweep's    *)
(* NOT EXISTS), or a fetch refers to it again, if no call fails after that. *)
OrphansEnd ==
  \A h \in Hashes : (system = "down" /\ Orphan(h) /\ faults = MaxFaults) ~> ~Orphan(h)

(* A marked deletion is finished, however often the Service dies, if no    *)
(* call fails.                                                              *)
DeletionFinishes ==
  []<>(faults > 0 \/ \A a \in Accounts : marker[a] = NoMarker)
=============================================================================
