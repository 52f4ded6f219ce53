# A TLA+ model of Ratatoskr

Ratatoskr is a desktop email client made of two processes: the UI (`crates/app`)
and a Service child (`crates/service`), which talk JSON-RPC over the Service's
stdin and stdout (`crates/service-api`). The Service owns the databases, the
sync engines and every mutation; the UI shows changes optimistically and is told
later what really happened. The Service may die or hang at any moment, and the
UI kills and respawns it.

This directory holds TLA+ modules translated from that code, TLC configurations
that check them on small instances, and TLAPS proofs. `PROJECT.json` maps every
definition to the lines it models, and lists components, runs, mutants,
findings, hazards and theorems.

## 1. Inventory

### How the parts interact

A user action goes UI plan tracking -> `ServiceClient` -> pipe -> request
handler -> journal -> worker -> provider, and its result comes back along two
paths that are not ordered with each other: a *response* resolves the future of
the request, whose message then reaches the UI's update loop; a *notification*
is tagged with the reader's generation, waits in the bounded notification queue,
and is dropped if a newer generation has begun. Sync and calendar completions
leave the reader on a third path, the completion latches.

Boot has two phases: `health.ping` (protocol version), then lock, key, databases,
migrations, pending-operation recovery, stale-lease reset, send-vault cleanup,
queued drafts, draft WAL, startup invariants, `boot.ready`. After every
`boot.ready` but the first the UI reconciles its plans with `action.job_status`.
A worker pass is: drain plans, mark_chat_read jobs, sends, snoozes, pending
operations, park on one `Notify`.

### Components

| Part | State | Operations | What is hard | What makes it correct |
| --- | --- | --- | --- | --- |
| Action journal and worker (`db/action_journal.rs`, `service/actions/worker.rs`) | tables `action_jobs`, `action_job_ops`; the worker's place in its loop; one Notify permit | insert, notify, lease, execute, persist, emit, finalize, sweep, replay, stale-lease reset | every write is its own transaction, so a death falls between any two; a write may fail and the process go on; two pipelines share the outcome column | finalized jobs agree with their operations; nothing runs twice in one incarnation; outcomes before completion; no lost wakeup; every plan is finalized |
| UI plan tracking (`app/handlers/commands.rs`, `app/app.rs`) | `pending_action_plans`: Pending, Acked, AckUnknown; accumulated outcomes | dispatch with account gate, dispatched, outcome, completed, reconcile, job status | a request cut off may or may not be journaled; answers of a dead incarnation | no rollback of a journaled plan; what is shown is what is stored; every plan settles |
| `ServiceClient` (`app/service_client.rs`) | pending requests, generation, installed child, latches | request, timeout, reader, crash handling, respawn | a crash handler racing readers, timeouts and half-polled futures | every request resolves once; stale frames are dropped |
| Notification queue (`app/notification_queue.rs`) | deque, closed flag, two `Notify` | enqueue by class, recv, close | capacity; check-then-await on two Notifys | MustDeliver kept in order; one entry per coalesce key; nobody sleeps for ever |
| Sync runtime (`service/sync.rs`) and calendar runtime (`service/calendar.rs`) | map of supervised runners, marker file per account | start, cancel, cancel and await, run, panic | start, cancel and delete of one account interleave | one run at a time, covered by its marker; quiescent before the delete |
| Account deletion (`service/handlers/account.rs`, `service/accounts/delete.rs`, `service/markers`) | `is_deleting`, deletion marker with the gathered hashes and completed steps | flag, quiesce, gather, five clean-up steps, cascade, resume at boot | a death between any two steps; a step that fails; prefetches, attachment fetches and sync starts that read the flag a moment too early | resumable; the row goes last; nothing of this account is left, and what slips through is found by the next eviction sweep |
| Pending operations (`service/actions/pending.rs`, `db/pending_ops.rs`, label overlay in `queries_extra/label_intent.rs`) | `pending_operations` rows with retry counts, `pending_thread_label_intents` | enqueue (replacing), cancel, drain, retry, give up, recover, sweep | a replaced or cancelled operation already in the drainer's batch; statements torn by a death; syncs with older truth | the last intent is visible and wins; the queue drains; the overlay ends |
| Send pipeline and draft WAL (`app/handlers/pop_out/compose_*.rs`, `app/draft_wal.rs`, `service/handlers/action_send.rs`, `service/send*.rs`, `service/draft_wal.rs`) | staging directories, vault files, a send job, the sender's draft row, `drafts.wal` | stage, transfer, journal, submit, finalize, orphan cleanup; append, drain, rotate | deaths between files and tables; a timeout that races the journaling; torn lines | attachments live exactly as long as their job; a saved text survives; the window is answered |
| Attachment pack store and compaction (`stores/attachment_pack.rs`, `service/gc.rs`) | numbered pack files, a tombstone log per pack, index rows, the writer's open pack | put, get, tombstone, clear, rotate, compact, recover, rebuild, orphan sweep | file operations and index writes interleave across callers; a death between any two | a stored blob stays readable until evicted; no two appenders of a pack |
| Prefetch pipeline (`service/prefetch.rs`), `attachment.fetch` (`service/handlers/attachment.rs`), eviction (`service/eviction.rs`) | cancelling set, in-flight items, attachments rows | fetch, put, recheck, update, cancel; query a page, tombstone it | outrun a deletion; a page that is stale when it is tombstoned | see account deletion |
| Dispatch loop and shutdown drain, resident sync engine and checkpoints, search writer, extract, rebuild, body and inline stores | bounded channels, files, tables | see `PROJECT.json` | drain deadlines; external engines | not modelled, see section 5 |
| Threading, smart folders, rich text, command palette, crypto, views | - | pure or sequential | - | not modelled, reasons in `PROJECT.json` |

## 2. Modules

| Module | Models | Extends |
| --- | --- | --- |
| `ActionJournal` | the journal tables, the insert and notify halves of the handlers, the worker loop, boot's stale-lease reset, account cascade, deaths, failing database calls | - |
| `ActionContract` | what the Service promises for a journaled plan, without worker, leases or program counters | - |
| `ActionJournalContract` | the refinement mapping from the journal to `ActionContract`, and what the simulation needs beside `JournalInv` | `ActionJournal` |
| `ActionJournalProofs` | the journal's theorems and the proof that it implements the contract | `ActionJournalContract`, `TLAPS` |
| `ActionPipeline` | UI plan tracking, `ServiceClient` requests and respawn, the pipe, the handlers, composed with the journal | `ActionJournal` |
| `NotificationQueue` | the bounded queue between reader and UI | - |
| `SyncRuntime` | sync runs of one account: Service map, runs, marker, account deletion's quiescence; UI callers and latches | - |
| `PackStore` | the attachment pack store, its compaction, recovery and rebuild | - |
| `PendingOps` | the retry queue and the label overlay of one thread, with the worker, a sync and the undo path around them | - |
| `ComposeSend` | one compose window: draft WAL, sends, vault, send jobs, completion | - |
| `AccountDelete` | marker-backed account deletion, with prefetch, `attachment.fetch`, sync runs and eviction sweeps around it | - |
| `ActionPipelineProofs` | theorems about the pipeline | `ActionPipeline`, `ActionJournalProofs` |
| `NotificationQueueProofs`, `SyncRuntimeProofs`, `PackStoreProofs`, `PendingOpsProofs`, `ComposeSendProofs`, `AccountDeleteProofs` | theorems about the module each is named after | that module, `TLAPS` |
| `MC*` | instances for TLC | the module they name |

Operators named `X_Y` are mutants of `X`: plausible bugs, used only to show that
the properties can fail.

### ActionJournal

`jobs`, `opStatus`, `outcome` and `created` are the columns that the code reads;
`pc`, `cur`, `target`, `result`, `replaying`, `stranded` are the worker's place in
`run`, `drain_one_pass`, `maybe_finalize`, `replay_unemitted` and their local
variables. Each SQL transaction is one action and each `.await` between two of
them is a point where a handler, the cascade or a death may come in. `DbError`
is a failing call: the action then follows the code's error branch, including
the fallback write of `drain_one_pass` and the case where that fails too. An
outcome is the *type and variant* of the serialized result, since the calendar
pipeline decodes what the mail fallback may have written. `emitted` and `ran` are
history variables of the running incarnation. An error of `run_one` that is no
database error changes what the modelled failure changes; a replayed frame takes
the outcome from the table where the code has it in a list, and outcomes are
final. The statuses `leased` and
`executing` of a job row are one value: no query tells them apart.

### ActionPipeline

`ui` and `shown` are `pending_action_plans` and its outcomes; `waiting`, `asked`
are entries of the request map by method; `replies` the messages of resolved
futures, an unordered set, because each `Task::perform` delivers on its own;
`queue` the notification queue; `wire` the Service's stdout. `conn` says that a
child is installed (`ServiceClient.state`), the journal's `Up` that the process
lives: a dead child may still be installed, and a hung one (missed heartbeat) is
uninstalled before it is killed, so both directions of disagreement occur. On a
crash the frames left in the pipe are lost: the crash may be noticed by the
heartbeat while the reader is blocked on a full queue.

Two timing assumptions stand in for clocks. The UI handles the reply of a
dispatch within the second that a respawn waits (`advance_respawn_backoff`
starts at 1 s), so `Respawn` waits for it; and it handles a `BootReady` within
the 5 s of a request timeout. Without the first one a plan whose ack message is
delayed past the reconcile is never asked about. `Respawn` is the install of the
new child, its handshake and `boot.ready` in one; a boot that ends the program
(another version, a locked data directory) is left out.

### NotificationQueue

Each critical section under the mutex is an action, and so are the creation of a
`Notified` future before it and the await after it: that is where wakeups get
lost. `notify_waiters` reaches futures from their creation on, `notify_one` leaves
a permit; both are tokio's and marked external. A second producer is the reader
of the next incarnation, alive while the old one is still flushing. Ghosts:
`accepted` (MustDeliver notifications in the order they were queued), `evicted`
(what made room for a Drop one) and `received`; `Passed` is what was received and
what is queued, one after the other.

### SyncRuntime

`entry` and `taken` are the account's entry in the runtime's map and whether
`cancel_account_and_await` took its supervisor; `runner` the life of each run:
running, its marker written, completion sent, supervisor ended, or panicked.
`start_account` is two actions, since it reads `is_deleting` before it locks the
map. In the UI a caller is answered (the reader resolves its oneshot) and only
later polled: `ReadAnswer` and `Subscribe` are separate, and completions and
crashes come in between. Every write of the marker may fail, before or after its
rename, and is only logged: a run whose own in-progress marker failed goes on
(`sync.rs:311`) and is in the ghost `unmarked`, which `MarkerCoversRun` excepts. A
read of `is_deleting` that fails counts as FALSE. That the boot unlinks a marker
whose account's state it failed to reset is not modelled. A request may time out (5 s) while its handler goes on, so a
run may complete with nobody waiting; its latched completion then ages past
`LATCHED_COMPLETED_TTL` (30 s), by when its supervisor has ended and whoever was
to be answered with its id has subscribed or timed out. The ghost `stale` has the
callers that were answered before a death and had not subscribed by then: the
death cleared the slots they were to find.

### ActionContract and its refinement

The abstract state is a promise per plan (accepted, a verdict, withdrawn), a
result per operation and what the running Service has told the UI. `promise` is
mapped to the job's status with all statuses under way merged, `results` to the
`outcome` column, `told` to the frames of this incarnation. The contract says
that results and verdicts never change, that a verdict follows from the results,
and that nothing is told that is not stored. A worker that emitted before it
persisted, or finalized before it counted, would not implement it. The outcome
of an operation whose account was deleted under it may still be told.

### PackStore

Each task runs one call; each index access (one hold of the connection) and each
file operation is a step. `frames` holds hashes, not bytes; checksums and
compression are left out, of offsets only is kept whether a row names its frame,
and of a tombstone log the last record per blob, which is the one replay obeys.
Writes, renames and creations of files and statements of the index may fail, and
the call then ends as the code's `?` ends it: a put that fails after it wrote
leaves its bytes behind the writer's offset (`drift`: whole frames, or torn bytes
that end a walk), and frames that no row names the place of are in `strays`, where
a rebuild or a recovery finds them. Reads, half-written log records and failing
unlinks are left out. `kept` is what put promised. An eviction is a
call of `tombstone`; a cache clear is `tombstone_all_live` with its rotation. The
ghost `lost` marks the blobs that met one of the windows the code leaves open:

1. put revives a tombstoned row while its pack is being compacted
   (`attachment_pack.rs:303`): the row stays on the source, which is unlinked. The
   same happens to rows that one compaction swaps into a destination that another
   one, whose list of sealed packs includes it, has begun to compact or removed;
2. recovery takes the lowest `.open` pack for the writer's (`:855`) and unlinks the
   others with their rows, see section 3, known deviations;
3. an index rebuild replays the log of every sealed pack (`boot.rs:1316`), also of
   one the blob has left: its old tombstone buries a blob put again since. The
   pack need not be the source of a compaction that died before its unlink; it
   may still hold other rows. Recovery may point a row back at such a pack;
4. a death between the unlink of a pack and of its log (`:1356`), the orphan sweep
   and the reuse of the id: the new pack inherits the stale log;
5. a put that follows a failed put or a failed rotation into the same pack records
   the offset the failed one did not advance (`:375-396`, `:1012-1016`), so its row
   names another frame's bytes;
6. the orphan sweep takes a row count that failed for zero (`:748`) and unlinks a
   pack that rows point at.

Outside them `KeptIsReadable` and `RowsAreBacked` hold, and are proved. `Promise`
says what put promised, and leaves two answers out although the caller got a
hash: a put that finds its row tombstoned and whose revival comes after a
compaction removed the row updates no row; and a put that finds a live row whose
log already has the tombstone of an eviction that died or failed before its
UPDATE is answered from the row, and the next rebuild replays the tombstone.
`GetFinds` does not hold, see the
findings.

### PendingOps

One thread with two labels of opposite importance, since adding one removes the
other. `rows` is `pending_operations`, `intents` the overlay, `truth` the labels of
the last sync, `remote` the provider's. The worker executes an operation in its
separately committed steps (overlay, provider, then confirm, clear or enqueue and
attach) and drains the queue on each wakeup. `with_write` is a hold of the
connection and not a transaction, so a death may keep the first of its
statements. Backoff is the flag `due`, set by `AnHourPasses`; `TwoDaysPass` ages the
overlay for its sweep. The key of a queued operation has no label: an add of
another label, or its undo, replaces the queued one, whose overlay entry then
waits for the 48 h sweep. A failing write after the dispatch leaves the row
'executing' (`Stuck`) and pins its overlay entry until the next boot; `QueueDrains`
and `OverlayEnds` except such rows. A label operation that writes two overlay
entries writes both or none, although they are two statements. Label groups
and the operation types without an overlay are left out.

### ComposeSend

`win`, `tracked` and `queries` are the UI; `reqs` has per send id the request, its
handler, the staged files, the vault and the job; `w` is the worker in its send
drain; `svc` the Service and its boot phases. `wal` is a sequence of texts in which
a line cut short, or joined to one, is unparseable. Deaths strike the Service or
the whole application. A drain may fail to open the log, to read a line or to save
its text, and then renames the log all the same or leaves it (`draft_wal.rs:76-106`);
the rename may fail; an append may fail before it wrote, in the middle, or after
the whole line when a sync fails. Reads and unlinks of staged and vault files do
not fail, except for a staging directory that is gone. Quitting is a close followed by the death of the
application. `saved` is the text of the last append that returned Ok; `swallowed`
excepts three lines no boot will replay: one appended between the drain's last
read and its rename, one joined to a torn line, and one a failing drain skipped
before it renamed the log. An append that had opened the file before the rename
and writes after it ends like the first. Scheduled sends, the send-intent writeback
and the lease query's failure (see the journal) are left out. `SendAnswered` is
about behaviours without a failing call: a finalization that fails leaves the UI
without an answer until the next respawn.

### AccountDelete

`task` is per account the place in `handle_delete`, `delete_with_marker` and
`drive_steps`; `marker` the file, `mark` the value in memory. Message ids are
abstracted to whether a store still holds anything of the account; inline image
hashes are taken as private. A blob is live, tombstoned or never stored; `refs` are
the attachments rows whose hash is set. A failed step is retried at the next boot
only; an error of one hash's tombstone is only reported. The branch of
`drive_steps` for a marker with all five steps is not modelled: no such marker is
ever written, since the last step unlinks it. A prefetch item that its first check
drops has done nothing, so the check is part of `FetchStart`; `AskFetch`, `AskPut`
and `AskUpdate` are `attachment.fetch` on a cache miss, which reads the flag once
and early. Both read it fail-open (`FlagPasses`). A write of the marker may fail
before or after its rename, and boot may list some of the markers only. A sync run
brings messages and removes them, and a removed message takes its attachments rows
with it (`atts`, `02_mail.sql:296`). The eviction sweep (after boot and after a sync)
queries a page and tombstones it hash by hash; one sweep at a time, without its
page limit, and with a retention window that does not move. Not modelled: two
`account.delete` calls of one account at once, which the handler does not prevent
(both drive the same steps), and other writers of the search index such as
extract's re-index of a message (`extract.rs`), which `CascadeIsLast` therefore says
nothing of.

Ghosts: `escaped` (a sync run that survived the quiesce) and `stray`, the blobs in a
window between a reference and a deletion: the message was removed by a sync; the
account was deleted while an `attachment.fetch`, or a prefetch past its second
check, was under way; two sharers were deleted together and left the blob to each
other; the deletion was marked but neither flagged nor resumed; a death or a
failing call cut a fetch or a tombstone short. `NoOrphanBlob` excepts these, and
`OrphansEnd` says what becomes of them: the sweep of the next start, whose query
takes blobs without any row (`eviction.rs:109`), tombstones them.

## 3. Runs

| Run | Instance | Shows |
| --- | --- | --- |
| `journal` | a calendar plan of two operations and a mark_chat_read job on two accounts, two deaths, two failing calls (a write and its fallback) | `FinalizedIsFaithful`, `OncePerIncarnation`, `CompletionFollowsOutcomes`, `NoLostWakeup`, `TerminalIsFinal`, `EventuallyFinalized` if no call fails, and `ImplementsContract`: the journal refines `ActionContract` |
| `pipeline_ops` | one plan of two operations, one death, one failing call, one timeout | `ShownIsStored`, `StreamedIsWhole`, `NoFalseRollback`: half-streamed plans across a death, a late ack |
| `pipeline_liveness` | one plan, two deaths | `NotForgotten`: a tracked plan has its answer, its completion or a reconciliation to come; `Settles`: every plan is settled, also across a reconcile that is itself cut off |
| `queue` | two readers, capacity 2, all three classes, four notifications | `MustDeliverKept`, `CoalescedOnce`, and no lost wakeup on either side: `NoLostSignal`, `Drains` |
| `sync_runs` | two callers, deletion, one death, any marker write failing | `MarkerCoversRun`, `ReturnsAfterRun`, `WakeupOwed`, `SoleCallerReturns` |
| `packs` | three blobs, two overlapping callers, packs of two frames, five calls, two deaths, one failing operation | `KeptIsReadable`, `RowsAreBacked`, `OneAppender`, `NoHiddenFrame` |
| `pending` | two user operations, one sync, one failing write, one death, two retries, a batch of one | `OneLivePerType`, `OverlayIsOwn`, `ChoiceStaysVisible`, `QueueDrains`, `OverlayEnds` |
| `compose` | two texts, two sends of two attachments, one fault or timeout, one death of the Service or the application | `VaultComplete`, `NoVaultLitter`, `SubmittedAsJournaled`, `SendingHasWorker`, `SavedTextSurvives`, `SendAnswered` |
| `account_delete` | two accounts that share an attachment, any three of deletions, prefetches, attachment fetches and sync runs, sweeps after boot and sync, one death, one failing call | `CascadeIsLast`, `MarkerCoversDeletion`, `NoOrphanBlob`, `OrphansEnd`, `DeletionFinishes` |
| `pending_retry`, `compose_double`, `packs_get` | as `pending`; as `compose` without a death; as `packs` with four calls and no death | violations, see below |

Every module has a `TypeOK` that documents the shape of its state and is the base
of its inductive invariant, and is proved with it.
`ChoiceStaysVisible` and `TerminalIsFinal` are action properties.

Bounds. Two operations are needed for a plan that is half done at a death and
for `partial`; one death for every recovery path, two for a death during
recovery. What the journal's run shows is proved for every set of plans,
liveness excepted, so it has one plan with operations, a calendar one, whose
fallback result is of the other pipeline; mail plans are in the runs of the
pipeline. A queue of two entries is full in most states, and four notifications
wrap it. Two callers share a run, follow each other, or start and cancel. Packs
of two frames are the smallest that a blob can leave while another one keeps
them from the sweep; five calls allow put, evict, compact and put again beside an
overlapping call, one failing operation a put behind a failed one, and two deaths a recovery of what a recovery left. The pipeline
has one plan: plans of one account meet only in the account gate and in the
journal, and what the run checks is proved for any set of plans. Two operations on two opposite labels are the smallest that replace one
another; a batch of one makes a row wait behind another. Two sends are needed
for a second click, two attachments for a vault that is half filled. One shared
attachment and two accounts give every combination of sharing and deleting at
the same time; three requests, two deletions with a fetch, or a deletion with a
sync run and a fetch. Identities beyond that are interchangeable in the code. `queue`,
`sync_runs`, `packs`, `compose*` and `account_delete` turn the deadlock check
off: their requests are finite and a closed queue, a closed window or an idle
store stops. The journal, the pipeline and the retry queue never stop, since the
worker can always be kicked.

Fairness. Weak fairness of the worker, of a handler that has started, of the
reader and of the UI loop: each is a task that its runtime polls again. Weak
fairness of `Boot`/`Respawn`: the UI respawns a dead Service. In `PendingOps` also
of the UI's periodic kick and of the passing of time; in `AccountDelete` of a
deletion that has begun, of the boot's resumption and of an eviction sweep that
was spawned. Deaths, failing calls,
timeouts, user operations, syncs and new requests are not fair. The crash-loop
threshold, after which the UI gives up, lies beyond `MaxCrashes`. A run of
`SyncRuntime` ends: provider calls have timeouts.

### Findings

- `pending_retry`. `process_account_group` takes the thread's in-flight key and
  holds it over `dispatch_pending_op`; the dispatch asks for the same key, gets
  none, and returns Failed("action already in flight for this thread"). The
  module's comment says that the worker "re-dispatches pending ops through the
  action service"; no retry reaches the provider, and each counts as an attempt
  until the operation is given up.
- `compose_double`. "Prevent double-send" checks `state.sending`. A request that
  times out while the Service journals it makes the window editable; a second
  send joins the first in the journal, and both are submitted.
- `packs_get`. "If the index still points at the same place we already failed to
  open, the file really is gone (not a GC relocation)" (`attachment_pack.rs:466`).
  The first miss may be a rotation's, which renames the pack after the sealed and
  before the open path is tried; the row read again is the same, and the
  compaction of that pack swaps and unlinks it before the second open. The get
  returns Io(NotFound) for a blob that is kept, indexed and readable all the while.

### Known deviations

Met while modelling, each confirmed by a TLC trace or by reading the mapped
lines; the properties above except them by name.

- A calendar outcome whose write fails is replaced by a mail result
  (`worker.rs:574`). `maybe_finalize` commits the job's status before it decodes
  the stored results as calendar results, which fails: the promised
  `CalendarActionCompleted` (`cal_action.rs:234`) is never emitted.
- `PlanState::Acked` is documented with "outcomes will arrive via journal replay
  after respawn" (`app.rs:239`). Replay skips finalized jobs; when the Service
  dies after finalizing and before its frames were read, the UI synthesizes the
  completion and fills the outcomes in as LocalOnly, so that a failed operation
  keeps its optimistic change (`shown = "backfill"`).
- Two `start_sync` callers of one run do not both resolve, although
  `service_client.rs:1282` says so: the latch is consumed by the first, the second
  parks on a vacant slot for ever. The same happens to a caller that was answered
  before `handle_crash` cleared the slots and subscribes after, and to one
  answered with a fresh run id that has no runner (an account being deleted).
- `is_deleting` is read before the runtime's lock (`sync.rs:242`): a start that
  read 0 spawns its runner after `account.delete` has quiesced the account
  (`escaped`).
- A sync run whose in-progress marker could not be written is spawned all the same
  (`sync.rs:311`): a death in it leaves no marker for the next boot.
- `pack_store.put` revives a row while its pack is compacted
  (`attachment_pack.rs:303`), and a rebuild replays logs of packs a blob has left
  (`boot.rs:1316`): windows 1 and 3 of section 2.
- A put or rotation that fails half way leaves the writer with a stale offset, or
  on a pack that is sealed already (`attachment_pack.rs:375-396`, `:1012-1016`): the
  next put returns Ok and its blob reads as corrupt until an index rebuild walks
  the pack. The orphan sweep counts rows with `unwrap_or(0)` (`:748`).
- Recovery takes the lowest `.open` pack for the writer's (`attachment_pack.rs:830`,
  `:855`). Once the writer has rotated past a compaction's destination, or past one
  a failed compaction left behind, recovery unlinks the writer's own pack although
  live rows point at it.
- `account.rs:383` says a late prefetch "can no longer outrun" the snapshot. One
  whose reference is written after its second check does, and so does every
  `attachment.fetch`, which has no second check (`handlers/attachment.rs:216`); see
  `stray` in section 2 for the other windows.
- A late prefetch tombstones its blob whoever else refers to it
  (`prefetch.rs:1155`). The comment above it has "the worst case here is a tombstone
  of a blob the deletion step already accounted for"; but put deduplicates, so the
  blob may be another account's, which that step leaves alone. The
  gathered hashes are as stale when they are tombstoned (`delete.rs:108`), and so is
  the eviction page (`eviction.rs:155`). The other account's row then names a
  tombstoned blob and the next open fetches it again.
- A death after `is_deleting` is set and before the marker is written leaves an
  account that every start refuses and no boot resumes.
- A full notification queue drops its oldest entry for a Drop notification even if
  it is MustDeliver; no notification of the wire format has class Drop.
- A plan that becomes AckUnknown by a timeout without a death, and was refused
  afterwards, blocks its account until the next respawn: reconciliation runs on
  `BootReady` only.
- A draft append that lands between the drain's last read and its rename, or that
  is joined to a torn line, returns Ok and is not restored; a drain that fails to
  save a text logs it, goes on, and renames the log away at the end
  (`draft_wal.rs:96-106`) (`swallowed`). Edits made
  while a mail is being sent are dropped when it succeeds; the autosaved row of a
  sent mail is not removed and comes back as a draft.
- A finalization that fails after the provider accepted the mail is journaled as
  failed, and the UI is told nothing until the next respawn.

## 4. Proofs

`ActionJournalProofs` proves for every set of plans, accounts, kinds and
operation counts and every bound on deaths and failing calls:

| Theorem | States |
| --- | --- |
| `JournalInvariant` | `Spec => []JournalInv` |
| `TypeCorrect`, `FinalizedFaithfully`, `LeasesOwned`, `DispatchedOnce`, `OutcomesFirst`, `WakeupsKept` | the journal's invariants, each implied by `JournalInv` |
| `OutcomesAreFinal` | the action property `TerminalIsFinal` |

Assumptions: `PlanAssumption` (typing of the constants, a plan has operations
unless it is quiet), `BoundAssumption`, `NullAssumption`. TLC evaluates them in
every run of the journal and the pipeline.

None of the properties is inductive. That a finalized job agrees with its
operations needs that what the worker holds is still unfinished (`HeldInv`,
`ListInv`: a plan in the sweep list has not been finalized meanwhile, by the
sweep itself or otherwise) and that rows and outcomes live together (`RowInv`).
That nothing runs twice needs that what has run is not pending (`RanInv`). The
lease property needs where in the loop a lease may exist (`LeaseInv`), the wakeup
property that a worker past its plan drain has seen every plan whose permit was
consumed (`WakeInv`), and the order of frames that every stored outcome of an
unfinished job is emitted or still in a list (`FrameInv`: `Decodable`,
`NoneForgotten`, `CompletedLast`). Each conjunct has a lemma with one step per
action that can disturb it; `JournalInvariant` combines them.

The same module proves `JournalImplementsContract`: `Spec => ImplementsContract`,
again for every value of the constants. The initial states map to initial
states; under `JournalInv` and `ContractInv` every step of the journal is a step of
the contract or leaves its variables alone (`Stutters` lists the latter,
`ContractStep` has one step per action of the former). `ContractInv` is needed
because the contract speaks of what is stored when a frame is emitted: an
operation's status agrees with its outcome (`StatusInv`), and what the worker is
about to say is in the tables, or its account is gone (`SayInv`). Both are shown
inductive relative to `JournalInv` (`StatusStep`, `SayStep`).

The other components are proved likewise, each from an inductive invariant of its
own and for every value of its constants; the bounds on calls, deaths, faults and
timeouts are arbitrary naturals, so they bound nothing. TLC checked every
invariant on the instance of its run before it was proved.

| Module | Inductive invariant | Properties proved |
| --- | --- | --- |
| `ActionPipelineProofs` | `PipelineInv` (with `JournalInv`, `ContractInv`) | `NoFalseRollback`, `ShownIsStored`, `StreamedIsWhole` |
| | `PipelineInv` with `TrackInv` | `NotForgotten` |
| `NotificationQueueProofs` | `QueueInv` | `MustDeliverKept`, `CoalescedOnce`, `NoLostSignal` |
| `SyncRuntimeProofs` | `RuntimeInv` | `MarkerCoversRun`, `ReturnsAfterRun`, `WakeupOwed`, `OneRunner` |
| `PackStoreProofs` | `StoreInv` | `KeptIsReadable`, `RowsAreBacked`, `OneAppender`, `NoHiddenFrame` |
| `PendingOpsProofs` | `QueueInv` | `OneLivePerType`, `OverlayIsOwn`, the action property `ChoiceStaysVisible` |
| `ComposeSendProofs` | `ComposeInv` | `VaultComplete`, `NoVaultLitter`, `SubmittedAsJournaled`, `SendingHasWorker`, `SavedTextSurvives` |
| `AccountDeleteProofs` | `DeleteInv` | `CascadeIsLast`, `MarkerCoversDeletion`, `NoOrphanBlob` |

Assumptions: the typing of each module's constants (`TimeoutAssumption`,
`QueueAssumption`, `RuntimeAssumption`, `PackAssumption`, `PendingAssumption`,
`ComposeAssumption`, `DeleteAssumption`), that the null values are none of the
values beside them, that readers, callers, tasks and blobs are finite sets, and that an account prefetches only
what is attached to it. TLC evaluates them in the runs.

Why the strengthening is needed, by module:

- *Pipeline.* A rollback is decided from a message that may be older than
  everything else in the state. `RequestInv` says that a request is in one place
  and an answered one is nowhere else; `RefusalInv` that whatever can still make
  the UI roll back (a refusal frame, a `not_found` answer, an error reply) speaks of
  a plan the journal does not and will not hold; `StoredInv` that every outcome on
  its way is the stored one; `StreamInv` follows the order of outcome and
  completion frames through pipe and queue; `GenerationInv` ties the client's
  generation to the number of deaths, which is why frames of a dead Service
  cannot pass for those of the next.
- *Tracked plans.* `NotForgotten` has no message to start from: it says that one
  is still to come. `ServedInv` covers the plan whose completion may overtake its
  ack: from the moment it is journaled, the job is active or its completion is
  announced, in the pipe or queued for the present generation. `DoneInv` (a
  completion is emitted once per incarnation, of a terminal job) is why announcing
  it puts a frame into the pipe. `AskInv` says that the status of a plan is stated
  once per request and only after the reconciliation that asks for it, so the
  answer a request gets is the one that was read for it; `AckInv`, `CutInv` and
  `FreshInv` that an ack speaks of a journaled plan and that a dispatch is cut off
  only by a death the next child comes after. The second part is about plans whose
  account exists and, for quiet and calendar jobs, whose database calls succeed:
  a failing call may finish those without a completion. It also needs that no
  request timed out, since a timeout without a death starts no reconciliation.
- *Sync runs.* `MapInv` (ids are fresh, only a deletion takes a supervisor) and
  `OneRunner` (a run under way is the one in the map) carry the marker property;
  `CompletionInv` (a completion on the wire or in a latch is that of a run that is
  over) the return property. `MintInv` counts the ids that may still be minted.
  That a completion is not lost is a property of runs nobody waits for yet: the
  answer that names a run may be behind its completion. `LatchInv` says that a run
  nobody was answered with, and may be, is to complete or latched; `ClaimInv` that
  ids in use were minted, so that a new run starts with a vacant slot, and that
  only latched completions age.
- *Notification queue.* `IdInv` and `HeldInv`: an id is given once, and what a
  reader holds was neither queued nor evicted before. `CoalesceInv` is
  `CoalescedOnce` over `Passed`: of two entries of a key the earlier was received,
  so a receive, which moves an entry and keeps its place in `Passed`, cannot
  disturb it. `MustDeliverKept` speaks of positions in `accepted` and `Passed`
  instead of filtered sequences, whose equality would take an induction.
- *Packs.* `WriterInv` and `LockInv` give the open pack to one task at a time;
  `TargetInv` keeps a compaction's destination apart from the writer, from other
  destinations and from every log record still to be written; `SourceInv` says
  that a pack listed for compaction never becomes an append target again;
  `SnapshotInv` that what is live in the source is in the snapshot or lost;
  `KeptInv` that no tombstone lies in wait for a kept blob in the pack it is in.
- *Retry queue.* `BatchInv`: what the drainer fetched is untouched until its turn
  or gone; `EntryInv`: an overlay entry names an older row, and the operation in
  hand none yet; `CountInv` bounds the ids.
- *Compose.* `HandlerInv`, `WorkerInv` and `LitterInv` say who still owns the files
  of a send at each step, `SubmitInv` counts submissions against deaths, `WalInv`
  has the last readable line of the draft log and what the drain did with it.
- *Deletion.* `DriveInv` (the completed steps are a prefix unless one failed),
  `StoreInv` (a completed step has emptied its store for good), `FetchInv`
  and `AskInv` (a prefetch past its second check, or an attachment fetch, that
  meets a plan already read is known to be late), `SharedInv`, `GatherInv`
  and `BuriedInv` (a hash is tombstoned, left to a sharer, or noted as stray).

The attempts corrected the model in three places, each with a TLC trace on a
larger instance:

- `NoOrphanBlob` failed with two faults and two deaths: a deletion whose flag could
  not be written has a marker that a later boot did not get to resume, so the
  second check of a prefetch sees no deletion and its reference goes with the row.
  `FetchRecheck` now records it (`stray`).
- `ChoiceStaysVisible` was an invariant and failed with two syncs: one that agrees
  with the choice clears its overlay entry, and an older truth written after it
  shows while the row still waits. What the code promises is that no *step* flips
  a label that has its entry, and that is the property now.
- `KeptIsReadable` failed with packs of two frames: a rebuild replays the
  tombstone of a pack that still has other rows. `Rebuild`, `Recover` and `GcSwap`
  now record these windows in `lost`, and the run has packs of two frames.

Model-checked only: liveness (`EventuallyFinalized`, `Settles`, `Drains`,
`SoleCallerReturns`, `QueueDrains`, `OverlayEnds`, `SendAnswered`, `OrphansEnd`,
`DeletionFinishes`), since fairness and ENABLED are out of the prover's reach, and
the runs that expect a violation. For four components the safety core of the
liveness property is an invariant of its own and is proved: `NoLostWakeup` of the
journal, `NotForgotten` of the pipeline, `NoLostSignal` of the queue, `WakeupOwed`
of the completion latches. Each says that whoever waits has no reason to wake or
what it waits for on its way; what is left to TLC is that tasks which are polled
again take the steps that follow.

## 5. Not modelled

What a provider does, SQL text, serialization formats, wall-clock times, the
crash-loop threshold and backoff lengths, toasts and undo. `Written`, `Die` and
`Crash`, and tokio's `Notify`, are external: modelled from how the code uses them.

The greater part of the repository's lines is views, layout, the rich text
editor, emoji and other tables, wire types, SQL and queries, provider protocol
helpers and test harnesses, which keep no protocol state a model checker would
add something to. Of the stateful rest, the dispatch loop with its shutdown
drain, the search writer and the resident engine's checkpoints are not modelled
yet: the first is timing against deadlines, the other two are thin layers around
external crates (tantivy, bifrost) whose callbacks decide the interesting orders.
Body and inline image stores are single-statement tables. Reasons per part are in
`PROJECT.json`.

## 6. Plan

1. Done: `ActionJournal`, `ActionContract` and the refinement with proofs;
   `ActionPipeline`, `NotificationQueue`, `SyncRuntime`, `PackStore`, `PendingOps`,
   `ComposeSend`, `AccountDelete`.
2. Done: theorems for every safety property of the passing runs, and for the
   safety cores of four of the liveness properties.
3. The dispatch loop's admission and drain order, the clean-shutdown sentinel and
   the choice of repairs at boot, the respawn supervisor's crash-loop counter.
