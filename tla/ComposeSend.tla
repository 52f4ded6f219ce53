----------------------------- MODULE ComposeSend -----------------------------
(***************************************************************************)
(* One compose window, from its first edit to the mail it sends: the       *)
(* draft write-ahead log the UI appends to and the Service drains at boot, *)
(* the action.send request whose attachments move from the UI's staging    *)
(* directory to the Service's vault, the journaled send job, the worker    *)
(* that runs it, and the completion that closes the window.                *)
(*                                                                         *)
(* The UI, the request handler of each send, the worker and the booting    *)
(* Service interleave.  A request may time out at any moment, a database   *)
(* or WAL write may fail, the Service may die at any step and is then      *)
(* respawned, and the whole application may die and be started again.      *)
(* Reads, renames and unlinks of attachments do not fail, except for a     *)
(* staging directory that is gone.                                         *)
(***************************************************************************)
EXTENDS Naturals, Sequences, FiniteSets

CONSTANTS
    None,
    NAtt,         \* attachments of the mail
    MaxEdits,     \* bound: versions of the text
    MaxSends,     \* bound: send requests of the window
    MaxFaults,    \* bound: failing writes and timed-out requests, together
    MaxCrashes    \* bound: deaths of the Service or of the application

ASSUME ComposeAssumption ==
    /\ None \notin Nat
    /\ None \notin {"pending", "sending", "failed", "Success", "Failed"}
    /\ {NAtt, MaxEdits, MaxSends} \subseteq Nat \ {0}
    /\ {MaxFaults, MaxCrashes} \subseteq Nat

Sends == 1 .. MaxSends
Texts == 0 .. MaxEdits

VARIABLES
    win,       \* the compose window: open, text, draft_dirty, sending
    wal,       \* lines of drafts.wal: a text, or None for an unparseable line
    torn,      \* the last line lacks its newline: a write was cut short
    auto,      \* the local_drafts row of draft_id: its text, or None
    sdraft,    \* sync_status of the row of send_draft_id, or None
    reqs,      \* per send id: the UI's request, its handler, files and job
    tracked,   \* ReadyApp.in_flight_sends
    queries,   \* action.job_status queries under way
    notes,     \* ActionCompleted notifications on their way to the UI
    svc,       \* the Service: up, down, or a boot phase
    w,         \* the worker: its step, its send id and its outcome
    timeouts, faults, crashes,   \* how many of each bound were used
    delivered, \* ghost: how often the provider accepted each send
    saved,     \* ghost: the text of the last append that returned Ok
    swallowed  \* ghost: that append's line is not one a drain will replay

draft == <<wal, torn, auto, saved, swallowed>>
ui    == <<win, tracked, queries>>
vars  == <<draft, ui, sdraft, reqs, notes, svc, w, timeouts, faults, crashes, delivered>>

Idle == [pc |-> "idle", id |-> None, out |-> None]

(* A request that was not made yet. *)
NoReq == [ui |-> "none", h |-> "none", staged |-> FALSE, vault |-> None,
          job |-> "none"]

WriteOk == UNCHANGED faults
WriteFails == faults + timeouts < MaxFaults /\ faults' = faults + 1

LiveJob(s) == reqs[s].job \in {"queued", "executing"}

Init ==
    /\ win = [open |-> TRUE, text |-> 0, dirty |-> FALSE, sending |-> FALSE]
    /\ wal = <<>> /\ torn = FALSE /\ auto = None
    /\ sdraft = None
    /\ reqs = [s \in Sends |-> NoReq]
    /\ tracked = {} /\ queries = {} /\ notes = <<>>
    /\ svc = "up" /\ w = Idle
    /\ timeouts = 0 /\ faults = 0 /\ crashes = 0
    /\ delivered = [s \in Sends |-> 0]
    /\ saved = None /\ swallowed = FALSE

-----------------------------------------------------------------------------
(* The window and its draft *)

(* The user edits, also while the mail is being sent. *)
Edit ==
    /\ win.open /\ win.text < MaxEdits
    /\ win' = [win EXCEPT !.text = @ + 1, !.dirty = TRUE]
    /\ UNCHANGED <<draft, tracked, queries, sdraft, reqs, notes, svc, w,
                   timeouts, faults, crashes, delivered>>

(* draft_wal::append returning Ok: one line, joined to a torn one before    *)
(* it.  A drain that has read to the end and not yet renamed the file takes *)
(* the line away unread; an append that opened the file before the rename   *)
(* and writes after it ends alike, as no step reads the renamed file.       *)
AppendOk ==
    /\ WriteOk
    /\ wal' = IF torn THEN [wal EXCEPT ![Len(wal)] = None] ELSE Append(wal, win.text)
    /\ torn' = FALSE
    /\ saved' = win.text
    /\ swallowed' = (torn \/ svc = "rotate")
    /\ UNCHANGED auto

(* append returning Err: nothing was written, or a part of the line, or all *)
(* of it but the newline, or all of it and a sync failed.                   *)
AppendErr ==
    /\ WriteFails
    /\ \/ UNCHANGED <<wal, torn>>
       \/ \E line \in {win.text, None}, cut \in BOOLEAN :
            /\ line = None => cut
            /\ wal' = IF torn THEN [wal EXCEPT ![Len(wal)] = None] ELSE Append(wal, line)
            /\ torn' = cut
    /\ UNCHANGED <<auto, saved, swallowed>>

(* auto_save_compose_drafts, on the UI's tick. *)
save_compose_draft ==
    /\ win.open /\ win.dirty
    /\ \/ AppendOk /\ win' = [win EXCEPT !.dirty = FALSE]
       \/ AppendErr /\ UNCHANGED win
    /\ UNCHANGED <<tracked, queries, sdraft, reqs, notes, svc, w,
                   timeouts, crashes, delivered>>

(* The window is closed, and stays open when its draft cannot be saved. *)
handle_window_close ==
    /\ win.open
    /\ \/ /\ ~win.dirty
          /\ win' = [win EXCEPT !.open = FALSE]
          /\ UNCHANGED <<draft, faults>>
       \/ win.dirty /\ AppendOk /\ win' = [win EXCEPT !.open = FALSE, !.dirty = FALSE]
       \/ win.dirty /\ AppendErr /\ UNCHANGED win
    /\ UNCHANGED <<tracked, queries, sdraft, reqs, notes, svc, w,
                   timeouts, crashes, delivered>>

CanSend == win.open /\ ~win.sending

(* Send is clicked: the attachments are staged under a new send id, the id  *)
(* is tracked and the request goes out; without a Service it only fails.    *)
dispatch_send ==
    /\ CanSend
    /\ \E s \in Sends :
        /\ reqs[s] = NoReq /\ \A t \in Sends : t < s => reqs[t] # NoReq
        /\ reqs' = [reqs EXCEPT ![s] =
              [NoReq EXCEPT !.ui = "waiting", !.staged = TRUE,
                            !.h = IF svc = "up" THEN "sent" ELSE "dead"]]
        /\ tracked' = tracked \cup {s}
    /\ win' = [win EXCEPT !.sending = TRUE]
    /\ UNCHANGED <<draft, queries, sdraft, notes, svc, w, timeouts, faults,
                   crashes, delivered>>

(* The request's future resolves.  Either way the staging directory goes.   *)
SendAcked(s) ==
    /\ reqs[s].ui = "waiting" /\ reqs[s].h = "done"
    /\ reqs' = [reqs EXCEPT ![s].ui = "acked", ![s].staged = FALSE]
    /\ UNCHANGED <<draft, ui, sdraft, notes, svc, w, timeouts, faults, crashes, delivered>>

(* An error is shown as a failed send; the id stays tracked. *)
RequestError(s) ==
    /\ reqs' = [reqs EXCEPT ![s].ui = "err", ![s].staged = FALSE]
    /\ win' = [win EXCEPT !.sending = FALSE]
    /\ UNCHANGED <<draft, tracked, queries, sdraft, notes, svc, w, faults,
                   crashes, delivered>>

SendRefused(s) ==
    /\ reqs[s].ui = "waiting" /\ reqs[s].h \in {"failed", "dead"}
    /\ RequestError(s)
    /\ UNCHANGED timeouts

SendTimesOut(s) ==
    /\ reqs[s].ui = "waiting" /\ faults + timeouts < MaxFaults
    /\ timeouts' = timeouts + 1
    /\ RequestError(s)

-----------------------------------------------------------------------------
(* The handler of action.send *)

(* The vault directory is made; then the staged files are moved one by one. *)
HandleSend(s) ==
    /\ svc = "up" /\ reqs[s].h = "sent"
    /\ reqs' = [reqs EXCEPT ![s].h = "transfer", ![s].vault = 0]
    /\ UNCHANGED <<draft, ui, sdraft, notes, svc, w, timeouts, faults, crashes, delivered>>

(* A request that timed out has had its staging directory removed: the      *)
(* handler then removes what it moved.                                      *)
verify_and_transfer(s) ==
    /\ svc = "up" /\ reqs[s].h = "transfer"
    /\ reqs' = [reqs EXCEPT ![s] =
          IF reqs[s].staged
          THEN [reqs[s] EXCEPT !.vault = @ + 1,
                   !.h = IF reqs[s].vault + 1 = NAtt THEN "insert" ELSE "transfer"]
          ELSE [reqs[s] EXCEPT !.vault = None, !.h = "failed"]]
    /\ UNCHANGED <<draft, ui, sdraft, notes, svc, w, timeouts, faults, crashes, delivered>>

(* Mutant: The vault is kept when the journal refuses the job. *)
KeepVault(r) == [r EXCEPT !.h = "failed"]

(* What is left of a request that could not be journaled. *)
NotJournaled(r) == [r EXCEPT !.h = "failed", !.vault = None]

insert_quiet_job(s) ==
    /\ svc = "up" /\ reqs[s].h = "insert"
    /\ \/ /\ WriteOk
          /\ reqs' = [reqs EXCEPT ![s].h = "done", ![s].job = "queued"]
       \/ /\ WriteFails
          /\ reqs' = [reqs EXCEPT ![s] = NotJournaled(@)]
    /\ UNCHANGED <<draft, ui, sdraft, notes, svc, w, timeouts, crashes, delivered>>

Handler(s) == HandleSend(s) \/ verify_and_transfer(s) \/ insert_quiet_job(s)

-----------------------------------------------------------------------------
(* The worker, for w.id *)

(* lease_next_ready_quiet_job takes the oldest queued send. *)
Lease ==
    /\ svc = "up" /\ w = Idle
    /\ \E s \in Sends :
        /\ reqs[s].job = "queued"
        /\ \A t \in Sends : t < s => reqs[t].job # "queued"
        /\ reqs' = [reqs EXCEPT ![s].job = "executing"]
        /\ w' = [pc |-> "read", id |-> s, out |-> None]
    /\ UNCHANGED <<draft, ui, sdraft, notes, svc, timeouts, faults, crashes, delivered>>

At(step) == svc = "up" /\ w.pc = step

Goto(step) == w' = [w EXCEPT !.pc = step]
Gives(out, step) == w' = [w EXCEPT !.pc = step, !.out = out]

(* build_send_request reads the vault; a missing file is an error of the    *)
(* worker layer, as is a finalization that fails: no completion is sent.    *)
build_send_request ==
    /\ At("read")
    /\ IF reqs[w.id].vault = NAtt
       THEN Goto("persist") /\ UNCHANGED reqs
       ELSE Goto("error") /\ reqs' = [reqs EXCEPT ![w.id].vault = None]
    /\ UNCHANGED <<draft, ui, sdraft, notes, svc, timeouts, faults, crashes, delivered>>

(* persist_draft_pending_sync and mark_draft_sending_sync. *)
PersistDraft ==
    /\ At("persist")
    /\ \/ /\ WriteOk
          /\ sdraft' = "sending"
          /\ Goto("send")
       \/ WriteFails /\ UNCHANGED sdraft /\ Gives("Failed", "finalize")
    /\ UNCHANGED <<draft, ui, reqs, notes, svc, timeouts, crashes, delivered>>

(* The engine is missing or refuses; the provider accepts; or it accepts    *)
(* and the answer is lost (external).                                       *)
send_message ==
    /\ At("send")
    /\ \/ Gives("Failed", "draft") /\ UNCHANGED delivered
       \/ /\ \E out \in {"Success", "Failed"} : Gives(out, "draft")
          /\ delivered' = [delivered EXCEPT ![w.id] = @ + 1]
    /\ UNCHANGED <<draft, ui, sdraft, reqs, notes, svc, timeouts, faults, crashes>>

(* delete_local_draft or mark_draft_failed, whose failure is ignored. *)
SettleDraft ==
    /\ At("draft")
    /\ \/ /\ WriteOk
          /\ sdraft' = IF w.out = "Success" THEN None
                       ELSE "failed"
       \/ WriteFails /\ UNCHANGED sdraft
    /\ Goto("finalize")
    /\ UNCHANGED <<draft, ui, reqs, notes, svc, timeouts, crashes, delivered>>

(* Mutant: Every send that was run is finalized as completed. *)
AlwaysCompleted(out) == "completed"

TerminalStatus(out) == IF out = "Success" THEN "completed" ELSE "failed"

finalize_job ==
    /\ At("finalize")
    /\ \/ /\ WriteOk
          /\ reqs' = [reqs EXCEPT ![w.id].job = TerminalStatus(w.out)]
          /\ Goto("clean")
       \/ WriteFails /\ UNCHANGED reqs /\ Goto("error")
    /\ UNCHANGED <<draft, ui, sdraft, notes, svc, timeouts, crashes, delivered>>

(* drain_send_jobs after an error of run_send: finalized as failed if the   *)
(* journal lets it, the vault removed, the UI told nothing.                 *)
WorkerError ==
    /\ At("error")
    /\ \/ /\ WriteOk
          /\ reqs' = [reqs EXCEPT ![w.id].job = "failed", ![w.id].vault = None]
       \/ /\ WriteFails
          /\ reqs' = [reqs EXCEPT ![w.id].vault = None]
    /\ w' = Idle
    /\ UNCHANGED <<draft, ui, sdraft, notes, svc, timeouts, crashes, delivered>>

CleanVault ==
    /\ At("clean")
    /\ reqs' = [reqs EXCEPT ![w.id].vault = None]
    /\ Goto("emit")
    /\ UNCHANGED <<draft, ui, sdraft, notes, svc, timeouts, faults, crashes, delivered>>

EmitCompleted ==
    /\ At("emit")
    /\ notes' = Append(notes, [id |-> w.id, ok |-> w.out = "Success"])
    /\ w' = Idle
    /\ UNCHANGED <<draft, ui, sdraft, reqs, svc, timeouts, faults, crashes, delivered>>

Worker ==
    \/ Lease \/ build_send_request \/ PersistDraft \/ send_message \/ SettleDraft
    \/ finalize_job \/ WorkerError \/ CleanVault \/ EmitCompleted

-----------------------------------------------------------------------------
(* Completions at the UI *)

(* A completion of a tracked send closes the window, or makes it editable   *)
(* again; one of an unknown send is dropped.                                *)
Complete(s, ok) ==
    /\ tracked' = tracked \ {s}
    /\ win' = IF s \notin tracked \/ ~win.open THEN win
              ELSE IF ok THEN [win EXCEPT !.open = FALSE]
              ELSE [win EXCEPT !.sending = FALSE]

handle_action_completed ==
    /\ notes # <<>>
    /\ Complete(Head(notes).id, Head(notes).ok)
    /\ notes' = Tail(notes)
    /\ UNCHANGED <<draft, queries, sdraft, reqs, svc, w, timeouts, faults,
                   crashes, delivered>>

(* The answer to a status query: terminal, live, or not journaled. *)
handle_job_status_resolved(s) ==
    /\ svc = "up" /\ s \in queries
    /\ queries' = queries \ {s}
    /\ \/ LiveJob(s) /\ UNCHANGED <<win, tracked>>
       \/ reqs[s].job = "none" /\ tracked' = tracked \ {s} /\ UNCHANGED win
       \/ reqs[s].job \in {"completed", "failed"} /\ Complete(s, reqs[s].job = "completed")
    /\ UNCHANGED <<draft, sdraft, reqs, notes, svc, w, timeouts, faults,
                   crashes, delivered>>

-----------------------------------------------------------------------------
(* Death and boot *)

(* What the requests are after the Service died. *)
Orphaned(r) ==
    IF r.ui = "waiting" \/ r.h \in {"sent", "transfer", "insert"}
    THEN [r EXCEPT !.h = "dead"] ELSE r

(* The draft of a send is persisted in two statements. *)
TornDrafts ==
    {sdraft} \cup (IF w.pc = "persist" THEN {"pending"} ELSE {})

ServiceDown ==
    /\ crashes < MaxCrashes /\ crashes' = crashes + 1
    /\ svc' = "down" /\ w' = Idle
    /\ sdraft' \in TornDrafts
    /\ queries' = {} /\ notes' = <<>>
    /\ UNCHANGED <<draft, timeouts, faults, delivered>>

(* The Service dies and handle_crash bumps the generation: notifications of *)
(* the dead one that were not handled are dropped.                          *)
ServiceDies ==
    /\ svc # "down"
    /\ ServiceDown
    /\ reqs' = [s \in Sends |-> Orphaned(reqs[s])]
    /\ UNCHANGED <<win, tracked>>

(* The application dies, the Service with it, and is started again without  *)
(* the window: nobody waits for its sends.                                  *)
AppDies ==
    /\ win.open \/ tracked # {}
    /\ ServiceDown
    /\ reqs' = [s \in Sends |->
          [Orphaned(reqs[s]) EXCEPT !.ui = IF @ = "waiting" THEN "err" ELSE @]]
    /\ tracked' = {}
    /\ win' = [win EXCEPT !.open = FALSE]

Respawn ==
    /\ svc = "down" /\ svc' = "recover"
    /\ UNCHANGED <<draft, ui, sdraft, reqs, notes, w, timeouts, faults, crashes, delivered>>

(* Mutant: Only jobs under way count as live. *)
LiveUnderWay(jobs) == {s \in Sends : jobs[s] = "executing"}

live_send_job_ids(jobs) == {s \in Sends : jobs[s] \in {"queued", "executing"}}

(* Mutant: Drafts that were being sent are left alone. *)
DraftAsIs(d) == d

resurface_sending(d) == IF d = "sending" THEN "failed" ELSE d

(* Boot's repairs, in order: the drafts being sent, the leases, the vaults.  *)
(* A failing one is logged and boot goes on.                                 *)
BootRecovery ==
    /\ svc = "recover" /\ svc' = "drain"
    /\ \E skip \in {"none", "drafts", "leases"} :
        LET jobs == [s \in Sends |->
                IF reqs[s].job = "executing" /\ skip # "leases"
                THEN "queued" ELSE reqs[s].job]
        IN  /\ IF skip = "none" THEN WriteOk ELSE WriteFails
            /\ sdraft' = IF skip = "drafts" THEN sdraft ELSE resurface_sending(sdraft)
            /\ reqs' = [s \in Sends |-> [reqs[s] EXCEPT
                  !.job = jobs[s],
                  !.vault = IF s \in live_send_job_ids(jobs) THEN @ ELSE None]]
    /\ UNCHANGED <<draft, ui, notes, w, timeouts, crashes, delivered>>

(* Mutant: The first line of a draft wins. *)
FirstLine(lines, row) ==
    IF \E i \in 1 .. Len(lines) : lines[i] # None
    THEN lines[CHOOSE i \in 1 .. Len(lines) :
                  /\ lines[i] # None
                  /\ \A j \in 1 .. (i - 1) : lines[j] = None]
    ELSE row

(* The draft row after the parseable lines were replayed in file order. *)
Replay(lines, row) ==
    IF \E i \in 1 .. Len(lines) : lines[i] # None
    THEN lines[CHOOSE i \in 1 .. Len(lines) :
                  /\ lines[i] # None
                  /\ \A j \in (i + 1) .. Len(lines) : lines[j] = None]
    ELSE row

(* The rows a replay may leave when lines cannot be read or saved: it goes  *)
(* on after a database error and stops at a read error.                     *)
PartReplays(lines, row) == {row} \cup ({lines[i] : i \in 1 .. Len(lines)} \ {None})

(* Mutant: Only sends whose request failed are asked about. *)
QueryUnacked == {s \in tracked : reqs[s].ui = "err"}

(* kickoff_post_respawn_reconcile asks about every tracked send. *)
ReconcileQueries == tracked

ServiceReady == svc' = "up" /\ queries' = ReconcileQueries

(* draft_wal::drain reads to the end of the file, skipping what fails ...   *)
DrainWal ==
    /\ svc = "drain"
    /\ \/ /\ WriteOk
          /\ svc' = "rotate" /\ auto' = Replay(wal, auto)
          /\ UNCHANGED <<swallowed, queries>>
       \/ /\ WriteFails
          /\ svc' = "rotate" /\ auto' \in PartReplays(wal, auto)
          /\ swallowed' = TRUE /\ UNCHANGED queries
       \/ WriteFails /\ ServiceReady /\ UNCHANGED <<auto, swallowed>>
    /\ UNCHANGED <<wal, torn, saved, win, tracked, sdraft, reqs, notes, w,
                   timeouts, crashes, delivered>>

(* ... and renames it, whatever was skipped; the Service is ready. *)
RotateWal ==
    /\ svc = "rotate" /\ ServiceReady
    /\ \/ WriteOk /\ wal' = <<>> /\ torn' = FALSE
       \/ WriteFails /\ UNCHANGED <<wal, torn>>
    /\ UNCHANGED <<auto, saved, swallowed, win, tracked, sdraft, reqs, notes, w,
                   timeouts, crashes, delivered>>

Boot == Respawn \/ BootRecovery \/ DrainWal \/ RotateWal

-----------------------------------------------------------------------------
(* What the UI receives: answers, notifications and failed requests. *)
Receive ==
    \/ handle_action_completed
    \/ \E s \in Sends : SendAcked(s) \/ SendRefused(s) \/ handle_job_status_resolved(s)

Handlers == \E s \in Sends : Handler(s)

Next ==
    \/ Edit \/ save_compose_draft \/ handle_window_close \/ dispatch_send
    \/ Receive
    \/ \E s \in Sends : SendTimesOut(s)
    \/ Handlers \/ Worker
    \/ ServiceDies \/ AppDies \/ Boot

(* Tasks are scheduled, messages arrive and a dead Service is respawned;    *)
(* users, timeouts, failures and deaths need not happen.                    *)
Fairness ==
    /\ WF_vars(Receive) /\ WF_vars(Handlers) /\ WF_vars(Worker) /\ WF_vars(Boot)

Spec == Init /\ [][Next]_vars
FairSpec == Spec /\ Fairness

-----------------------------------------------------------------------------
(* The shape of the state.  A send job is never 'partial', which the live   *)
(* set of the vault cleanup would take for live.                            *)
DraftType ==
    /\ win \in [open : BOOLEAN, text : Texts, dirty : BOOLEAN, sending : BOOLEAN]
    /\ wal \in Seq(Texts \cup {None})
    /\ torn \in BOOLEAN /\ auto \in Texts \cup {None}
    /\ saved \in Texts \cup {None} /\ swallowed \in BOOLEAN
    /\ sdraft \in {None, "pending", "sending", "failed"}

Request == [ui : {"none", "waiting", "acked", "err"},
            h : {"none", "sent", "transfer", "insert", "done", "failed", "dead"},
            staged : BOOLEAN, vault : (0 .. NAtt) \cup {None},
            job : {"none", "queued", "executing", "completed", "failed"}]

WorkerSteps == {"idle", "read", "persist", "send", "draft", "finalize", "error",
                "clean", "emit"}

SendType ==
    /\ reqs \in [Sends -> Request]
    /\ tracked \subseteq Sends /\ queries \subseteq Sends
    /\ notes \in Seq([id : Sends, ok : BOOLEAN])
    /\ svc \in {"up", "down", "recover", "drain", "rotate"}
    /\ w \in [pc : WorkerSteps, id : Sends \cup {None}, out : {None, "Success", "Failed"}]
    /\ timeouts \in Nat /\ faults \in Nat /\ crashes \in Nat
    /\ delivered \in [Sends -> Nat]

TypeOK == DraftType /\ SendType

(* A journaled send that may still be run has all its attachments in the    *)
(* vault, through timeouts that remove the staging directory under the      *)
(* handler, deaths at any step and the boot's orphan cleanup; only a job    *)
(* that two failing writes left unfinalized has lost them.                  *)
VaultComplete == \A s \in Sends : LiveJob(s) /\ faults < 2 => reqs[s].vault = NAtt

(* Once the Service is up, a vault directory belongs to a request in its    *)
(* handler, to a live job or to the job the worker is cleaning up after:    *)
(* no refused, timed out or interrupted send leaves files behind.           *)
NoVaultLitter ==
    svc = "up" => \A s \in Sends :
        reqs[s].vault # None =>
            \/ reqs[s].h \in {"transfer", "insert"} \/ LiveJob(s) \/ w.id = s

(* What the journal says of a send is what happened to it: a completed one  *)
(* was accepted by the provider, and none is submitted twice but by a death *)
(* of the Service.                                                          *)
SubmittedAsJournaled ==
    \A s \in Sends :
        /\ reqs[s].job = "completed" => delivered[s] > 0
        /\ delivered[s] <= 1 + crashes

(* A draft shown as being sent is one the worker is sending: no failed      *)
(* write apart, no death leaves a row 'sending' for ever.                   *)
SendingHasWorker ==
    svc = "up" /\ faults = 0 /\ sdraft = "sending"
    => w.pc \in {"send", "draft"}

(* A text at least as new as the last save. *)
Covers(text) == text # None /\ text >= saved

(* The next boot restores the text of the last save, or a later one whose   *)
(* save was only reported as failed: through torn and half-synced lines,    *)
(* deaths at every step, drains repeated and renames that fail.  Three ways *)
(* to lose a saved line are excepted, as `swallowed`: it was appended       *)
(* between a drain's last read and its rename, or to a line a failed write  *)
(* had torn, or a drain skipped a line that could not be read or saved,     *)
(* which renames the log away as well.                                      *)
SavedTextSurvives == saved # None /\ ~swallowed => Covers(Replay(wal, auto))

(* A window does not show "Sending" for ever, whichever of ack, completion  *)
(* and status answer is lost to a death of the Service; a failed            *)
(* finalization, which tells the UI nothing, excepted.                      *)
SendAnswered == []<>(~(win.open /\ win.sending) \/ faults > 0)

(* "Prevent double-send" (compose_send.rs:23): two sends of the window are  *)
(* never both in the journal waiting to be run or running.                  *)
NoDoubleSend == Cardinality({s \in Sends : LiveJob(s)}) <= 1
=============================================================================
