--------------------------- MODULE ActionJournal ---------------------------
(***************************************************************************)
(* The Service's durable action journal (tables action_jobs and            *)
(* action_job_ops) and the single action worker that drains it.            *)
(*                                                                         *)
(* Request handlers insert plans and set the worker's wakeup permit.  The  *)
(* worker replays what an earlier incarnation left unemitted, sweeps       *)
(* stranded jobs, then leases, executes, persists, emits and finalizes one *)
(* operation at a time.  Every write is a transaction of its own, so the   *)
(* Service may die between any two of them; a write may also fail and      *)
(* leave the process running.  Boot resets every lease.                    *)
(*                                                                         *)
(* An operation is a pair <<plan, ordinal>>.  A frame is a notification    *)
(* handed to the stdout writer; `emitted' holds the frames of the running  *)
(* incarnation only.                                                       *)
(***************************************************************************)
EXTENDS Naturals, FiniteSets

CONSTANTS
  Plans,        \* plan ids (UUIDv7, fresh for every dispatch)
  Accounts,     \* account ids
  AccountOf,    \* the single account a plan is scoped to
  KindOf,       \* action_jobs.kind of a plan
  NumOps,       \* number of operations of a plan (0 for a quiet job)
  Times,        \* values unixepoch() may return for created_at
  NoOp, NoPlan, \* the worker holds no operation, finalizes no plan
  MaxCrashes,   \* bound on Service deaths
  MaxFaults     \* bound on failing database calls

Kinds == {"mail_plan", "calendar_plan", "mark_chat_read"}

ASSUME PlanAssumption ==
  /\ AccountOf \in [Plans -> Accounts]
  /\ KindOf \in [Plans -> Kinds]
  /\ NumOps \in [Plans -> Nat]
  /\ \A p \in Plans : NumOps[p] = 0 <=> KindOf[p] = "mark_chat_read"
  /\ Times \subseteq Nat /\ Times # {}

ASSUME BoundAssumption == MaxCrashes \in Nat /\ MaxFaults \in Nat

Op == UNION {{p} \X (1..NumOps[p]) : p \in Plans}
OpsOf(p) == {o \in Op : o[1] = p}

ASSUME NullAssumption == NoPlan \notin Plans /\ NoOp \notin Op

(* What batch_execute may report, as the serialized result the journal     *)
(* stores.  The two pipelines serialize different types under one column.  *)
MailBlobs == {"success", "local_only", "remote_failure", "conflict_rejected"}
CalBlobs == {"cal_success", "cal_local_only", "cal_failed"}
Blobs == MailBlobs \cup CalBlobs

ResultsOf(p) == IF KindOf[p] = "calendar_plan" THEN CalBlobs ELSE MailBlobs

(* OpTerminalStatus written next to a blob. *)
StatusOf(blob) ==
  CASE blob \in {"success", "local_only", "cal_success", "cal_local_only"} -> "done"
    [] blob \in {"remote_failure", "cal_failed"} -> "failed"
    [] blob = "conflict_rejected" -> "conflict"

OpTerminal == {"done", "failed", "conflict"}
OpLive == {"pending", "leased"}
JobTerminal == {"completed", "partial", "failed"}
JobActive == {"queued", "executing"}
\* "absent": never inserted; "deleted": removed by the account cascade.
JobStates == {"absent", "deleted"} \cup JobActive \cup JobTerminal
OpStates == {"absent"} \cup OpLive \cup OpTerminal

WorkerStates == {"down", "start", "replay", "sweep_read", "sweep", "lease", "execute",
                 "persist", "fallback", "emit", "finalize", "complete",
                 "quiet_lease", "quiet_run", "quiet_finalize",
                 "quiet_fallback", "quiet_complete", "park"}

OutcomeFrame(o, b) == [type |-> "outcome", op |-> o, blob |-> b]
CompletedFrame(p) == [type |-> "completed", plan |-> p]
Frames == {OutcomeFrame(o, b) : o \in Op, b \in Blobs}
            \cup {CompletedFrame(p) : p \in Plans}

VARIABLES
  jobs,       \* action_jobs.status per plan
  opStatus,   \* action_job_ops.status per operation
  outcome,    \* action_job_ops.outcome per operation ("null" while NULL)
  created,    \* action_jobs.created_at per plan
  accounts,   \* rows of the accounts table
  pc,         \* where the worker is
  cur,        \* the operation it holds, or NoOp
  target,     \* the plan it finalizes, or NoPlan
  result,     \* the outcome it is about to persist
  replaying,  \* operations it has left to replay
  stranded,   \* plans it has left to sweep
  permit,     \* the Notify permit
  handling,   \* plans journaled by a handler that has not yet notified
  emitted,    \* frames emitted by this incarnation
  ran,        \* operations dispatched by this incarnation
  crashes, faults

db == <<jobs, opStatus, outcome, created, accounts>>
held == <<cur, target, result>>
lists == <<replaying, stranded>>
worker == <<pc, held, lists>>
signals == <<permit, handling>>
history == <<emitted, ran>>
budget == <<crashes, faults>>
vars == <<db, worker, signals, history, budget>>

Init ==
  /\ jobs = [p \in Plans |-> "absent"]
  /\ opStatus = [o \in Op |-> "absent"]
  /\ outcome = [o \in Op |-> "null"]
  /\ created = [p \in Plans |-> 0]
  /\ accounts = Accounts
  /\ pc = "down" /\ cur = NoOp /\ target = NoPlan /\ result = "null"
  /\ replaying = {} /\ stranded = {}
  /\ permit = FALSE /\ handling = {} /\ emitted = {} /\ ran = {}
  /\ crashes = 0 /\ faults = 0

Up == pc # "down"

(* A database call that fails: the caller sees Err, nothing is written.    *)
DbError == faults < MaxFaults /\ faults' = faults + 1 /\ UNCHANGED crashes

---------------------------------------------------------------------------
(* Request handlers.                                                       *)

(* insert_mail_plan, insert_calendar_plan and insert_quiet_job: job row and *)
(* operation rows in one transaction, stamped with the wall clock.          *)
InsertPlan(p) ==
  /\ Up /\ jobs[p] = "absent" /\ AccountOf[p] \in accounts
  /\ jobs' = [jobs EXCEPT ![p] = "queued"]
  /\ opStatus' = [o \in Op |-> IF o[1] = p THEN "pending" ELSE opStatus[o]]
  /\ \E t \in Times : created' = [created EXCEPT ![p] = t]
  /\ handling' = handling \cup {p}
  /\ UNCHANGED <<outcome, accounts, worker, permit, history, budget>>

(* Mutant: notify_waiters, which retains no permit for a busy worker. *)
NotifyWorker_NoPermit(p) ==
  /\ Up /\ p \in handling
  /\ handling' = handling \ {p}
  /\ permit' = (permit \/ pc = "park")
  /\ UNCHANGED <<db, worker, history, budget>>

(* The tail of the handler: notify_one, then the acknowledgement. *)
NotifyWorker(p) ==
  /\ Up /\ p \in handling
  /\ handling' = handling \ {p}
  /\ permit' = TRUE
  /\ UNCHANGED <<db, worker, history, budget>>

(* pending_ops.kick: the UI's periodic tick. *)
Kick ==
  /\ Up /\ ~permit
  /\ permit' = TRUE
  /\ UNCHANGED <<db, worker, handling, history, budget>>

(* Deleting an account cascades to its jobs and their operations. *)
DeleteAccount(a) ==
  /\ Up /\ a \in accounts
  /\ accounts' = accounts \ {a}
  /\ jobs' = [p \in Plans |-> IF AccountOf[p] = a /\ jobs[p] # "absent"
                                THEN "deleted" ELSE jobs[p]]
  /\ opStatus' = [o \in Op |-> IF AccountOf[o[1]] = a THEN "absent" ELSE opStatus[o]]
  /\ outcome' = [o \in Op |-> IF AccountOf[o[1]] = a THEN "null" ELSE outcome[o]]
  /\ UNCHANGED <<created, worker, signals, history, budget>>

---------------------------------------------------------------------------
(* The worker: start-up and sweep.                                         *)

HasRow(o) == opStatus[o] # "absent"

(* Mutant: the status filter forgets 'queued'. *)
UnemittedTerminalOps_ExecutingOnly ==
  {o \in Op : outcome[o] # "null" /\ jobs[o[1]] = "executing"}

(* unemitted_terminal_ops: outcomes of jobs that are not terminal. *)
UnemittedTerminalOps ==
  {o \in Op : outcome[o] # "null" /\ jobs[o[1]] \in JobActive}

(* ORDER BY jobs.created_at, ops.ordinal. *)
NotAfter(o1, o2) ==
  \/ created[o1[1]] < created[o2[1]]
  \/ created[o1[1]] = created[o2[1]] /\ o1[2] <= o2[2]

JobsReset == [p \in Plans |-> IF jobs[p] = "executing" THEN "queued" ELSE jobs[p]]
OpsReset == [o \in Op |-> IF opStatus[o] = "leased" THEN "pending" ELSE opStatus[o]]

(* recover_stale_leases: two statements.  Either may fail, which is logged *)
(* while boot goes on.                                                      *)
Boot ==
  /\ pc = "down"
  /\ \/ jobs' = JobsReset /\ opStatus' = OpsReset /\ UNCHANGED budget
     \/ DbError /\ jobs' \in {jobs, JobsReset} /\ UNCHANGED opStatus
  /\ pc' = "start"
  /\ UNCHANGED <<outcome, created, accounts, held, lists, signals, history>>

(* replay_unemitted reads its list; a failing query skips the replay. *)
ReplayRead ==
  /\ pc = "start"
  /\ \/ replaying' = UnemittedTerminalOps /\ UNCHANGED budget
     \/ replaying' = {} /\ DbError
  /\ pc' = "replay"
  /\ UNCHANGED <<db, held, stranded, signals, history>>

(* A blob replays only as the type of its job's kind. *)
Decodes(p, b) == b \in ResultsOf(p)

(* One iteration of replay_unemitted. *)
ReplayOne ==
  /\ pc = "replay"
  /\ \E o \in replaying :
       /\ \A q \in replaying : NotAfter(o, q)
       /\ replaying' = replaying \ {o}
       /\ emitted' = IF Decodes(o[1], outcome[o])
                       THEN emitted \cup {OutcomeFrame(o, outcome[o])} ELSE emitted
  /\ UNCHANGED <<db, pc, held, stranded, signals, ran, budget>>

ReplayDone ==
  /\ pc = "replay" /\ replaying = {}
  /\ pc' = "sweep_read"
  /\ UNCHANGED <<db, held, lists, signals, history, budget>>

(* Mutant: no sweep, only the lease loop finalizes. *)
UnfinalizedJobs_NoSweep == {}

(* unfinalized_per_op_plan_jobs. *)
UnfinalizedJobs ==
  {p \in Plans : /\ KindOf[p] # "mark_chat_read"
                 /\ jobs[p] \in JobActive
                 /\ \A o \in OpsOf(p) : opStatus[o] \notin OpLive}

SweepRead ==
  /\ pc = "sweep_read"
  /\ \/ stranded' = UnfinalizedJobs /\ UNCHANGED budget
     \/ stranded' = {} /\ DbError
  /\ pc' = "sweep"
  /\ UNCHANGED <<db, held, replaying, signals, history>>

SweepOne ==
  /\ pc = "sweep"
  /\ \E p \in stranded :
       /\ stranded' = stranded \ {p}
       /\ target' = p
  /\ pc' = "finalize"
  /\ UNCHANGED <<db, cur, result, replaying, signals, history, budget>>

SweepDone ==
  /\ pc = "sweep" /\ stranded = {}
  /\ pc' = "lease"
  /\ UNCHANGED <<db, held, lists, signals, history, budget>>

---------------------------------------------------------------------------
(* The worker: one operation.                                              *)

(* Mutant: a failed operation is leased again. *)
ReadyOps_RetriesFailed ==
  {o \in Op : opStatus[o] \in {"pending", "failed"} /\ jobs[o[1]] \in JobActive}

ReadyOps == {o \in Op : opStatus[o] = "pending" /\ jobs[o[1]] \in JobActive}

(* lease_next_ready_op.  Equal (created_at, ordinal) keys tie. *)
LeaseOp ==
  /\ pc = "lease"
  /\ \E o \in ReadyOps :
       /\ \A q \in ReadyOps : NotAfter(o, q)
       /\ opStatus' = [opStatus EXCEPT ![o] = "leased"]
       /\ cur' = o
  /\ pc' = "execute"
  /\ UNCHANGED <<jobs, outcome, created, accounts, target, result, lists, signals, history, budget>>

(* No row is ready, or the lease query failed: the pass is over. *)
LeaseNone ==
  /\ pc = "lease"
  /\ \/ ReadyOps = {} /\ UNCHANGED budget
     \/ DbError
  /\ pc' = "quiet_lease"
  /\ UNCHANGED <<db, held, lists, signals, history>>

(* Mutant: the outcome is emitted before it is persisted. *)
Execute_EmitsFirst ==
  /\ pc = "execute"
  /\ result' \in ResultsOf(cur[1])
  /\ ran' = ran \cup {cur}
  /\ emitted' = emitted \cup {OutcomeFrame(cur, result')}
  /\ pc' = "persist"
  /\ UNCHANGED <<db, cur, target, lists, signals, budget>>

(* run_one: dispatch to the mail or the calendar pipeline. *)
Execute ==
  /\ pc = "execute"
  /\ result' \in ResultsOf(cur[1])
  /\ ran' = ran \cup {cur}
  /\ pc' = "persist"
  /\ UNCHANGED <<db, cur, target, lists, signals, emitted, budget>>

(* Mutant: a local-only operation goes back to the queue. *)
MarkOpTerminal_RequeuesLocalOnly(o, b) ==
  IF HasRow(o)
    THEN /\ opStatus' = [opStatus EXCEPT ![o] =
              IF b \in {"local_only", "cal_local_only"} THEN "pending" ELSE StatusOf(b)]
         /\ outcome' = [outcome EXCEPT ![o] = b]
    ELSE UNCHANGED <<opStatus, outcome>>

(* mark_op_terminal: an UPDATE, which matches no row once the account is   *)
(* gone.                                                                    *)
MarkOpTerminal(o, b) ==
  IF HasRow(o)
    THEN /\ opStatus' = [opStatus EXCEPT ![o] = StatusOf(b)]
         /\ outcome' = [outcome EXCEPT ![o] = b]
    ELSE UNCHANGED <<opStatus, outcome>>

Persist ==
  /\ pc = "persist"
  /\ MarkOpTerminal(cur, result)
  /\ pc' = "emit"
  /\ UNCHANGED <<jobs, created, accounts, held, lists, signals, history, budget>>

(* run_one returned Err: drain_one_pass persists a mail RemoteFailure,     *)
(* whatever the kind of the job.                                            *)
PersistFails ==
  /\ pc = "persist" /\ DbError
  /\ result' = "remote_failure"
  /\ pc' = "fallback"
  /\ UNCHANGED <<db, cur, target, lists, signals, history>>

PersistFallback ==
  /\ pc = "fallback"
  /\ MarkOpTerminal(cur, result)
  /\ pc' = "emit"
  /\ UNCHANGED <<jobs, created, accounts, held, lists, signals, history, budget>>

(* The second write failed too: the operation stays leased. *)
FallbackFails ==
  /\ pc = "fallback" /\ DbError
  /\ target' = cur[1]
  /\ pc' = "finalize"
  /\ UNCHANGED <<db, cur, result, lists, signals, history>>

EmitOutcome ==
  /\ pc = "emit"
  /\ emitted' = emitted \cup {OutcomeFrame(cur, result)}
  /\ target' = cur[1]
  /\ pc' = "finalize"
  /\ UNCHANGED <<db, cur, result, lists, signals, ran, budget>>

---------------------------------------------------------------------------
(* The worker: the parent job.                                             *)

(* Mutant: one success is enough for "completed". *)
FinalStatus_AnySuccess(p) ==
  IF \E o \in OpsOf(p) : opStatus[o] = "done" THEN "completed" ELSE "failed"

(* The roll-up of maybe_finalize over the operation counts. *)
FinalStatus(p) ==
  IF \A o \in OpsOf(p) : opStatus[o] = "done" THEN "completed"
  ELSE IF \A o \in OpsOf(p) : opStatus[o] # "done" THEN "failed"
  ELSE "partial"

(* Back to the sweep if it called maybe_finalize, else to the lease loop.  *)
Return ==
  /\ pc' = IF cur = NoOp THEN "sweep" ELSE "lease"
  /\ cur' = NoOp /\ target' = NoPlan /\ result' = "null"

(* maybe_finalize on a plan with an operation that is not terminal, or     *)
(* with a database call that fails.                                         *)
FinalizeSkips ==
  /\ pc = "finalize"
  /\ \/ (\E o \in OpsOf(target) : opStatus[o] \in OpLive) /\ UNCHANGED budget
     \/ DbError
  /\ Return
  /\ UNCHANGED <<db, lists, signals, history>>

(* The calendar completion carries every stored result, each deserialized  *)
(* as a CalendarOperationResult.                                            *)
CompletionBuilds(p) ==
  KindOf[p] = "calendar_plan" =>
    \A o \in OpsOf(p) : outcome[o] # "null" => outcome[o] \in CalBlobs

(* maybe_finalize: finalize_job commits; the completion frame is built     *)
(* afterwards.                                                              *)
FinalizeJob ==
  /\ pc = "finalize"
  /\ \A o \in OpsOf(target) : opStatus[o] \notin OpLive
  /\ jobs' = IF jobs[target] \in {"absent", "deleted"} THEN jobs
             ELSE [jobs EXCEPT ![target] = FinalStatus(target)]
  /\ IF CompletionBuilds(target)
       THEN pc' = "complete" /\ UNCHANGED <<held>>
       ELSE Return
  /\ UNCHANGED <<opStatus, outcome, created, accounts, lists, signals, history, budget>>

EmitCompleted ==
  /\ pc = "complete"
  /\ emitted' = emitted \cup {CompletedFrame(target)}
  /\ Return
  /\ UNCHANGED <<db, lists, signals, ran, budget>>

---------------------------------------------------------------------------
(* The worker: quiet jobs, and parking.                                    *)

ReadyQuietJobs == {p \in Plans : KindOf[p] = "mark_chat_read" /\ jobs[p] = "queued"}

(* lease_next_ready_quiet_job. *)
LeaseQuietJob ==
  /\ pc = "quiet_lease"
  /\ \E p \in ReadyQuietJobs :
       /\ \A q \in ReadyQuietJobs : created[p] <= created[q]
       /\ jobs' = [jobs EXCEPT ![p] = "executing"]
       /\ target' = p
  /\ pc' = "quiet_run"
  /\ UNCHANGED <<opStatus, outcome, created, accounts, cur, result, lists, signals, history, budget>>

LeaseQuietNone ==
  /\ pc = "quiet_lease"
  /\ \/ ReadyQuietJobs = {} /\ UNCHANGED budget
     \/ DbError
  /\ pc' = "park"
  /\ UNCHANGED <<db, held, lists, signals, history>>

(* mark_chat_read_remote: batch_execute owns every failure. *)
RunQuietJob ==
  /\ pc = "quiet_run"
  /\ pc' = "quiet_finalize"
  /\ UNCHANGED <<db, held, lists, signals, history, budget>>

SetJobStatus(p, s) ==
  jobs' = IF jobs[p] \in {"absent", "deleted"} THEN jobs ELSE [jobs EXCEPT ![p] = s]

FinalizeQuietJob ==
  /\ pc = "quiet_finalize"
  /\ \/ SetJobStatus(target, "completed") /\ pc' = "quiet_complete" /\ UNCHANGED budget
     \/ DbError /\ pc' = "quiet_fallback" /\ UNCHANGED jobs
  /\ UNCHANGED <<opStatus, outcome, created, accounts, held, lists, signals, history>>

(* run_mark_chat_read returned Err: finalize as failed, ignore the result. *)
QuietFallback ==
  /\ pc = "quiet_fallback"
  /\ \/ SetJobStatus(target, "failed") /\ UNCHANGED budget
     \/ DbError /\ UNCHANGED jobs
  /\ pc' = "quiet_lease" /\ target' = NoPlan
  /\ UNCHANGED <<opStatus, outcome, created, accounts, cur, result, lists, signals, history>>

EmitQuietCompleted ==
  /\ pc = "quiet_complete"
  /\ emitted' = emitted \cup {CompletedFrame(target)}
  /\ pc' = "quiet_lease" /\ target' = NoPlan
  /\ UNCHANGED <<db, cur, result, lists, signals, ran, budget>>

(* await_action_worker_wakeup consumes the permit. *)
Wake ==
  /\ pc = "park" /\ permit
  /\ permit' = FALSE
  /\ pc' = "sweep_read"
  /\ UNCHANGED <<db, held, lists, handling, history, budget>>

(* The Service dies (or is shut down): only the tables survive. *)
Crash ==
  /\ Up /\ crashes < MaxCrashes
  /\ crashes' = crashes + 1
  /\ pc' = "down" /\ cur' = NoOp /\ target' = NoPlan /\ result' = "null"
  /\ replaying' = {} /\ stranded' = {}
  /\ permit' = FALSE /\ handling' = {} /\ emitted' = {} /\ ran' = {}
  /\ UNCHANGED <<db, faults>>

---------------------------------------------------------------------------
WorkerStep ==
  \/ ReplayRead \/ ReplayOne \/ ReplayDone \/ SweepRead \/ SweepOne \/ SweepDone
  \/ LeaseOp \/ LeaseNone \/ Execute
  \/ Persist \/ PersistFails \/ PersistFallback \/ FallbackFails \/ EmitOutcome
  \/ FinalizeSkips \/ FinalizeJob \/ EmitCompleted
  \/ LeaseQuietJob \/ LeaseQuietNone \/ RunQuietJob \/ FinalizeQuietJob
  \/ QuietFallback \/ EmitQuietCompleted \/ Wake

HandlerStep ==
  \/ \E p \in Plans : InsertPlan(p) \/ NotifyWorker(p)
  \/ \E a \in Accounts : DeleteAccount(a)
  \/ Kick

Next == WorkerStep \/ HandlerStep \/ Boot \/ Crash

(* The worker task and a started handler are always polled again; the UI   *)
(* respawns a dead Service.  Deaths and database errors are not fair.      *)
Fairness ==
  /\ WF_vars(WorkerStep)
  /\ WF_vars(Boot)
  /\ WF_vars(\E p \in Plans : NotifyWorker(p))

Spec == Init /\ [][Next]_vars /\ Fairness

---------------------------------------------------------------------------
(* Properties.                                                             *)

TypeOK ==
  /\ jobs \in [Plans -> JobStates]
  /\ opStatus \in [Op -> OpStates]
  /\ outcome \in [Op -> Blobs \cup {"null"}]
  /\ created \in [Plans -> Nat]
  /\ accounts \subseteq Accounts
  /\ pc \in WorkerStates
  /\ cur \in Op \cup {NoOp}
  /\ target \in Plans \cup {NoPlan}
  /\ result \in Blobs \cup {"null"}
  /\ replaying \subseteq Op /\ stranded \subseteq Plans
  /\ permit \in BOOLEAN /\ handling \subseteq Plans
  /\ emitted \subseteq Frames /\ ran \subseteq Op
  /\ crashes \in 0..MaxCrashes /\ faults \in 0..MaxFaults

(* A job is terminal only when each of its operations is, "completed" only *)
(* if all of them are done and "failed" only if none is (maybe_finalize),  *)
(* whatever crash or failing write came between marking the operations and *)
(* finalizing the job.                                                     *)
FinalizedIsFaithful ==
  \A p \in Plans :
    jobs[p] \in JobTerminal /\ KindOf[p] # "mark_chat_read" =>
      /\ \A o \in OpsOf(p) : opStatus[o] \in OpTerminal
      /\ jobs[p] = "completed" <=> \A o \in OpsOf(p) : opStatus[o] = "done"
      /\ jobs[p] = "failed" <=> \A o \in OpsOf(p) : opStatus[o] # "done"

(* While the Service runs and no database call has failed, the only leased *)
(* row is the one the worker holds: boot left no lease of a dead           *)
(* incarnation behind (recover_stale_leases).                               *)
LeasesAreOwned ==
  Up /\ faults = 0 => \A o \in Op : opStatus[o] = "leased" => o = cur

(* An incarnation dispatches an operation to its provider at most once:    *)
(* what the worker is about to execute it has not executed before, neither *)
(* after a failing write nor after a sweep.                                 *)
OncePerIncarnation == pc = "execute" => cur \notin ran

(* A stored outcome is never overwritten and a terminal operation never    *)
(* runs again; only the account cascade removes it.                        *)
TerminalIsFinal ==
  [][\A o \in Op : opStatus[o] \in OpTerminal =>
        \/ opStatus'[o] = opStatus[o] /\ outcome'[o] = outcome[o]
        \/ opStatus'[o] = "absent"]_vars

(* In the frame stream of one incarnation the completion of a plan follows *)
(* the outcome of every one of its operations, those an earlier            *)
(* incarnation executed included (replay_unemitted).                        *)
CompletionFollowsOutcomes ==
  faults = 0 =>
    \A p \in Plans :
      CompletedFrame(p) \in emitted /\ jobs[p] # "deleted" =>
        \A o \in OpsOf(p) : OutcomeFrame(o, outcome[o]) \in emitted

(* Drain-then-await loses no wakeup: a parked worker with work in the      *)
(* journal has a permit, or a handler that is about to give it one.        *)
NoLostWakeup ==
  pc = "park" /\ faults = 0 /\ (ReadyOps # {} \/ ReadyQuietJobs # {}) =>
    permit \/ handling # {}

(* Every journaled plan is finalized (or its account deleted) however      *)
(* often the Service dies, if no database call fails: time and again no    *)
(* job is queued or executing.                                             *)
EventuallyFinalized ==
  []<>(faults > 0 \/ \A p \in Plans : jobs[p] \notin JobActive)

---------------------------------------------------------------------------
(* The inductive invariant: what holds between any two steps.              *)

Running == {"execute", "persist", "fallback", "emit"}
Finalizing == {"finalize", "complete"}
QuietRunning == {"quiet_run", "quiet_finalize", "quiet_fallback", "quiet_complete"}

Unfinished(p) == jobs[p] \in JobActive \cup {"deleted"}
OutcomeEmitted(o) == OutcomeFrame(o, outcome[o]) \in emitted

(* What the worker holds at each point of its loop. *)
HeldInv ==
  /\ pc \in Running => cur \in Op /\ Unfinished(cur[1])
  /\ pc \in Running \ {"emit"} => opStatus[cur] \in {"leased", "absent"}
  /\ pc \in Running \ {"execute"} => result \in Blobs
  /\ pc = "fallback" => faults # 0
  /\ pc \notin Running \cup Finalizing => cur = NoOp
  /\ pc \in Finalizing => target \in Plans /\ KindOf[target] # "mark_chat_read"
  /\ pc = "finalize" => Unfinished(target)
  /\ pc = "complete" => jobs[target] # "absent"
  /\ pc \in QuietRunning => target \in Plans /\ KindOf[target] = "mark_chat_read"

(* The two lists are empty outside their loops, and a plan still to be     *)
(* swept has not been finalized.                                            *)
ListInv ==
  /\ pc # "replay" => replaying = {}
  /\ pc \notin {"sweep"} \cup Finalizing => stranded = {}
  /\ pc \in Finalizing => (cur # NoOp => stranded = {}) /\ target \notin stranded
  /\ \A p \in stranded : KindOf[p] # "mark_chat_read" /\ Unfinished(p)

(* Operation rows live and die with their job row; an outcome is stored    *)
(* exactly when the status is terminal.                                     *)
RowInv ==
  \A o \in Op :
    /\ HasRow(o) <=> jobs[o[1]] \notin {"absent", "deleted"}
    /\ opStatus[o] \in OpTerminal <=> outcome[o] # "null"

RanInv ==
  /\ pc = "down" => ran = {} /\ emitted = {}
  /\ \A o \in ran : opStatus[o] # "pending" /\ jobs[o[1]] # "absent"
  /\ OncePerIncarnation

LeaseInv ==
  Up /\ faults = 0 =>
    \A o \in Op : opStatus[o] = "leased" => o = cur /\ pc \in {"execute", "persist"}

WakeInv ==
  faults = 0 /\ ~permit /\ handling = {} =>
    /\ pc \in QuietRunning \cup {"quiet_lease", "park"} => ReadyOps = {}
    /\ pc = "park" => ReadyQuietJobs = {}

(* Without database errors a stored outcome decodes as its job's kind. *)
Decodable ==
  /\ \A o \in Op : outcome[o] \in ResultsOf(o[1]) \cup {"null"}
  /\ pc \in {"persist", "emit"} => result \in ResultsOf(cur[1])
  /\ pc = "emit" /\ HasRow(cur) => outcome[cur] = result

(* Every stored outcome of an unfinished job is on the wire, or about to be. *)
NoneForgotten ==
  pc \notin {"down", "start"} =>
    \A o \in Op : outcome[o] # "null" /\ jobs[o[1]] \in JobActive =>
      OutcomeEmitted(o) \/ o \in replaying \/ (pc = "emit" /\ o = cur)

CompletedLast ==
  \A p \in Plans :
    /\ jobs[p] # "deleted"
    /\ CompletedFrame(p) \in emitted \/ (pc = "complete" /\ target = p)
    => \A o \in OpsOf(p) : outcome[o] # "null" /\ OutcomeEmitted(o)

FrameInv == faults = 0 => Decodable /\ NoneForgotten /\ CompletedLast

(* The invariant the proofs rest on: the worker's program counter, what it *)
(* holds, the rows and the frames agree at every step of the drain loop.    *)
JournalInv ==
  /\ TypeOK /\ HeldInv /\ ListInv /\ RowInv /\ FinalizedIsFaithful
  /\ RanInv /\ LeaseInv /\ WakeInv /\ FrameInv
=============================================================================
