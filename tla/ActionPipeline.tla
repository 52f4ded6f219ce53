--------------------------- MODULE ActionPipeline ---------------------------
(***************************************************************************)
(* A mail action end to end: the UI's tri-state plan tracking, the         *)
(* ServiceClient (request map, reader task, generations, respawn), the     *)
(* stdio pipe, the Service's request handlers, and the action journal.     *)
(*                                                                         *)
(* The UI applies a plan optimistically, sends it, and learns of its fate  *)
(* along two unordered paths: responses resolve a request's future, whose  *)
(* message reaches the UI on its own; notifications go through the         *)
(* notification queue and a generation check.  The Service dies and is     *)
(* respawned in between; after each respawn the UI asks the journal what   *)
(* became of its plans.                                                    *)
(*                                                                         *)
(* The queue's capacity and classes are NotificationQueue's subject: here  *)
(* it only keeps order.  The UI is assumed to handle the reply of a        *)
(* dispatch within the 1 s a respawn waits, and a BootReady within the 5 s *)
(* of a request timeout.                                                    *)
(***************************************************************************)
EXTENDS ActionJournal, Sequences

CONSTANTS MaxTimeouts   \* bound on requests that time out

ASSUME TimeoutAssumption == MaxTimeouts \in Nat

VARIABLES
  ui,         \* the UI's view of each plan
  shown,      \* outcome accumulated per operation
  conn,       \* ServiceClient.state: a child is installed
  gen,        \* ServiceClient.current_generation
  bootReady,  \* a ServiceBootReady message the UI has not handled
  waiting,    \* plans whose execute_plan request has a pending entry
  asked,      \* plans whose job_status request has a pending entry
  replies,    \* messages of resolved requests the UI has not handled
  queue,      \* the notification queue, tagged with the reader's generation
  wire,       \* the Service's stdout
  inbox,      \* execute_plan requests the Service has not begun to handle
  answering,  \* handlers that have notified the worker and still owe the ack
  asking,     \* job_status requests the Service has not read the journal for
  reads,      \* job_status answers read and not yet written
  timeouts

tracked == <<ui, shown>>
client == <<conn, gen, bootReady, waiting, asked, replies, queue>>
handlers == <<inbox, answering, asking, reads>>
pipelineVars == <<vars, tracked, client, wire, handlers, timeouts>>

PlanStates == {"pending", "acked", "unknown"}
\* "completed" by the notification, "reconciled" by a job_status answer.
Settled == {"completed", "reconciled", "reverted"}

AckFrame(p) == [type |-> "ack", plan |-> p]
ErrorFrame(p) == [type |-> "error", plan |-> p]
StatusFrame(p, s) == [type |-> "status", plan |-> p, status |-> s]
Dispatched(p, r) == [type |-> "dispatched", plan |-> p, result |-> r]
Resolved(p, r) == [type |-> "resolved", plan |-> p, result |-> r]

PipelineInit ==
  /\ Init
  /\ ui = [p \in Plans |-> "new"]
  /\ shown = [o \in Op |-> "null"]
  /\ conn = FALSE /\ gen = 0 /\ bootReady = FALSE
  /\ waiting = {} /\ asked = {} /\ replies = {} /\ queue = <<>>
  /\ wire = <<>>
  /\ inbox = {} /\ answering = {} /\ asking = {} /\ reads = {}
  /\ timeouts = 0

(* The frames reach the reader task only while its child is installed. *)
Written(frames) == wire' = IF conn THEN wire \o frames ELSE wire

---------------------------------------------------------------------------
(* UI: dispatch.                                                           *)

(* The account-level gate of dispatch_plan_with_undo: a plan of the same   *)
(* account awaits reconciliation.  A blocked plan leaves no trace.         *)
Blocked(p) == \E q \in Plans : AccountOf[q] = AccountOf[p] /\ ui[q] = "unknown"

(* dispatch_plan_with_undo and request_value: without a running child the  *)
(* request fails as NotConnected; to a dead one it is written in vain.     *)
Dispatch(p) ==
  /\ ui[p] = "new" /\ ~Blocked(p)
  /\ ui' = [ui EXCEPT ![p] = "pending"]
  /\ IF conn
       THEN /\ waiting' = waiting \cup {p}
            /\ inbox' = IF Up THEN inbox \cup {p} ELSE inbox
            /\ UNCHANGED replies
       ELSE /\ replies' = replies \cup {Dispatched(p, "failed")}
            /\ UNCHANGED <<waiting, inbox>>
  /\ UNCHANGED <<vars, shown, conn, gen, bootReady, asked, queue, wire, answering, asking, reads, timeouts>>

(* Mutant: a request without an answer counts as refused. *)
CutOff_Refused == "failed"

(* classify_dispatch: ServiceCrashed and Timeout are AckUnknown. *)
CutOff == "unknown"

(* The 5 s timeout of an execute_plan or job_status request; the guard     *)
(* removes the pending entry, so a late answer is dropped.                  *)
Timeout(p) ==
  /\ timeouts < MaxTimeouts /\ ~bootReady
  /\ timeouts' = timeouts + 1
  /\ \/ /\ p \in waiting
        /\ waiting' = waiting \ {p} /\ UNCHANGED asked
        /\ replies' = replies \cup {Dispatched(p, CutOff)}
     \/ /\ p \in asked
        /\ asked' = asked \ {p} /\ UNCHANGED waiting
        /\ replies' = replies \cup {Resolved(p, "error")}
  /\ UNCHANGED <<vars, tracked, conn, gen, bootReady, queue, wire, handlers>>

---------------------------------------------------------------------------
(* Service: request handlers and worker.                                   *)

(* action.execute_plan: journal the plan. *)
Accept(p) ==
  /\ p \in inbox
  /\ InsertPlan(p)
  /\ inbox' = inbox \ {p}
  /\ UNCHANGED <<tracked, client, wire, answering, asking, reads, timeouts>>

(* Validation, admission or the insert fails: nothing is journaled. *)
Reject(p) ==
  /\ Up /\ p \in inbox
  /\ inbox' = inbox \ {p}
  /\ Written(<<ErrorFrame(p)>>)
  /\ UNCHANGED <<vars, tracked, client, answering, asking, reads, timeouts>>

Notify(p) ==
  /\ NotifyWorker(p)
  /\ answering' = answering \cup {p}
  /\ UNCHANGED <<tracked, client, wire, inbox, asking, reads, timeouts>>

Ack(p) ==
  /\ Up /\ p \in answering
  /\ answering' = answering \ {p}
  /\ Written(<<AckFrame(p)>>)
  /\ UNCHANGED <<vars, tracked, client, inbox, asking, reads, timeouts>>

(* Mutant: a failed job counts as in flight. *)
JobStatusOf_ForgetsFailed(p) ==
  IF jobs[p] \in {"absent", "deleted"} THEN "not_found"
  ELSE IF jobs[p] \in {"completed", "partial"} THEN "terminal" ELSE "in_flight"

(* query_job_status: no row, a terminal row or a row in flight. *)
JobStatusOf(p) ==
  IF jobs[p] \in {"absent", "deleted"} THEN "not_found"
  ELSE IF jobs[p] \in JobTerminal THEN "terminal" ELSE "in_flight"

(* action.job_status: a read, answered in a later step. *)
ReadStatus(p) ==
  /\ Up /\ p \in asking
  /\ asking' = asking \ {p}
  /\ reads' = reads \cup {StatusFrame(p, JobStatusOf(p))}
  /\ UNCHANGED <<vars, tracked, client, wire, inbox, answering, timeouts>>

AnswerStatus ==
  /\ Up
  /\ \E f \in reads : reads' = reads \ {f} /\ Written(<<f>>)
  /\ UNCHANGED <<vars, tracked, client, inbox, answering, asking, timeouts>>

(* A step of the worker; a frame it emits goes to stdout. *)
Work ==
  /\ WorkerStep
  /\ LET new == emitted' \ emitted
     IN Written(IF new = {} THEN <<>> ELSE <<CHOOSE f \in new : TRUE>>)
  /\ UNCHANGED <<tracked, client, handlers, timeouts>>

Administer ==
  /\ Kick \/ \E a \in Accounts : DeleteAccount(a)
  /\ UNCHANGED <<tracked, client, wire, handlers, timeouts>>

---------------------------------------------------------------------------
(* ServiceClient: reader task, crash handling, respawn.                    *)

(* reader_task on a response: a pending entry resolves, else it is dropped. *)
ReadResponse ==
  /\ conn /\ wire # <<>>
  /\ wire' = Tail(wire)
  /\ LET f == Head(wire)
         p == f.plan
     IN \/ /\ f.type \in {"ack", "error"} /\ p \in waiting
           /\ waiting' = waiting \ {p} /\ UNCHANGED asked
           /\ replies' = replies \cup {Dispatched(p, IF f.type = "ack" THEN "acked" ELSE "failed")}
        \/ /\ f.type = "status" /\ p \in asked
           /\ asked' = asked \ {p} /\ UNCHANGED waiting
           /\ replies' = replies \cup {Resolved(p, f.status)}
        \/ /\ \/ f.type \in {"ack", "error"} /\ p \notin waiting
              \/ f.type = "status" /\ p \notin asked
           /\ UNCHANGED <<waiting, asked, replies>>
  /\ UNCHANGED <<vars, tracked, conn, gen, bootReady, queue, handlers, timeouts>>

(* reader_task on a notification: tag it and enqueue it. *)
ReadNotification ==
  /\ conn /\ wire # <<>>
  /\ Head(wire).type \in {"outcome", "completed"}
  /\ queue' = Append(queue, [frame |-> Head(wire), gen |-> gen])
  /\ wire' = Tail(wire)
  /\ UNCHANGED <<vars, tracked, conn, gen, bootReady, waiting, asked, replies, handlers, timeouts>>

(* fail_pending: every pending request ends in ServiceCrashed. *)
CrashReplies == {Dispatched(p, CutOff) : p \in waiting} \cup {Resolved(p, "error") : p \in asked}

(* handle_crash, on the EOF of a dead child or on a missed heartbeat: bump *)
(* the generation, fail what is pending, abort the reader.  What is still  *)
(* in the pipe is never read.  A hung child is killed afterwards.          *)
HandleCrash ==
  /\ conn /\ (Up => crashes < MaxCrashes)
  /\ conn' = FALSE
  /\ gen' = gen + 1
  /\ replies' = replies \cup CrashReplies
  /\ waiting' = {} /\ asked' = {}
  /\ wire' = <<>>
  /\ UNCHANGED <<vars, tracked, bootReady, queue, handlers, timeouts>>

(* The Service process dies: on its own, or killed by handle_crash. *)
Die ==
  /\ Crash
  /\ inbox' = {} /\ answering' = {} /\ asking' = {} /\ reads' = {}
  /\ UNCHANGED <<tracked, client, wire, timeouts>>

(* respawn and its handshake, at least 1 s after the death: the UI has     *)
(* handled what became of its dispatches.  The first BootReady makes it    *)
(* ready; later ones are messages to it.                                    *)
Respawn ==
  /\ ~conn /\ \A m \in replies : m.type # "dispatched"
  /\ Boot
  /\ conn' = TRUE
  /\ bootReady' = (gen > 0)
  /\ UNCHANGED <<tracked, gen, waiting, asked, replies, queue, wire, handlers, timeouts>>

---------------------------------------------------------------------------
(* UI: messages.                                                           *)

(* Remove a plan that is still tracked; any other message is too late. *)
Settle(p, s) ==
  ui' = IF ui[p] \in PlanStates THEN [ui EXCEPT ![p] = s] ELSE ui

(* Mutant: only plans without an ack are asked about. *)
Unreconciled_UnknownOnly == {p \in Plans : ui[p] = "unknown"}

(* The plans kickoff_post_respawn_reconcile asks about. *)
Unreconciled == {p \in Plans : ui[p] \in {"unknown", "acked"}}

(* ServiceBootReady: one job_status request for each of them. *)
Reconcile ==
  /\ bootReady
  /\ bootReady' = FALSE
  /\ IF conn
       THEN /\ asked' = asked \cup Unreconciled
            /\ asking' = IF Up THEN asking \cup Unreconciled ELSE asking
            /\ UNCHANGED replies
       ELSE /\ replies' = replies \cup {Resolved(p, "error") : p \in Unreconciled}
            /\ UNCHANGED <<asked, asking>>
  /\ UNCHANGED <<vars, tracked, conn, gen, waiting, queue, wire, inbox, answering, reads, timeouts>>

(* handle_action_dispatched.  An ack may come after the completion. *)
ActionDispatched(p) ==
  /\ \E r \in {"acked", "unknown", "failed"} :
       /\ Dispatched(p, r) \in replies
       /\ replies' = replies \ {Dispatched(p, r)}
       /\ Settle(p, IF r = "failed" THEN "reverted" ELSE r)
  /\ UNCHANGED <<vars, shown, conn, gen, bootReady, waiting, asked, queue, wire, handlers, timeouts>>

(* handle_notification_action_completed: outcomes that are missing are     *)
(* filled in as LocalOnly.                                                  *)
CompletePlan(p, how) ==
  /\ Settle(p, how)
  /\ shown' = [o \in Op |-> IF o[1] = p /\ ui[p] \in PlanStates /\ shown[o] = "null"
                              THEN "backfill" ELSE shown[o]]

(* handle_job_status_resolved. *)
JobStatusResolved(p) ==
  /\ \E r \in {"terminal", "in_flight", "not_found", "error"} :
       /\ Resolved(p, r) \in replies
       /\ replies' = replies \ {Resolved(p, r)}
       /\ CASE r = "terminal" -> CompletePlan(p, "reconciled")
            [] r = "in_flight" -> Settle(p, "acked") /\ UNCHANGED shown
            [] r = "not_found" -> Settle(p, "reverted") /\ UNCHANGED shown
            [] r = "error" -> UNCHANGED tracked
  /\ UNCHANGED <<vars, conn, gen, bootReady, waiting, asked, queue, wire, handlers, timeouts>>

(* ServiceNotification: drop what an older generation tagged; an outcome   *)
(* is applied once, and only to a tracked plan.                             *)
ServiceNotification ==
  /\ queue # <<>>
  /\ queue' = Tail(queue)
  /\ LET f == Head(queue).frame
     IN CASE Head(queue).gen # gen -> UNCHANGED tracked
          [] Head(queue).gen = gen /\ f.type = "outcome" ->
               /\ shown' = IF ui[f.op[1]] \in PlanStates /\ shown[f.op] = "null"
                             THEN [shown EXCEPT ![f.op] = f.blob] ELSE shown
               /\ UNCHANGED ui
          [] Head(queue).gen = gen /\ f.type = "completed" -> CompletePlan(f.plan, "completed")
  /\ UNCHANGED <<vars, conn, gen, bootReady, waiting, asked, replies, wire, handlers, timeouts>>

---------------------------------------------------------------------------
UIStep ==
  \/ Reconcile \/ ServiceNotification
  \/ \E p \in Plans : ActionDispatched(p) \/ JobStatusResolved(p)

HandleRequest ==
  \/ \E p \in Plans : Accept(p) \/ Reject(p) \/ Notify(p) \/ Ack(p) \/ ReadStatus(p)
  \/ AnswerStatus

PipelineNext ==
  \/ UIStep \/ HandleRequest \/ Work \/ Administer
  \/ ReadResponse \/ ReadNotification \/ HandleCrash \/ Die \/ Respawn
  \/ \E p \in Plans : Dispatch(p) \/ Timeout(p)

(* The UI loop, the reader task, the worker and a started handler are      *)
(* polled again; a dead child is noticed, a hung one killed, and respawned. *)
PipelineFairness ==
  /\ WF_pipelineVars(UIStep) /\ WF_pipelineVars(Work)
  /\ WF_pipelineVars(HandleRequest)
  /\ WF_pipelineVars(ReadResponse \/ ReadNotification)
  /\ WF_pipelineVars(HandleCrash /\ ~Up) /\ WF_pipelineVars(Die /\ ~conn)
  /\ WF_pipelineVars(Respawn)

PipelineSpec == PipelineInit /\ [][PipelineNext]_pipelineVars /\ PipelineFairness

---------------------------------------------------------------------------
(* Properties.                                                             *)

Messages ==
  {Dispatched(p, r) : p \in Plans, r \in {"acked", "unknown", "failed"}}
    \cup {Resolved(p, r) : p \in Plans, r \in {"terminal", "in_flight", "not_found", "error"}}

PipelineTypeOK ==
  /\ ui \in [Plans -> {"new"} \cup PlanStates \cup Settled]
  /\ shown \in [Op -> Blobs \cup {"null", "backfill"}]
  /\ conn \in BOOLEAN /\ bootReady \in BOOLEAN /\ gen \in 0..MaxCrashes + 1
  /\ waiting \subseteq Plans /\ asked \subseteq Plans /\ replies \subseteq Messages
  /\ inbox \subseteq Plans /\ answering \subseteq Plans /\ asking \subseteq Plans
  /\ \A i \in DOMAIN queue : queue[i].frame \in Frames /\ queue[i].gen \in 0..gen
  /\ timeouts \in 0..MaxTimeouts

(* The UI rolls a plan back only if the journal does not and will not hold *)
(* it: refused, never sent, or gone with its account.  A rollback of a     *)
(* journaled plan would hide an action the worker still executes           *)
(* (classify_dispatch, handle_job_status_resolved).                         *)
NoFalseRollback ==
  \A p \in Plans : ui[p] = "reverted" =>
    jobs[p] \in {"absent", "deleted"} /\ p \notin inbox

(* What the UI shows for an operation is what the journal stores: a death  *)
(* between executing and persisting re-executes the operation, maybe with  *)
(* another result, but never after the first result was shown              *)
(* (persist_and_emit, applied_outcomes).                                    *)
ShownIsStored ==
  \A o \in Op : shown[o] \in Blobs => shown[o] = outcome[o] \/ jobs[o[1]] = "deleted"

(* A completion that arrives as a notification finds the outcome of every  *)
(* operation of its plan, those of earlier incarnations included: replay   *)
(* puts them in the same generation, before the completion.                *)
StreamedIsWhole ==
  faults = 0 =>
    \A p \in Plans : ui[p] = "completed" /\ jobs[p] # "deleted" =>
      \A o \in OpsOf(p) : shown[o] \in Blobs

OnWire(f) == \E i \in DOMAIN wire : wire[i] = f

(* The answer to execute_plan has reached the UI, or is to: the request is *)
(* with a handler or dies with its Service.                                *)
Answering(p) ==
  \/ \E r \in {"acked", "unknown", "failed"} : Dispatched(p, r) \in replies
  \/ /\ p \in waiting
     /\ \/ ~Up \/ p \in inbox \cup handling \cup answering
        \/ OnWire(AckFrame(p)) \/ OnWire(ErrorFrame(p))

(* The job is under way, or its completion is on its way to the UI. *)
Announcing == {"complete", "quiet_complete"}
Completing(p) ==
  \/ pc \in Announcing /\ target = p
  \/ OnWire(CompletedFrame(p))
  \/ \E i \in DOMAIN queue : queue[i] = [frame |-> CompletedFrame(p), gen |-> gen]
Served(p) == jobs[p] \in JobActive \/ Completing(p)

(* A job_status answer that settles the plan is to be read, or on its way. *)
Asking(p) ==
  \E s \in {"terminal", "not_found"} :
    \/ p \in asked /\ (p \in asking \/ StatusFrame(p, s) \in reads \/ OnWire(StatusFrame(p, s)))
    \/ Resolved(p, s) \in replies

(* A respawn, and the reconciliation after it, are to come. *)
Interrupted == ~conn \/ ~Up \/ bootReady

(* Not promised: a plan whose account is deleted, or whose completion a    *)
(* failing database call kept from being built.                            *)
Covered(p) == AccountOf[p] \in accounts /\ (faults = 0 \/ KindOf[p] = "mail_plan")

(* A tracked plan never waits for what has passed: a pending one has its   *)
(* answer to come, and one that is acked or unknown its completion, a      *)
(* job_status answer or a reconciliation, whatever died in between.  What  *)
(* a request that timed out leaves behind is found at the next respawn     *)
(* only (handle_action_dispatched, kickoff_post_respawn_reconcile).        *)
NotForgotten ==
  \A p \in Plans :
    /\ ui[p] = "pending" => Answering(p)
    /\ ui[p] \in {"acked", "unknown"} /\ timeouts = 0 /\ Covered(p) =>
         Interrupted \/ Served(p) \/ Asking(p)

(* Every tracked plan is settled, however often the Service dies: no       *)
(* optimistic change stays unconfirmed and no account stays blocked.  Only *)
(* deleting the account leaves a plan untracked by the journal.            *)
Settles ==
  \A p \in Plans :
    ui[p] \in PlanStates ~> ui[p] \in Settled \/ AccountOf[p] \notin accounts
=============================================================================
