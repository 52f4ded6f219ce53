----------------------------- MODULE PendingOps -----------------------------
(***************************************************************************)
(* The retry queue (table pending_operations) and the optimistic label     *)
(* overlay (table pending_thread_label_intents) of ONE thread of one       *)
(* account.                                                                *)
(*                                                                         *)
(* The action worker is a single sequential task.  It executes a user's    *)
(* label operation in separately committed steps (write the overlay, call  *)
(* the provider, then confirm, clear or enqueue and attach), and on every  *)
(* wakeup drains the retry queue.  Around it run a sync of the account,    *)
(* the undo path's cancel notification, the passing of time (a row comes   *)
(* due, an overlay entry passes 48 hours), failing database writes, and    *)
(* the death of the process, after which boot recovery runs and the        *)
(* journal re-leases the operation that was being executed.                *)
(*                                                                         *)
(* with_write is one hold of the connection, not a transaction: a death    *)
(* may keep the first of its statements and lose the rest.                 *)
(***************************************************************************)
EXTENDS Naturals, FiniteSets

CONSTANTS
    Labels,       \* labels of the account
    Opposite,     \* the opposite importance level of a label, or None
    Starts,       \* label sets the thread may start with
    None,         \* SQL NULL / Option::None
    MaxRetries,   \* retry_policy(..).max_retries of the label operations
    FetchLimit,   \* LIMIT of db_pending_ops_get (20 in the code)
    MaxOps,       \* bound: user operations
    MaxSyncs,     \* bound: syncs of the account
    MaxFaults,    \* bound: failing database writes
    MaxCrashes    \* bound: deaths of the process

ASSUME PendingAssumption ==
    /\ None \notin Labels
    /\ Opposite \in [Labels -> Labels \cup {None}]
    /\ Starts \subseteq SUBSET Labels
    /\ MaxRetries \in Nat \ {0} /\ FetchLimit \in Nat \ {0}
    /\ {MaxOps, MaxSyncs, MaxFaults, MaxCrashes} \subseteq Nat

(* A row is created at most once per execution of an operation, and a      *)
(* death makes the journal execute it once more.                           *)
Ids == 1 .. (MaxOps + MaxCrashes)

Types == {"addLabel", "removeLabel"}
Ops == [type : Types, label : Labels]

VARIABLES
    rows,      \* pending_operations, a function on the ids in the table
    nextId,    \* uuid of the next row
    intents,   \* pending_thread_label_intents, per label
    truth,     \* thread_labels
    gen,       \* threads.label_membership_generation
    remote,    \* the labels the provider holds (external)
    snap,      \* what a running sync fetched, None when no sync runs
    pc,        \* where the worker is
    job,       \* the user operation it executes
    genSeen,   \* LocalLabelStep.generation_seen
    outcome,   \* the ActionOutcome at hand
    batch,     \* rows fetched and not yet processed
    cur,       \* the row being processed
    flight,    \* the thread's key is in ActionContext.in_flight
    ops, syncs, faults, crashes,   \* how many of each bound were used
    asked      \* ghost: the rows a retry of which reached the provider

table   == <<rows, nextId>>
thread  == <<intents, truth, gen>>
action  == <<job, genSeen>>
drain   == <<batch, cur>>
bounds  == <<ops, syncs, faults, crashes>>
vars    == <<table, thread, remote, snap, pc, action, outcome, drain, flight,
             bounds, asked>>

-----------------------------------------------------------------------------
(* What a label operation writes.  Adding an importance level removes its  *)
(* opposite.                                                               *)
label_intents(op) ==
    IF op.type = "addLabel" /\ Opposite[op.label] # None
    THEN [l \in {op.label, Opposite[op.label]} |->
            IF l = op.label THEN "Add" ELSE "Remove"]
    ELSE [l \in {op.label} |-> IF op.type = "addLabel" THEN "Add" ELSE "Remove"]

Writes(op) == DOMAIN label_intents(op)

ApplyTo(labels, op) ==
    LET w == label_intents(op)
    IN  (labels \ {l \in DOMAIN w : w[l] = "Remove"})
            \cup {l \in DOMAIN w : w[l] = "Add"}

Live(id) == id \in DOMAIN rows /\ rows[id].status \in {"pending", "executing"}

(* The label as lists and chips show it: truth under the overlay. *)
Visible(l) ==
    \/ l \in truth /\ ~(intents[l] # None /\ intents[l].op = "Remove")
    \/ intents[l] # None /\ intents[l].op = "Add"

(* Rows of the table without those of ids. *)
Without(ids) == [id \in DOMAIN rows \ ids |-> rows[id]]

LiveOfType(t) == {id \in DOMAIN rows : Live(id) /\ rows[id].op.type = t}

(* Mutant: Every entry older than the write of truth is cleared, satisfied or not. *)
clear_unsatisfied(its, now, g) ==
    [l \in Labels |-> IF its[l] # None /\ its[l].gen < g THEN None ELSE its[l]]

(* Intents that the labels `now`, of generation g, satisfy. *)
clear_satisfied(its, now, g) ==
    [l \in Labels |->
        IF /\ its[l] # None
           /\ its[l].gen < g
           /\ its[l].op = (IF l \in now THEN "Add" ELSE "Remove")
        THEN None ELSE its[l]]

(* finalize_provider_truth_label_membership: after every write of truth. *)
SetTruth(labels) ==
    /\ truth' = labels
    /\ gen' = gen + 1
    /\ intents' = clear_satisfied(intents, labels, gen + 1)

(* The intents an operation wrote at generation g and nobody overwrote. *)
OwnIntents(op, g) ==
    LET w == label_intents(op)
    IN  {l \in DOMAIN w : /\ intents[l] # None
                          /\ intents[l].op = w[l] /\ intents[l].gen = g}

WriteOk == UNCHANGED faults
WriteFails == faults < MaxFaults /\ faults' = faults + 1

-----------------------------------------------------------------------------
Init ==
    /\ rows = <<>> /\ nextId = 1
    /\ intents = [l \in Labels |-> None]
    /\ truth \in Starts /\ remote = truth
    /\ gen = 1
    /\ snap = None
    /\ pc = "parked" /\ job = None /\ genSeen = 0 /\ outcome = "none"
    /\ batch = {} /\ cur = None /\ flight = FALSE
    /\ ops = 0 /\ syncs = 0 /\ faults = 0 /\ crashes = 0
    /\ asked = {}

(* drain_one_pass leases a user's operation, whose handler woke the worker, *)
(* or the next one queued: all of them come before the retry queue.         *)
LeaseOp ==
    /\ pc \in {"parked", "fetch"} /\ ops < MaxOps
    /\ ops' = ops + 1
    /\ \E op \in Ops : job' = op
    /\ pc' = "local"
    /\ UNCHANGED <<table, thread, remote, snap, genSeen, outcome, drain, flight,
                   syncs, faults, crashes, asked>>

(* Mutant: The upsert keeps the action id of the entry it overwrites. *)
upsert_keeps_action(op) ==
    LET w == label_intents(op)
    IN  [l \in Labels |->
            IF l \in DOMAIN w
            THEN [op |-> w[l], gen |-> gen, aged |-> FALSE,
                  action |-> IF intents[l] # None THEN intents[l].action ELSE None]
            ELSE intents[l]]

(* execute_account_group takes the thread's flight; label_local_step       *)
(* upserts the overlay entries with no action id, stamped with the         *)
(* generation at hand.                                                     *)
upsert_intents(op) ==
    LET w == label_intents(op)
    IN  [l \in Labels |->
            IF l \in DOMAIN w
            THEN [op |-> w[l], gen |-> gen, action |-> None, aged |-> FALSE]
            ELSE intents[l]]

label_local_step ==
    /\ pc = "local" /\ ~flight
    /\ \/ /\ WriteOk
          /\ intents' = upsert_intents(job)
          /\ genSeen' = gen
          /\ flight' = TRUE
          /\ pc' = "dispatch"
       \/ /\ WriteFails                          \* Failed: nothing was written
          /\ pc' = "record"
          /\ UNCHANGED <<intents, genSeen, flight>>
    /\ UNCHANGED <<table, truth, gen, remote, snap, job, outcome, drain,
                   ops, syncs, crashes, asked>>

(* The provider call: done, refused for good, failed in a retryable way     *)
(* before (or, its answer lost, after) the provider applied it.  No engine  *)
(* handle is a retryable failure.                                           *)
dispatch_label_engine ==
    /\ pc = "dispatch"
    /\ \/ /\ remote' = ApplyTo(remote, job) /\ pc' = "confirm"
       \/ /\ UNCHANGED remote /\ pc' = "clear"
       \/ /\ UNCHANGED remote /\ pc' = "enqueue"
       \/ /\ remote' = ApplyTo(remote, job) /\ pc' = "enqueue"
    /\ UNCHANGED <<table, thread, snap, action, outcome, drain, flight, bounds, asked>>

(* confirm_provider_intents, one transaction.  Its failure is a database     *)
(* error, which is not retryable: nothing is enqueued, the entries stay.     *)
confirm_provider_intents ==
    /\ pc = "confirm"
    /\ \/ WriteOk /\ SetTruth(ApplyTo(truth, job)) /\ pc' = "record"
       \/ WriteFails /\ UNCHANGED thread /\ pc' = "record"
    /\ UNCHANGED <<table, remote, snap, action, outcome, drain, flight,
                   ops, syncs, crashes, asked>>

(* Permanent failure: clear_pending_intents_immediate. *)
clear_pending_intents ==
    /\ pc = "clear"
    /\ \/ /\ WriteOk
          /\ intents' = [l \in Labels |->
                IF l \in OwnIntents(job, genSeen) THEN None ELSE intents[l]]
       \/ WriteFails /\ UNCHANGED intents
    /\ pc' = "record"
    /\ UNCHANGED <<table, truth, gen, remote, snap, action, outcome, drain,
                   flight, ops, syncs, crashes, asked>>

(* Mutant: The replace forgets rows that were left executing. *)
ReplacedPendingOnly(op) == {id \in LiveOfType(op.type) : rows[id].status = "pending"}

(* db_pending_ops_enqueue_sync: delete the live rows of the operation's    *)
(* type, whatever their label, then insert.                                *)
Replaced(op) == LiveOfType(op.type)

NewRow(op) == [op |-> op, status |-> "pending", retries |-> 0, due |-> TRUE]

enqueue_if_retryable ==
    /\ pc = "enqueue"
    /\ \/ /\ WriteOk
          /\ rows' = [id \in (DOMAIN rows \ Replaced(job)) \cup {nextId} |->
                        IF id = nextId THEN NewRow(job) ELSE rows[id]]
          /\ nextId' = nextId + 1
          /\ pc' = "attach"
       \/ WriteFails /\ UNCHANGED table /\ pc' = "record"
    /\ UNCHANGED <<thread, remote, snap, action, outcome, drain, flight,
                   ops, syncs, crashes, asked>>

(* attach_action_id_to_pending_thread_label_intents. *)
attach_pending_action_id ==
    /\ pc = "attach"
    /\ LET id == nextId - 1
           own == OwnIntents(job, genSeen)
       IN  \/ /\ WriteOk
              /\ intents' = [l \in Labels |->
                    IF l \in own
                    THEN [intents[l] EXCEPT !.action = id, !.aged = FALSE]
                    ELSE intents[l]]
           \/ WriteFails /\ UNCHANGED intents
    /\ pc' = "record"
    /\ UNCHANGED <<table, truth, gen, remote, snap, action, outcome, drain,
                   flight, ops, syncs, crashes, asked>>

(* The flight guard drops and the outcome is journaled; the pass then goes  *)
(* on to the retry queue.                                                   *)
RecordOutcome ==
    /\ pc = "record"
    /\ job' = None /\ genSeen' = 0 /\ flight' = FALSE
    /\ pc' = "fetch"
    /\ UNCHANGED <<table, thread, remote, snap, outcome, drain, bounds, asked>>

-----------------------------------------------------------------------------
(* process_pending_ops *)

(* pending_ops.kick, sent on the UI's sync tick. *)
Kick ==
    /\ pc = "parked" /\ pc' = "fetch"
    /\ UNCHANGED <<table, thread, remote, snap, action, outcome, drain, flight,
                   bounds, asked>>

(* Mutant: Rows that were retried once are never fetched again. *)
DueFresh == {id \in DOMAIN rows : /\ rows[id].status = "pending"
                                  /\ rows[id].due /\ rows[id].retries = 0}

(* db_pending_ops_get: the due rows, oldest first, at most FetchLimit. *)
Due == {id \in DOMAIN rows : rows[id].status = "pending" /\ rows[id].due}

db_pending_ops_get ==
    /\ pc = "fetch"
    /\ \/ /\ WriteOk
          /\ batch' = {id \in Due : Cardinality({i \in Due : i < id}) < FetchLimit}
          /\ pc' = "sweep"
       \/ WriteFails /\ batch' = {} /\ pc' = "parked"
    /\ UNCHANGED <<table, thread, remote, snap, action, outcome, cur, flight,
                   ops, syncs, crashes, asked>>

(* Mutant: The sweep takes entries of unattached operations only. *)
StaleUnattached(l) == intents[l] # None /\ intents[l].aged /\ intents[l].action = None

(* delete_stale_pending_thread_label_intents, before the batch is processed. *)
Stale(l) ==
    /\ intents[l] # None /\ intents[l].aged
    /\ intents[l].action = None \/ ~Live(intents[l].action)

sweep_stale_label_intents ==
    /\ pc = "sweep"
    /\ \/ /\ WriteOk
          /\ intents' = [l \in Labels |-> IF Stale(l) THEN None ELSE intents[l]]
       \/ WriteFails /\ UNCHANGED intents
    /\ pc' = "next"
    /\ UNCHANGED <<table, truth, gen, remote, snap, action, outcome, drain,
                   flight, ops, syncs, crashes, asked>>

(* process_account_group takes the next row and its thread's flight, *)
(* which it keeps until the row is settled.                          *)
TakeRow ==
    /\ pc = "next"
    /\ IF batch = {}
       THEN pc' = "parked" /\ UNCHANGED <<batch, cur, flight>>
       ELSE /\ \E oldest \in batch :
                  /\ \A id \in batch : oldest <= id
                  /\ cur' = oldest /\ batch' = batch \ {oldest}
            /\ flight' = TRUE
            /\ pc' = "mark"
    /\ UNCHANGED <<table, thread, remote, snap, action, outcome, bounds, asked>>

(* The row it read is taken as it was then: a row deleted meanwhile is      *)
(* updated in vain and dispatched all the same.                             *)
SetRow(id, row) == [i \in DOMAIN rows |-> IF i = id THEN row ELSE rows[i]]

MarkExecuting ==
    /\ pc = "mark"
    /\ \/ /\ WriteOk
          /\ rows' = IF cur \in DOMAIN rows
                     THEN SetRow(cur, [rows[cur] EXCEPT !.status = "executing"])
                     ELSE rows
          /\ pc' = "retry"
          /\ UNCHANGED <<cur, flight>>
       \/ /\ WriteFails
          /\ pc' = "next" /\ cur' = None /\ flight' = FALSE
          /\ UNCHANGED rows
    /\ UNCHANGED <<nextId, thread, remote, snap, action, outcome, batch,
                   ops, syncs, crashes, asked>>

(* dispatch_pending_op calls batch_execute, whose first act, with or        *)
(* without an engine handle, is to take the flight of the thread; failing   *)
(* that, the outcome is Failed and the provider is not called.              *)
RetryOutcomes == IF flight THEN {"Failed"} ELSE {"Success", "LocalOnly"}

dispatch_pending_op ==
    /\ pc = "retry"
    /\ outcome' \in RetryOutcomes
    /\ asked' = IF outcome' = "Failed" THEN asked ELSE asked \cup {cur}
    /\ pc' = "settle"
    /\ UNCHANGED <<table, thread, remote, snap, action, drain, flight, bounds>>

(* db_pending_ops_increment_retry_sync: back off, or give up and drop the   *)
(* overlay entries of the operation.                                        *)
Exhausted(id) == rows[id].retries + 1 >= MaxRetries

Retried(id) ==
    [rows[id] EXCEPT !.retries = @ + 1,
                     !.status = IF Exhausted(id) THEN "failed" ELSE "pending",
                     !.due = Exhausted(id)]

IntentsWithout(id) ==
    [l \in Labels |-> IF intents[l] # None /\ intents[l].action = id
                      THEN None ELSE intents[l]]

increment_retry ==
    /\ rows' = SetRow(cur, Retried(cur))
    /\ intents' = IF Exhausted(cur) THEN IntentsWithout(cur) ELSE intents

SettleRow ==
    /\ pc = "settle"
    /\ \/ /\ WriteOk
          /\ IF cur \notin DOMAIN rows
             THEN UNCHANGED <<rows, intents>>
             ELSE IF outcome = "Success"
             THEN rows' = Without({cur}) /\ UNCHANGED intents
             ELSE increment_retry
       \/ WriteFails /\ UNCHANGED <<rows, intents>>
    /\ pc' = "next" /\ outcome' = "none" /\ cur' = None /\ flight' = FALSE
    /\ UNCHANGED <<nextId, truth, gen, remote, snap, action, batch,
                   ops, syncs, crashes, asked>>

-----------------------------------------------------------------------------
(* The undo of an operation: handle_cancel_for_resource, at any moment. *)
CancelForResource(t) ==
    /\ LiveOfType(t) # {}
    /\ rows' = Without(LiveOfType(t))
    /\ UNCHANGED <<nextId, thread, remote, snap, pc, action, outcome, drain,
                   flight, bounds, asked>>

(* A sync of the account: what it fetched is written later. *)
SyncFetch ==
    /\ snap = None /\ syncs < MaxSyncs
    /\ snap' = remote /\ syncs' = syncs + 1
    /\ UNCHANGED <<table, thread, remote, pc, action, outcome, drain, flight,
                   ops, faults, crashes, asked>>

SyncApply ==
    /\ snap # None
    /\ SetTruth(snap)
    /\ snap' = None
    /\ UNCHANGED <<table, remote, pc, action, outcome, drain, flight, bounds, asked>>

(* An hour, the longest backoff, passes; two days, the age of the sweep. *)
AllDue == [id \in DOMAIN rows |-> [rows[id] EXCEPT !.due = TRUE]]

AnHourPasses ==
    /\ \E id \in DOMAIN rows : ~rows[id].due
    /\ rows' = AllDue
    /\ UNCHANGED <<nextId, thread, remote, snap, pc, action, outcome, drain,
                   flight, bounds, asked>>

TwoDaysPass ==
    /\ \E l \in Labels : intents[l] # None /\ ~intents[l].aged
    /\ intents' = [l \in Labels |->
          IF intents[l] = None THEN None ELSE [intents[l] EXCEPT !.aged = TRUE]]
    /\ rows' = AllDue
    /\ UNCHANGED <<nextId, truth, gen, remote, snap, pc, action, outcome, drain,
                   flight, bounds, asked>>

(* The table as the death of the process leaves it: whole, or with only the *)
(* first statement of the write it was in.                                  *)
TornTables ==
    {rows}
      \cup (IF pc = "enqueue" THEN {Without(Replaced(job))} ELSE {})
      \cup (IF pc = "settle" /\ cur \in DOMAIN rows /\ Exhausted(cur)
            THEN {SetRow(cur, Retried(cur))} ELSE {})

recover_executing(t) ==
    [id \in DOMAIN t |->
        IF t[id].status = "executing" THEN [t[id] EXCEPT !.status = "pending"]
        ELSE t[id]]

(* Death and boot: recover_on_boot, and the journal re-leases the operation *)
(* whose outcome was not recorded.                                          *)
Restart ==
    /\ crashes < MaxCrashes
    /\ crashes' = crashes + 1
    /\ \E t \in TornTables : rows' = recover_executing(t)
    /\ pc' = IF job # None THEN "local" ELSE "parked"
    /\ flight' = FALSE
    /\ snap' = None /\ genSeen' = 0 /\ outcome' = "none" /\ batch' = {} /\ cur' = None
    /\ UNCHANGED <<nextId, thread, remote, job, ops, syncs, faults, asked>>

-----------------------------------------------------------------------------
WorkerStep ==
    \/ label_local_step \/ dispatch_label_engine \/ confirm_provider_intents
    \/ clear_pending_intents \/ enqueue_if_retryable \/ attach_pending_action_id
    \/ RecordOutcome
    \/ db_pending_ops_get \/ sweep_stale_label_intents \/ TakeRow
    \/ MarkExecuting \/ dispatch_pending_op \/ SettleRow

Next ==
    \/ LeaseOp \/ Kick \/ WorkerStep
    \/ \E t \in Types : CancelForResource(t)
    \/ SyncFetch \/ SyncApply
    \/ AnHourPasses \/ TwoDaysPass
    \/ Restart

(* The worker's task is scheduled, the UI kicks it on every tick, and time  *)
(* passes.  Users, syncs, failures and deaths need not happen.              *)
Fairness ==
    /\ WF_vars(WorkerStep) /\ WF_vars(Kick)
    /\ WF_vars(AnHourPasses) /\ WF_vars(TwoDaysPass)

Spec == Init /\ [][Next]_vars
FairSpec == Spec /\ Fairness

-----------------------------------------------------------------------------
Row == [op : Ops, status : {"pending", "executing", "failed"},
        retries : 0 .. MaxRetries, due : BOOLEAN]
Intent == [op : {"Add", "Remove"}, gen : Nat, action : Ids \cup {None}, aged : BOOLEAN]

ASSUME NoneAssumption == None \notin Ids /\ None \notin Intent

(* The shape of the tables and of the worker's state. *)
TablesType ==
    /\ DOMAIN rows \subseteq Ids /\ rows \in [DOMAIN rows -> Row]
    /\ nextId \in 1 .. (MaxOps + MaxCrashes + 1)
    /\ intents \in [Labels -> Intent \cup {None}]
    /\ truth \subseteq Labels /\ remote \subseteq Labels /\ gen \in Nat
    /\ snap \in {None} \cup SUBSET Labels

WorkerType ==
    /\ pc \in {"parked", "local", "dispatch", "confirm", "clear", "enqueue",
               "attach", "record", "fetch", "sweep", "next", "mark", "retry", "settle"}
    /\ job \in Ops \cup {None} /\ genSeen \in Nat
    /\ outcome \in {"none", "Success", "LocalOnly", "Failed"}
    /\ batch \subseteq Ids /\ cur \in Ids \cup {None} /\ flight \in BOOLEAN
    /\ asked \subseteq Ids
    /\ ops \in 0 .. MaxOps /\ syncs \in 0 .. MaxSyncs
    /\ faults \in 0 .. MaxFaults /\ crashes \in 0 .. MaxCrashes

TypeOK == TablesType /\ WorkerType

(* Whatever was replaced, cancelled, half-committed or recovered, at most   *)
(* one operation of a type is still to be retried for the thread: two would *)
(* run in an order nobody chose.                                            *)
OneLivePerType == \A t \in Types : Cardinality(LiveOfType(t)) <= 1

(* An overlay entry names only an operation that wrote exactly this entry:  *)
(* giving up on an operation cannot take down the overlay of a later one    *)
(* (attach and delete_..._for_action).                                      *)
OverlayIsOwn ==
    \A l \in Labels :
        intents[l] # None /\ intents[l].action # None
            /\ intents[l].action \in DOMAIN rows
        => /\ l \in Writes(rows[intents[l].action].op)
           /\ label_intents(rows[intents[l].action].op)[l] = intents[l].op

(* While an operation waits to be retried, no step flips what the user      *)
(* chose under their eyes, unless they operate on the label again: not the  *)
(* write of a sync, fetched before or after the operation, not the sweep,   *)
(* not the failure of another operation.  The entry leaves only when truth  *)
(* has come to agree with it, or with its row.                              *)
ChoiceKept(l, id) ==
    /\ intents[l] # None /\ intents[l].action = id
    /\ Live(id) /\ Live(id)'
    /\ ~(pc = "local" /\ pc' = "dispatch" /\ l \in Writes(job))
    => Visible(l)' = (label_intents(rows[id].op)[l] = "Add")

ChoiceStaysVisible == [][\A l \in Labels, id \in Ids : ChoiceKept(l, id)]_vars

(* A row whose final write failed stays 'executing', out of the drainer's   *)
(* sight, until the next boot.                                              *)
Stuck(id) == id \in DOMAIN rows /\ rows[id].status = "executing" /\ cur # id

(* Once the user stops, every queued operation is in the end done,          *)
(* cancelled, replaced or given up, or was left 'executing' by a failed     *)
(* write.                                                                   *)
QueueDrains == []<>(\A id \in Ids : ~Live(id) \/ Stuck(id))

(* No overlay entry masks the provider's truth for ever: it is confirmed,   *)
(* cleared, given up with its operation or swept, also when its row was     *)
(* replaced by one for another label, cancelled, or never attached; only a  *)
(* row left 'executing' keeps its entry.                                    *)
Pinned(l) == intents[l].action # None /\ Stuck(intents[l].action)

OverlayEnds == []<>(\A l \in Labels : intents[l] = None \/ Pinned(l))

(* "A periodic worker re-dispatches pending ops through the action service" *)
(* (actions/pending.rs:4): an operation is given up only after a retry of   *)
(* it reached the provider.                                                 *)
GivenUpWasAsked ==
    \A id \in DOMAIN rows : rows[id].status = "failed" => id \in asked
=============================================================================
