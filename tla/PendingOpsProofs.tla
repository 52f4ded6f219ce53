-------------------------- MODULE PendingOpsProofs --------------------------
(***************************************************************************)
(* Proofs about the retry queue and the label overlay of a thread, for     *)
(* every set of labels, every retry and fetch limit and any number of      *)
(* operations, syncs, failing writes and deaths.  The inductive invariant  *)
(* is QueueInv.                                                            *)
(***************************************************************************)
EXTENDS PendingOps, FiniteSetTheorems, TLAPS

(* Where the worker may still create the row of its operation. *)
Creating == {"local", "dispatch", "confirm", "clear", "enqueue"}

(* Where the overlay entries of its operation are written. *)
Written == {"dispatch", "confirm", "clear", "enqueue", "attach"}

(* Where the worker holds a row of the batch. *)
Holding == {"mark", "retry", "settle"}

(* An execution creates at most one row, and a death makes one more. *)
CountInv ==
    /\ nextId - 1 + (IF pc \in Creating THEN 1 ELSE 0) <= ops + crashes
    /\ IF pc \in Creating \cup Written \cup {"record"} THEN job \in Ops ELSE job = None
    /\ pc = "attach" => nextId > 1

(* Row ids are fresh, and a row that may be retried has an attempt left. *)
RowsInv ==
    \A id \in DOMAIN rows :
        id < nextId /\ (Live(id) => rows[id].retries < MaxRetries)

(* The drainer's rows are those it fetched as pending and has not touched. *)
BatchInv ==
    /\ pc \notin Holding \cup {"sweep", "next"} => batch = {}
    /\ \A id \in batch \cap DOMAIN rows : rows[id].status = "pending"
    /\ pc \in Holding => cur \in Ids \ batch
    /\ pc = "mark" /\ cur \in DOMAIN rows => rows[cur].status = "pending"
    /\ pc \in {"retry", "settle"} /\ cur \in DOMAIN rows => rows[cur].status = "executing"

(* Two live rows of a type are one row. *)
LiveInv == \A t \in Types : \A i, j \in LiveOfType(t) : i = j

(* An entry names an older row, the operation in hand names no row yet,    *)
(* and the row about to be attached is its own.                             *)
EntryInv ==
    /\ \A l \in Labels : intents[l] # None /\ intents[l].action # None
                         => intents[l].action < nextId
    /\ pc \in Written => \A l \in Writes(job) : intents[l] = None \/ intents[l].action = None
    /\ pc = "attach" /\ (nextId - 1) \in DOMAIN rows => rows[nextId - 1].op = job

QueueInv ==
    /\ TypeOK /\ CountInv /\ RowsInv /\ BatchInv /\ LiveInv /\ EntryInv /\ OverlayIsOwn

-----------------------------------------------------------------------------
(* What the tables may become in a step that creates no row and writes no  *)
(* entry: rows disappear, are given up or keep their liveness, and never   *)
(* change their operation; entries disappear or age.                        *)

KeptRows(t) ==
    /\ DOMAIN t \subseteq DOMAIN rows /\ t \in [DOMAIN t -> Row]
    /\ \A id \in DOMAIN t :
          /\ t[id].op = rows[id].op
          /\ t[id].status # "failed" =>
                rows[id].status # "failed" /\ t[id].retries < MaxRetries

KeptEntries(its) ==
    /\ its \in [Labels -> Intent \cup {None}]
    /\ \A l \in Labels :
          \/ its[l] = None
          \/ /\ intents[l] # None
             /\ its[l].op = intents[l].op /\ its[l].action = intents[l].action

(* Entries are records, which None is not: the type leaves both open. *)
LEMMA RowStatus ==
    ASSUME TypeOK, RowsInv, NEW id \in DOMAIN rows
    PROVE  /\ rows[id] \in Row
           /\ Live(id) <=> rows[id].status # "failed"
           /\ rows[id].status # "failed" => rows[id].retries < MaxRetries
BY DEF TypeOK, TablesType, RowsInv, Live, Row

LEMMA KeepsAll ==
    ASSUME TypeOK, RowsInv
    PROVE  KeptRows(rows)
BY RowStatus DEF KeptRows, TypeOK, TablesType

LEMMA KeepsWithout ==
    ASSUME TypeOK, RowsInv, NEW S
    PROVE  KeptRows(Without(S))
BY RowStatus DEF KeptRows, Without

LEMMA KeepsDue ==
    ASSUME TypeOK, RowsInv
    PROVE  KeptRows(AllDue)
<1>1. \A id \in DOMAIN rows : [rows[id] EXCEPT !.due = TRUE] \in Row
    BY RowStatus DEF Row
<1> QED BY <1>1, RowStatus DEF KeptRows, AllDue, Row

LEMMA KeepsMarked ==
    ASSUME TypeOK, RowsInv, cur \in DOMAIN rows, rows[cur].status = "pending"
    PROVE  KeptRows(SetRow(cur, [rows[cur] EXCEPT !.status = "executing"]))
<1>1. [rows[cur] EXCEPT !.status = "executing"] \in Row
    BY RowStatus DEF Row
<1> QED BY <1>1, RowStatus DEF KeptRows, SetRow, Row

LEMMA KeepsRetried ==
    ASSUME TypeOK, RowsInv, cur \in DOMAIN rows, rows[cur].status = "executing"
    PROVE  /\ KeptRows(SetRow(cur, Retried(cur)))
           /\ Retried(cur).status \in {"failed", "pending"}
<1>1. /\ rows[cur] \in Row /\ rows[cur].retries < MaxRetries
      /\ rows[cur].retries \in 0 .. MaxRetries
    BY RowStatus DEF Row
<1>2. Retried(cur) \in Row /\ Retried(cur).op = rows[cur].op
    <2>1. rows[cur].retries + 1 \in 0 .. MaxRetries
        BY <1>1, PendingAssumption
    <2>2. Exhausted(cur) \in BOOLEAN
        BY DEF Exhausted
    <2> QED BY <1>1, <2>1, <2>2 DEF Retried, Row
<1>3. Retried(cur).status # "failed" => Retried(cur).retries < MaxRetries
    <2>1. /\ Retried(cur).retries = rows[cur].retries + 1
          /\ Retried(cur).status = IF Exhausted(cur) THEN "failed" ELSE "pending"
        BY <1>1 DEF Retried, Row
    <2> QED BY <1>1, <2>1, PendingAssumption DEF Exhausted
<1> QED BY <1>1, <1>2, <1>3, RowStatus DEF KeptRows, SetRow, Row, Retried

LEMMA KeepsRecovered ==
    ASSUME NEW t, KeptRows(t)
    PROVE  /\ KeptRows(recover_executing(t))
           /\ \A id \in DOMAIN recover_executing(t) :
                 recover_executing(t)[id].status # "executing"
<1>1. \A id \in DOMAIN t : t[id] \in Row /\ [t[id] EXCEPT !.status = "pending"] \in Row
    BY DEF KeptRows, Row
<1> QED BY <1>1 DEF KeptRows, recover_executing, Row

(* Whatever a death keeps of the write it interrupts. *)
LEMMA KeepsTorn ==
    ASSUME TypeOK, RowsInv, BatchInv, NEW t \in TornTables
    PROVE  KeptRows(t)
<1>1. CASE t = rows
    BY <1>1, KeepsAll
<1>2. CASE t = Without(Replaced(job))
    BY <1>2, KeepsWithout
<1>3. CASE pc = "settle" /\ cur \in DOMAIN rows /\ t = SetRow(cur, Retried(cur))
    BY <1>3, KeepsRetried DEF BatchInv
<1> QED BY <1>1, <1>2, <1>3 DEF TornTables

-----------------------------------------------------------------------------
(* Who writes which table. *)

LEMMA RowWriters ==
    ASSUME [Next]_vars
    PROVE  \/ UNCHANGED <<rows, nextId>>
           \/ enqueue_if_retryable
           \/ UNCHANGED nextId /\ (\/ MarkExecuting \/ SettleRow \/ AnHourPasses
                                   \/ TwoDaysPass \/ Restart
                                   \/ \E t \in Types : CancelForResource(t))
BY DEF Next, WorkerStep, vars, table, LeaseOp, Kick, label_local_step,
       dispatch_label_engine, confirm_provider_intents, clear_pending_intents,
       attach_pending_action_id, RecordOutcome, db_pending_ops_get,
       sweep_stale_label_intents, TakeRow, MarkExecuting, dispatch_pending_op,
       SettleRow, CancelForResource, SyncFetch, SyncApply, AnHourPasses,
       TwoDaysPass, Restart

LEMMA EntryWriters ==
    ASSUME [Next]_vars
    PROVE  \/ UNCHANGED intents
           \/ label_local_step \/ confirm_provider_intents \/ clear_pending_intents
           \/ attach_pending_action_id \/ sweep_stale_label_intents \/ SettleRow
           \/ SyncApply \/ TwoDaysPass
BY DEF Next, WorkerStep, vars, thread, LeaseOp, Kick, dispatch_label_engine,
       enqueue_if_retryable, RecordOutcome, db_pending_ops_get, TakeRow,
       MarkExecuting, dispatch_pending_op, CancelForResource, SyncFetch,
       AnHourPasses, Restart

(* The rows after a step: kept, or one more. *)
LEMMA RowsStep ==
    ASSUME QueueInv, [Next]_vars
    PROVE  (KeptRows(rows') /\ UNCHANGED nextId) \/ enqueue_if_retryable
<1> USE DEF QueueInv
<1>0. CASE UNCHANGED <<rows, nextId>>
    BY <1>0, KeepsAll
<1>1. CASE MarkExecuting
    BY <1>1, KeepsAll, KeepsMarked DEF MarkExecuting, BatchInv
<1>2. CASE SettleRow
    BY <1>2, KeepsAll, KeepsWithout, KeepsRetried DEF SettleRow, BatchInv, increment_retry
<1>3. CASE AnHourPasses \/ TwoDaysPass
    BY <1>3, KeepsDue DEF AnHourPasses, TwoDaysPass
<1>4. CASE Restart
    BY <1>4, KeepsTorn, KeepsRecovered DEF Restart
<1>5. ASSUME NEW t \in Types, CancelForResource(t) PROVE KeptRows(rows') /\ UNCHANGED nextId
    BY <1>5, KeepsWithout DEF CancelForResource
<1> QED BY <1>0, <1>1, <1>2, <1>3, <1>4, <1>5, RowWriters

(* Clearing what a write of truth satisfies. *)
LEMMA KeepsUnsatisfied ==
    ASSUME TypeOK, NEW labels, SetTruth(labels)
    PROVE  KeptEntries(intents')
BY DEF TypeOK, TablesType, SetTruth, clear_satisfied, KeptEntries

(* The entries after a step: kept, written for an operation, or attached. *)
LEMMA EntriesStep ==
    ASSUME QueueInv, [Next]_vars
    PROVE  \/ KeptEntries(intents')
           \/ label_local_step /\ pc' = "dispatch"
           \/ attach_pending_action_id
<1> USE DEF QueueInv
<1>0. CASE UNCHANGED intents
    BY <1>0 DEF KeptEntries, TypeOK, TablesType
<1>1. CASE label_local_step
    BY <1>1 DEF label_local_step, KeptEntries, TypeOK, TablesType
<1>2. CASE confirm_provider_intents
    BY <1>2, KeepsUnsatisfied
       DEF confirm_provider_intents, KeptEntries, TypeOK, TablesType, thread
<1>3. CASE clear_pending_intents
    BY <1>3 DEF clear_pending_intents, KeptEntries, TypeOK, TablesType
<1>4. CASE sweep_stale_label_intents
    BY <1>4 DEF sweep_stale_label_intents, KeptEntries, TypeOK, TablesType
<1>5. CASE SettleRow
    <2>1. intents' = intents \/ intents' = IntentsWithout(cur)
        BY <1>5 DEF SettleRow, increment_retry
    <2> QED BY <2>1 DEF IntentsWithout, KeptEntries, TypeOK, TablesType
<1>6. CASE SyncApply
    BY <1>6, KeepsUnsatisfied DEF SyncApply
<1>7. CASE TwoDaysPass
    <2>1. \A l \in Labels : intents[l] # None =>
              /\ intents[l] \in Intent
              /\ [intents[l] EXCEPT !.aged = TRUE] \in Intent
              /\ [intents[l] EXCEPT !.aged = TRUE].op = intents[l].op
              /\ [intents[l] EXCEPT !.aged = TRUE].action = intents[l].action
        BY DEF TypeOK, TablesType, Intent
    <2> QED BY <1>7, <2>1 DEF TwoDaysPass, KeptEntries
<1> QED BY <1>0, <1>1, <1>2, <1>3, <1>4, <1>5, <1>6, <1>7, EntryWriters

LEMMA WritesFacts ==
    ASSUME NEW op \in Ops
    PROVE  /\ Writes(op) \subseteq Labels
           /\ \A l \in Writes(op) : label_intents(op)[l] \in {"Add", "Remove"}
<1>1. op.label \in Labels /\ op.type \in Types
    BY DEF Ops
<1>2. CASE op.type = "addLabel" /\ Opposite[op.label] # None
    <2>1. Opposite[op.label] \in Labels
        BY <1>1, <1>2, PendingAssumption
    <2> QED BY <1>1, <1>2, <2>1 DEF Writes, label_intents
<1>3. CASE ~(op.type = "addLabel" /\ Opposite[op.label] # None)
    BY <1>1, <1>3 DEF Writes, label_intents
<1> QED BY <1>2, <1>3

(* Applying an operation to a set of labels. *)
LEMMA ApplyFacts ==
    ASSUME NEW op \in Ops, NEW labels \in SUBSET Labels
    PROVE  ApplyTo(labels, op) \subseteq Labels
BY WritesFacts DEF ApplyTo, Writes

(* The upsert of an operation's entries: no action id yet. *)
LEMMA Upserts ==
    ASSUME QueueInv, label_local_step, pc' = "dispatch"
    PROVE  /\ intents' \in [Labels -> Intent \cup {None}]
           /\ \A l \in Labels :
                 /\ l \in Writes(job) => intents'[l].action = None
                 /\ l \notin Writes(job) => intents'[l] = intents[l]
<1>1. intents' = upsert_intents(job) /\ pc = "local"
    BY DEF label_local_step
<1>2. job \in Ops
    BY <1>1 DEF QueueInv, CountInv, Creating
<1>3. \A l \in Writes(job) :
          [op |-> label_intents(job)[l], gen |-> gen, action |-> None, aged |-> FALSE]
              \in Intent
    BY <1>2, WritesFacts DEF Intent, QueueInv, TypeOK, TablesType
<1> QED BY <1>1, <1>3 DEF upsert_intents, Writes, QueueInv, TypeOK, TablesType

(* Attaching the row's id to the entries that are still the operation's. *)
LEMMA Attaches ==
    ASSUME QueueInv, attach_pending_action_id
    PROVE  /\ intents' \in [Labels -> Intent \cup {None}]
           /\ pc = "attach" /\ job \in Ops
           /\ \A l \in Labels :
                 \/ intents'[l] = intents[l]
                 \/ /\ l \in Writes(job) /\ intents[l] # None
                    /\ intents'[l].action = nextId - 1
                    /\ intents'[l].op = intents[l].op
                    /\ intents'[l].op = label_intents(job)[l]
<1>1. pc = "attach" /\ job \in Ops /\ nextId - 1 \in Ids
    <2>1. pc = "attach"
        BY DEF attach_pending_action_id
    <2>2. job \in Ops /\ nextId > 1
        BY <2>1 DEF QueueInv, CountInv, Written
    <2>3. nextId \in 1 .. (MaxOps + MaxCrashes + 1) /\ MaxOps \in Nat /\ MaxCrashes \in Nat
        BY PendingAssumption DEF QueueInv, TypeOK, TablesType
    <2> QED BY <2>1, <2>2, <2>3 DEF Ids
<1>2. \A l \in Labels : intents[l] # None =>
          /\ [intents[l] EXCEPT !.action = nextId - 1, !.aged = FALSE] \in Intent
          /\ [intents[l] EXCEPT !.action = nextId - 1, !.aged = FALSE].action = nextId - 1
          /\ [intents[l] EXCEPT !.action = nextId - 1, !.aged = FALSE].op = intents[l].op
    BY <1>1 DEF QueueInv, TypeOK, TablesType, Intent
<1>3. \/ intents' = intents
      \/ intents' = [l \in Labels |->
            IF l \in OwnIntents(job, genSeen)
            THEN [intents[l] EXCEPT !.action = nextId - 1, !.aged = FALSE]
            ELSE intents[l]]
    BY DEF attach_pending_action_id
<1>4. \A l \in OwnIntents(job, genSeen) :
          l \in Writes(job) /\ intents[l] # None /\ intents[l].op = label_intents(job)[l]
    BY DEF OwnIntents, Writes
<1> QED BY <1>1, <1>2, <1>3, <1>4 DEF QueueInv, TypeOK, TablesType

-----------------------------------------------------------------------------
(* One lemma per part of the invariant. *)

(* The operation in hand, and how many rows it may still create. *)
LEMMA CountStep ==
    ASSUME QueueInv, [Next]_vars
    PROVE  CountInv'
<1> USE DEF QueueInv, TypeOK, TablesType, WorkerType, CountInv, Creating, Written, bounds, table, action
<1>1. CASE LeaseOp
    BY <1>1 DEF LeaseOp
<1>2. CASE Kick
    BY <1>2 DEF Kick
<1>3. CASE label_local_step
    BY <1>3 DEF label_local_step
<1>4. CASE dispatch_label_engine
    BY <1>4 DEF dispatch_label_engine
<1>5. CASE confirm_provider_intents
    BY <1>5 DEF confirm_provider_intents
<1>6. CASE clear_pending_intents
    BY <1>6 DEF clear_pending_intents
<1>7. CASE enqueue_if_retryable
    BY <1>7 DEF enqueue_if_retryable
<1>8. CASE attach_pending_action_id
    BY <1>8 DEF attach_pending_action_id
<1>9. CASE RecordOutcome
    BY <1>9 DEF RecordOutcome
<1>10. CASE db_pending_ops_get
    BY <1>10 DEF db_pending_ops_get
<1>11. CASE sweep_stale_label_intents
    BY <1>11 DEF sweep_stale_label_intents
<1>12. CASE TakeRow
    BY <1>12 DEF TakeRow
<1>13. CASE MarkExecuting
    BY <1>13 DEF MarkExecuting
<1>14. CASE dispatch_pending_op
    BY <1>14 DEF dispatch_pending_op
<1>15. CASE SettleRow
    BY <1>15 DEF SettleRow
<1>16. ASSUME NEW t \in Types, CancelForResource(t) PROVE CountInv'
    BY <1>16 DEF CancelForResource
<1>17. CASE SyncFetch \/ SyncApply
    BY <1>17 DEF SyncFetch, SyncApply
<1>18. CASE AnHourPasses \/ TwoDaysPass
    BY <1>18 DEF AnHourPasses, TwoDaysPass
<1>19. CASE Restart
    BY <1>19 DEF Restart
<1>20. CASE UNCHANGED vars
    BY <1>20 DEF vars
<1> QED BY <1>1, <1>2, <1>3, <1>4, <1>5, <1>6, <1>7, <1>8, <1>9, <1>10, <1>11, <1>12,
           <1>13, <1>14, <1>15, <1>16, <1>17, <1>18, <1>19, <1>20 DEF Next, WorkerStep

(* An operation that reaches the queue finds an id left. *)
LEMMA IdLeft ==
    ASSUME QueueInv, pc = "enqueue"
    PROVE  nextId \in Ids /\ job \in Ops
<1>1. nextId \in Nat /\ nextId >= 1 /\ nextId <= ops + crashes /\ job \in Ops
    BY PendingAssumption DEF QueueInv, TypeOK, TablesType, WorkerType, CountInv, Creating
<1>2. ops \in Nat /\ crashes \in Nat /\ ops <= MaxOps /\ crashes <= MaxCrashes
    BY PendingAssumption DEF QueueInv, TypeOK, WorkerType
<1>3. MaxOps \in Nat /\ MaxCrashes \in Nat
    BY PendingAssumption
<1> QED BY <1>1, <1>2, <1>3 DEF Ids

(* The rows after an enqueue. *)
LEMMA Enqueues ==
    ASSUME QueueInv, enqueue_if_retryable
    PROVE  \/ UNCHANGED <<rows, nextId>> /\ pc' = "record"
           \/ /\ nextId' = nextId + 1 /\ pc' = "attach" /\ nextId \in Ids /\ job \in Ops
              /\ nextId \notin DOMAIN rows
              /\ DOMAIN rows' = (DOMAIN rows \ LiveOfType(job.type)) \cup {nextId}
              /\ rows' \in [DOMAIN rows' -> Row]
              /\ rows'[nextId] = NewRow(job)
              /\ \A id \in DOMAIN rows' \ {nextId} : rows'[id] = rows[id]
<1>0. pc = "enqueue" /\ nextId \in Ids /\ job \in Ops
    BY IdLeft DEF enqueue_if_retryable
<1>1. CASE UNCHANGED table /\ pc' = "record"
    BY <1>1 DEF table
<1>2. CASE /\ rows' = [id \in (DOMAIN rows \ Replaced(job)) \cup {nextId} |->
                          IF id = nextId THEN NewRow(job) ELSE rows[id]]
           /\ nextId' = nextId + 1 /\ pc' = "attach"
    <2>1. NewRow(job) \in Row
        BY <1>0, PendingAssumption DEF NewRow, Row
    <2>2. nextId \notin DOMAIN rows
        BY <1>0 DEF QueueInv, RowsInv, TypeOK, TablesType, Ids
    <2>3. \A id \in DOMAIN rows : rows[id] \in Row
        BY DEF QueueInv, TypeOK, TablesType
    <2> QED BY <1>0, <1>2, <2>1, <2>2, <2>3 DEF Replaced
<1> QED BY <1>1, <1>2 DEF enqueue_if_retryable

(* A failing write is counted within its bound. *)
LEMMA Faults ==
    ASSUME TypeOK, WriteOk \/ WriteFails
    PROVE  faults' \in 0 .. MaxFaults
<1>1. MaxFaults \in Nat /\ faults \in Nat /\ faults <= MaxFaults
    BY PendingAssumption DEF TypeOK, WorkerType
<1> QED BY <1>1 DEF WriteOk, WriteFails

LEMMA Fits ==
    ASSUME NEW n \in Nat, NEW o \in 0 .. MaxOps, NEW c \in 0 .. MaxCrashes, NEW d \in {0, 1},
           n >= 1, n - 1 + d <= o + c
    PROVE  n \in 1 .. (MaxOps + MaxCrashes + 1)
<1>1. MaxOps \in Nat /\ MaxCrashes \in Nat
    BY PendingAssumption
<1> QED BY <1>1

LEMMA TypeStep ==
    ASSUME QueueInv, [Next]_vars
    PROVE  TypeOK'
<1>1. WorkerType'
    <2> USE DEF QueueInv, TypeOK, WorkerType, bounds, action, drain
    <2>1. CASE LeaseOp
        <3>1. MaxOps \in Nat
            BY PendingAssumption
        <3>2. ops' \in 0 .. MaxOps
            BY <2>1, <3>1 DEF LeaseOp
        <3> QED BY <2>1, <3>2 DEF LeaseOp
    <2>2. CASE Kick
        BY <2>2 DEF Kick
    <2>3. CASE label_local_step
        <3>1. faults' \in 0 .. MaxFaults
            BY <2>3, Faults DEF label_local_step
        <3> QED BY <2>3, <3>1 DEF label_local_step, TablesType
    <2>4. CASE dispatch_label_engine
        BY <2>4 DEF dispatch_label_engine
    <2>5. CASE confirm_provider_intents
        <3>1. faults' \in 0 .. MaxFaults
            BY <2>5, Faults DEF confirm_provider_intents
        <3> QED BY <2>5, <3>1 DEF confirm_provider_intents
    <2>6. CASE clear_pending_intents
        <3>1. faults' \in 0 .. MaxFaults
            BY <2>6, Faults DEF clear_pending_intents
        <3> QED BY <2>6, <3>1 DEF clear_pending_intents
    <2>7. CASE enqueue_if_retryable
        <3>1. faults' \in 0 .. MaxFaults
            BY <2>7, Faults DEF enqueue_if_retryable
        <3> QED BY <2>7, <3>1 DEF enqueue_if_retryable
    <2>8. CASE attach_pending_action_id
        <3>1. faults' \in 0 .. MaxFaults
            BY <2>8, Faults DEF attach_pending_action_id
        <3> QED BY <2>8, <3>1 DEF attach_pending_action_id
    <2>9. CASE RecordOutcome
        BY <2>9 DEF RecordOutcome
    <2>10. CASE db_pending_ops_get
        <3>1. batch' \subseteq Ids
            BY <2>10 DEF db_pending_ops_get, Due, TablesType
        <3>2. faults' \in 0 .. MaxFaults
            BY <2>10, Faults DEF db_pending_ops_get
        <3> QED BY <2>10, <3>1, <3>2 DEF db_pending_ops_get
    <2>11. CASE sweep_stale_label_intents
        <3>1. faults' \in 0 .. MaxFaults
            BY <2>11, Faults DEF sweep_stale_label_intents
        <3> QED BY <2>11, <3>1 DEF sweep_stale_label_intents
    <2>12. CASE TakeRow
        <3>1. batch' \subseteq Ids /\ cur' \in Ids \cup {None}
            BY <2>12 DEF TakeRow
        <3> QED BY <2>12, <3>1 DEF TakeRow
    <2>13. CASE MarkExecuting
        <3>1. faults' \in 0 .. MaxFaults
            BY <2>13, Faults DEF MarkExecuting
        <3> QED BY <2>13, <3>1 DEF MarkExecuting
    <2>14. CASE dispatch_pending_op
        <3>1. pc = "retry" /\ cur \in Ids
            BY <2>14 DEF dispatch_pending_op, BatchInv, Holding
        <3> QED BY <2>14, <3>1 DEF dispatch_pending_op, RetryOutcomes
    <2>15. CASE SettleRow
        <3>1. faults' \in 0 .. MaxFaults
            BY <2>15, Faults DEF SettleRow
        <3> QED BY <2>15, <3>1 DEF SettleRow
    <2>16. ASSUME NEW t \in Types, CancelForResource(t) PROVE WorkerType'
        BY <2>16 DEF CancelForResource
    <2>17. CASE SyncFetch \/ SyncApply
        <3>1. MaxSyncs \in Nat
            BY PendingAssumption
        <3>2. syncs' \in 0 .. MaxSyncs
            BY <2>17, <3>1 DEF SyncFetch, SyncApply
        <3> QED BY <2>17, <3>2 DEF SyncFetch, SyncApply
    <2>18. CASE AnHourPasses \/ TwoDaysPass
        BY <2>18 DEF AnHourPasses, TwoDaysPass
    <2>19. CASE Restart
        <3>1. MaxCrashes \in Nat
            BY PendingAssumption
        <3>2. crashes' \in 0 .. MaxCrashes
            BY <2>19, <3>1 DEF Restart
        <3> QED BY <2>19, <3>2 DEF Restart
    <2>20. CASE UNCHANGED vars
        BY <2>20 DEF vars
    <2> QED BY <2>1, <2>2, <2>3, <2>4, <2>5, <2>6, <2>7, <2>8, <2>9, <2>10, <2>11, <2>12,
               <2>13, <2>14, <2>15, <2>16, <2>17, <2>18, <2>19, <2>20 DEF Next, WorkerStep
<1>2. DOMAIN rows' \subseteq Ids /\ rows' \in [DOMAIN rows' -> Row]
    BY RowsStep, Enqueues DEF KeptRows, QueueInv, TypeOK, TablesType
<1>3. nextId' \in 1 .. (MaxOps + MaxCrashes + 1)
    <2>1. nextId' \in Nat /\ nextId' >= 1
        BY RowsStep, Enqueues, PendingAssumption DEF QueueInv, TypeOK, TablesType
    <2>2. ops' \in 0 .. MaxOps /\ crashes' \in 0 .. MaxCrashes
        BY <1>1 DEF WorkerType
    <2>3. (nextId - 1 + (IF pc \in Creating THEN 1 ELSE 0) <= ops + crashes)'
        BY CountStep DEF CountInv
    <2>4. PICK d \in {0, 1} : nextId' - 1 + d <= ops' + crashes'
        BY <2>3
    <2> QED BY <2>1, <2>2, <2>4, Fits
<1>4. intents' \in [Labels -> Intent \cup {None}]
    BY EntriesStep, Upserts, Attaches DEF KeptEntries
<1>5. truth' \subseteq Labels /\ remote' \subseteq Labels /\ gen' \in Nat
      /\ snap' \in {None} \cup SUBSET Labels
    <2> USE DEF QueueInv, TypeOK, TablesType, thread
    <2>1. CASE dispatch_label_engine
        BY <2>1, ApplyFacts DEF dispatch_label_engine, CountInv, Written
    <2>2. CASE confirm_provider_intents
        BY <2>2, ApplyFacts DEF confirm_provider_intents, CountInv, Written, SetTruth
    <2>3. CASE SyncFetch \/ SyncApply
        BY <2>3 DEF SyncFetch, SyncApply, SetTruth
    <2>4. CASE Restart
        BY <2>4 DEF Restart
    <2>5. CASE UNCHANGED <<truth, remote, gen, snap>>
        BY <2>5
    <2> QED BY <2>1, <2>2, <2>3, <2>4, <2>5
            DEF Next, WorkerStep, vars, LeaseOp, Kick, label_local_step,
                clear_pending_intents, enqueue_if_retryable,
                attach_pending_action_id, RecordOutcome, db_pending_ops_get,
                sweep_stale_label_intents, TakeRow, MarkExecuting, dispatch_pending_op,
                SettleRow, CancelForResource, AnHourPasses, TwoDaysPass
<1> QED BY <1>1, <1>2, <1>3, <1>4, <1>5 DEF TypeOK, TablesType

LEMMA RowsInvStep ==
    ASSUME QueueInv, [Next]_vars
    PROVE  RowsInv'
<1>1. CASE KeptRows(rows') /\ UNCHANGED nextId
    BY <1>1 DEF KeptRows, RowsInv, Live, QueueInv
<1>2. CASE enqueue_if_retryable
    <2>1. CASE UNCHANGED <<rows, nextId>>
        BY <2>1 DEF RowsInv, Live, QueueInv
    <2>2. CASE /\ nextId' = nextId + 1 /\ nextId \in Ids
               /\ DOMAIN rows' = (DOMAIN rows \ LiveOfType(job.type)) \cup {nextId}
               /\ rows'[nextId] = NewRow(job)
               /\ \A id \in DOMAIN rows' \ {nextId} : rows'[id] = rows[id]
        <3>1. NewRow(job).retries < MaxRetries /\ nextId < nextId + 1
            BY <2>2, PendingAssumption DEF NewRow, Ids
        <3>2. \A id \in DOMAIN rows : id < nextId + 1
            BY <2>2 DEF RowsInv, QueueInv, TypeOK, TablesType, Ids
        <3> QED BY <2>2, <3>1, <3>2 DEF RowsInv, Live, QueueInv
    <2> QED BY <1>2, <2>1, <2>2, Enqueues
<1> QED BY <1>1, <1>2, RowsStep

(* An enqueue first removes the live rows of its type, and no other step   *)
(* brings a row to life.                                                    *)
LEMMA LiveStep ==
    ASSUME QueueInv, [Next]_vars
    PROVE  LiveInv'
<1> USE DEF QueueInv
<1>1. CASE KeptRows(rows')
    <2>1. \A t \in Types : LiveOfType(t)' \subseteq LiveOfType(t)
        BY <1>1, RowStatus DEF KeptRows, LiveOfType, Live
    <2> QED BY <2>1 DEF LiveInv
<1>2. CASE enqueue_if_retryable
    <2>1. CASE UNCHANGED <<rows, nextId>>
        BY <2>1 DEF LiveInv, LiveOfType, Live
    <2>2. CASE /\ nextId' = nextId + 1 /\ nextId \in Ids /\ job \in Ops
               /\ nextId \notin DOMAIN rows
               /\ DOMAIN rows' = (DOMAIN rows \ LiveOfType(job.type)) \cup {nextId}
               /\ rows'[nextId] = NewRow(job)
               /\ \A id \in DOMAIN rows' \ {nextId} : rows'[id] = rows[id]
        <3>1. rows'[nextId].op.type = job.type
            BY <2>2 DEF NewRow
        <3>2. ASSUME NEW t \in Types, t = job.type
              PROVE  LiveOfType(t)' \subseteq {nextId}
            <4>1. ASSUME NEW id \in LiveOfType(t)', id # nextId PROVE FALSE
                <5>1. id \in DOMAIN rows /\ id \notin LiveOfType(t) /\ rows'[id] = rows[id]
                    BY <2>2, <3>2, <4>1 DEF LiveOfType
                <5> QED BY <4>1, <5>1 DEF LiveOfType, Live
            <4> QED BY <4>1
        <3>3. ASSUME NEW t \in Types, t # job.type
              PROVE  LiveOfType(t)' \subseteq LiveOfType(t)
            BY <2>2, <3>1, <3>3 DEF LiveOfType, Live
        <3> QED BY <3>2, <3>3 DEF LiveInv
    <2> QED BY <1>2, <2>1, <2>2, Enqueues
<1> QED BY <1>1, <1>2, RowsStep

(* An entry's row is older than the next one; the operation in hand owns    *)
(* its entries until they are attached, and the row it created.             *)
LEMMA NamesStep ==
    ASSUME QueueInv, [Next]_vars
    PROVE  \A l \in Labels : intents'[l] # None /\ intents'[l].action # None
                             => intents'[l].action < nextId'
<1> USE DEF QueueInv
<1>0. nextId \in Nat /\ (nextId' = nextId \/ nextId' = nextId + 1)
    BY RowsStep, Enqueues DEF TypeOK, TablesType
<1>1. ASSUME NEW l \in Labels, intents'[l] # None, intents'[l].action # None
      PROVE  intents'[l].action < nextId' \/ intents'[l].action = nextId - 1
    <2>1. CASE intents[l] # None /\ intents'[l].action = intents[l].action
        <3>1. intents[l].action \in Ids /\ intents[l].action < nextId
            BY <1>1, <2>1 DEF EntryInv, TypeOK, TablesType, Intent
        <3> QED BY <1>0, <2>1, <3>1 DEF Ids
    <2>2. CASE KeptEntries(intents')
        BY <1>1, <2>1, <2>2 DEF KeptEntries
    <2>3. CASE label_local_step /\ pc' = "dispatch"
        BY <1>1, <2>1, <2>3, Upserts
    <2>4. CASE attach_pending_action_id
        BY <1>1, <2>1, <2>4, Attaches
    <2> QED BY <2>2, <2>3, <2>4, EntriesStep
<1> QED BY <1>0, <1>1

(* The worker's place in an operation. *)
LEMMA WrittenStep ==
    ASSUME QueueInv, [Next]_vars, pc' \in Written
    PROVE  /\ job' = job /\ ~attach_pending_action_id
           /\ pc \in Written \/ (label_local_step /\ pc' = "dispatch")
           /\ pc' = "attach" => (pc = "attach" \/ enqueue_if_retryable)
<1> USE DEF Written, action
<1>1. ~(LeaseOp \/ Kick \/ RecordOutcome \/ attach_pending_action_id
        \/ clear_pending_intents \/ db_pending_ops_get \/ sweep_stale_label_intents
        \/ TakeRow \/ MarkExecuting \/ dispatch_pending_op \/ SettleRow)
    BY DEF LeaseOp, Kick, RecordOutcome, attach_pending_action_id, clear_pending_intents,
           db_pending_ops_get, sweep_stale_label_intents, TakeRow, MarkExecuting,
           dispatch_pending_op, SettleRow
<1>2. ~Restart /\ ~attach_pending_action_id
    BY DEF Restart, attach_pending_action_id
<1>3. CASE label_local_step
    BY <1>2, <1>3 DEF label_local_step
<1>4. CASE dispatch_label_engine \/ confirm_provider_intents \/ enqueue_if_retryable
    <2>1. pc \in Written /\ job' = job
        BY <1>4 DEF dispatch_label_engine, confirm_provider_intents, enqueue_if_retryable
    <2>2. pc' = "attach" => enqueue_if_retryable
        BY <1>4 DEF dispatch_label_engine, confirm_provider_intents
    <2> QED BY <1>2, <2>1, <2>2, Zenon
<1>5. CASE UNCHANGED <<pc, job>>
    <2>1. pc' = pc /\ job' = job
        BY <1>5
    <2> QED BY <1>2, <2>1
<1> QED BY <1>1, <1>2, <1>3, <1>4, <1>5
        DEF Next, WorkerStep, CancelForResource, SyncFetch, SyncApply, AnHourPasses,
            TwoDaysPass, vars

LEMMA EntryStep ==
    ASSUME QueueInv, [Next]_vars
    PROVE  EntryInv'
<1> USE DEF QueueInv
<1>1. ASSUME pc' \in Written, NEW l \in Writes(job)'
      PROVE  intents'[l] = None \/ intents'[l].action = None
    <2>1. job' = job /\ l \in Writes(job) /\ job \in Ops
        BY <1>1, WrittenStep DEF Writes, label_intents, label_local_step, CountInv, Creating, Written
    <2>2. l \in Labels
        BY <2>1, WritesFacts
    <2>3. CASE label_local_step /\ pc' = "dispatch"
        BY <2>1, <2>2, <2>3, Upserts
    <2>4. CASE KeptEntries(intents') /\ pc \in Written
        BY <2>1, <2>2, <2>4 DEF KeptEntries, EntryInv
    <2> QED BY <1>1, <2>3, <2>4, WrittenStep, EntriesStep
<1>2. ASSUME pc' = "attach", (nextId' - 1) \in DOMAIN rows'
      PROVE  rows'[nextId' - 1].op = job'
    <2>1. job' = job /\ (pc = "attach" \/ enqueue_if_retryable) /\ nextId \in Nat
        BY <1>2, WrittenStep DEF Written, TypeOK, TablesType
    <2>2. CASE enqueue_if_retryable
        <3>1. nextId' = nextId + 1 /\ rows'[nextId] = NewRow(job)
            BY <1>2, <2>2, Enqueues
        <3>2. nextId' - 1 = nextId
            BY <2>1, <3>1
        <3> QED BY <2>1, <3>1, <3>2 DEF NewRow
    <2>3. CASE pc = "attach" /\ KeptRows(rows') /\ UNCHANGED nextId
        BY <1>2, <2>1, <2>3 DEF KeptRows, EntryInv
    <2> QED BY <2>1, <2>2, <2>3, RowsStep
<1> QED BY <1>1, <1>2, NamesStep DEF EntryInv

(* What an entry names is never another operation's row. *)
LEMMA OwnStep ==
    ASSUME QueueInv, [Next]_vars
    PROVE  OverlayIsOwn'
<1> USE DEF QueueInv
<1>0. SUFFICES ASSUME NEW l \in Labels, intents'[l] # None, intents'[l].action # None,
                      intents'[l].action \in DOMAIN rows'
               PROVE  /\ l \in Writes(rows'[intents'[l].action].op)
                      /\ label_intents(rows'[intents'[l].action].op)[l] = intents'[l].op
    BY DEF OverlayIsOwn, Writes, label_intents
<1>1. CASE intents[l] # None /\ intents'[l].op = intents[l].op
           /\ intents'[l].action = intents[l].action
    <2> DEFINE id == intents[l].action
    <2>1. id \in Ids /\ id < nextId /\ nextId \in Nat /\ id \in Nat
        BY <1>0, <1>1 DEF EntryInv, TypeOK, TablesType, Intent, Ids
    <2>2. id \in DOMAIN rows /\ rows'[id].op = rows[id].op
        BY <1>0, <1>1, <2>1, RowsStep, Enqueues DEF KeptRows
    <2> QED BY <1>0, <1>1, <2>1, <2>2 DEF OverlayIsOwn
<1>2. CASE KeptEntries(intents')
    BY <1>0, <1>1, <1>2 DEF KeptEntries
<1>3. CASE label_local_step /\ pc' = "dispatch"
    BY <1>0, <1>1, <1>3, Upserts
<1>4. CASE attach_pending_action_id
    <2>1. CASE intents'[l] = intents[l]
        BY <1>0, <1>1, <2>1
    <2>2. CASE /\ l \in Writes(job) /\ intents'[l].action = nextId - 1
               /\ intents'[l].op = label_intents(job)[l]
        <3>1. rows' = rows /\ pc = "attach"
            BY <1>4 DEF attach_pending_action_id, table
        <3>2. rows'[intents'[l].action].op = job
            BY <1>0, <2>2, <3>1 DEF EntryInv
        <3> QED BY <2>2, <3>2
    <2> QED BY <1>4, <2>1, <2>2, Attaches
<1> QED BY <1>2, <1>3, <1>4, EntriesStep

(* A row the drainer holds is as it left it, or gone. *)
LEMMA BatchStep ==
    ASSUME QueueInv, [Next]_vars
    PROVE  BatchInv'
<1> USE DEF QueueInv
<1>1. CASE UNCHANGED <<rows, batch, cur, pc>>
    BY <1>1 DEF BatchInv
<1>2. CASE LeaseOp \/ Kick \/ label_local_step \/ dispatch_label_engine
           \/ confirm_provider_intents \/ clear_pending_intents
           \/ attach_pending_action_id \/ RecordOutcome
    <2>1. pc \notin Holding \cup {"sweep", "next"} /\ pc' \notin Holding \cup {"sweep", "next"}
          /\ UNCHANGED <<rows, batch, cur>>
        BY <1>2 DEF LeaseOp, Kick, label_local_step, dispatch_label_engine,
            confirm_provider_intents, clear_pending_intents,
            attach_pending_action_id, RecordOutcome, Holding, table, drain
    <2> QED BY <2>1 DEF BatchInv, Holding
<1>3. CASE enqueue_if_retryable
    <2>1. pc \notin Holding \cup {"sweep", "next"} /\ pc' \notin Holding \cup {"sweep", "next"}
          /\ UNCHANGED <<batch, cur>>
        BY <1>3 DEF enqueue_if_retryable, Holding, drain
    <2> QED BY <2>1 DEF BatchInv, Holding
<1>4. CASE db_pending_ops_get
    BY <1>4 DEF db_pending_ops_get, Due, BatchInv, Holding, table
<1>5. CASE sweep_stale_label_intents
    BY <1>5 DEF sweep_stale_label_intents, BatchInv, Holding, table, drain
<1>6. CASE TakeRow
    BY <1>6 DEF TakeRow, BatchInv, Holding, table, TypeOK, WorkerType
<1>7. CASE MarkExecuting
    <2>1. pc = "mark" /\ UNCHANGED batch /\ cur \in Ids \ batch
        BY <1>7 DEF MarkExecuting, BatchInv, Holding
    <2>2. CASE pc' = "retry" /\ UNCHANGED cur
               /\ rows' = IF cur \in DOMAIN rows
                          THEN SetRow(cur, [rows[cur] EXCEPT !.status = "executing"])
                          ELSE rows
        <3>1. cur \in DOMAIN rows =>
                 [rows[cur] EXCEPT !.status = "executing"].status = "executing"
            BY RowStatus DEF Row
        <3>2. /\ DOMAIN rows' = DOMAIN rows
              /\ \A id \in DOMAIN rows \ {cur} : rows'[id] = rows[id]
              /\ cur \in DOMAIN rows => rows'[cur].status = "executing"
            BY <2>2, <3>1 DEF SetRow
        <3> QED BY <2>1, <2>2, <3>2 DEF BatchInv, Holding
    <2>3. CASE pc' = "next" /\ UNCHANGED rows
        BY <2>1, <2>3 DEF BatchInv, Holding
    <2> QED BY <1>7, <2>2, <2>3 DEF MarkExecuting
<1>8. CASE dispatch_pending_op
    BY <1>8 DEF dispatch_pending_op, BatchInv, Holding, table, drain
<1>9. CASE SettleRow
    <2>1. pc = "settle" /\ pc' = "next" /\ UNCHANGED batch /\ cur \in Ids \ batch
        BY <1>9 DEF SettleRow, BatchInv, Holding
    <2>2. \A id \in DOMAIN rows' \ {cur} : id \in DOMAIN rows /\ rows'[id] = rows[id]
        BY <1>9 DEF SettleRow, increment_retry, SetRow, Without
    <2> QED BY <2>1, <2>2 DEF BatchInv, Holding
<1>10. CASE /\ UNCHANGED <<batch, cur, pc>> /\ DOMAIN rows' \subseteq DOMAIN rows
            /\ \A id \in DOMAIN rows' : rows'[id].status = rows[id].status
    BY <1>10 DEF BatchInv
<1>11. ASSUME NEW t \in Types, CancelForResource(t) PROVE BatchInv'
    BY <1>10, <1>11 DEF CancelForResource, Without, drain
<1>12. CASE AnHourPasses \/ TwoDaysPass
    <2>1. \A id \in DOMAIN rows : [rows[id] EXCEPT !.due = TRUE].status = rows[id].status
        BY RowStatus DEF Row
    <2> QED BY <1>10, <1>12, <2>1 DEF AnHourPasses, TwoDaysPass, AllDue, drain
<1>13. CASE Restart
    BY <1>13 DEF Restart, BatchInv, Holding
<1>14. CASE SyncFetch \/ SyncApply \/ UNCHANGED vars
    BY <1>1, <1>14 DEF SyncFetch, SyncApply, vars, table, drain
<1> QED BY <1>2, <1>3, <1>4, <1>5, <1>6, <1>7, <1>8, <1>9, <1>11, <1>12, <1>13, <1>14
        DEF Next, WorkerStep

-----------------------------------------------------------------------------
LEMMA InitInv ==
    ASSUME Init
    PROVE  QueueInv
<1>1. DOMAIN rows = {} /\ rows \in [DOMAIN rows -> Row]
    BY DEF Init
<1>2. TypeOK
    <2>1. MaxOps \in Nat /\ MaxSyncs \in Nat /\ MaxFaults \in Nat /\ MaxCrashes \in Nat
        BY PendingAssumption
    <2>2. TablesType
        BY <1>1, <2>1, PendingAssumption DEF Init, TablesType
    <2>3. WorkerType
        <3>1. /\ ops \in 0 .. MaxOps /\ syncs \in 0 .. MaxSyncs
              /\ faults \in 0 .. MaxFaults /\ crashes \in 0 .. MaxCrashes
            BY <2>1 DEF Init
        <3> QED BY <3>1 DEF Init, WorkerType
    <2> QED BY <2>2, <2>3 DEF TypeOK
<1>3. CountInv
    BY DEF Init, CountInv, Creating, Written
<1>4. RowsInv /\ LiveInv /\ OverlayIsOwn /\ BatchInv
    BY <1>1 DEF Init, RowsInv, LiveInv, LiveOfType, OverlayIsOwn, BatchInv, Holding
<1>5. EntryInv
    BY <1>1 DEF Init, EntryInv, Written
<1> QED BY <1>2, <1>3, <1>4, <1>5 DEF QueueInv

(* The inductive invariant of the retry queue holds in every behaviour: the *)
(* drainer's rows are its own, ids are fresh, and the overlay names only    *)
(* the rows of the operations that wrote it.                                *)
THEOREM QueueInvariant == Spec => []QueueInv
<1>1. Init => QueueInv
    BY InitInv
<1>2. QueueInv /\ [Next]_vars => QueueInv'
    BY TypeStep, CountStep, RowsInvStep, BatchStep, LiveStep, EntryStep, OwnStep DEF QueueInv
<1> QED BY <1>1, <1>2, PTL DEF Spec

(* At most one operation of a type waits to be retried, whatever replaces,  *)
(* cancels, tears or recovers rows (db_pending_ops_enqueue_sync).           *)
THEOREM OneLiveTheorem == Spec => []OneLivePerType
<1>1. QueueInv => OneLivePerType
    <2> SUFFICES ASSUME QueueInv, NEW t \in Types
                 PROVE  Cardinality(LiveOfType(t)) <= 1
        BY DEF OneLivePerType
    <2>1. CASE LiveOfType(t) = {}
        BY <2>1, FS_EmptySet
    <2>2. ASSUME NEW id \in LiveOfType(t) PROVE Cardinality(LiveOfType(t)) <= 1
        <3>1. LiveOfType(t) = {id}
            BY <2>2 DEF QueueInv, LiveInv
        <3>2. Cardinality({id}) = 1
            BY FS_Singleton
        <3> QED BY <3>1, <3>2
    <2> QED BY <2>1, <2>2
<1> QED BY <1>1, QueueInvariant, PTL

(* An overlay entry names only a row of the operation that wrote it, so     *)
(* giving up on an operation takes down its own entries only.               *)
THEOREM OverlayTheorem == Spec => []OverlayIsOwn
<1>1. QueueInv => OverlayIsOwn
    BY DEF QueueInv
<1> QED BY <1>1, QueueInvariant, PTL

(* The entry of an operation that waits, and goes on waiting, disappears    *)
(* only when the truth that is written agrees with it.                      *)
LEMMA Vanishes ==
    ASSUME QueueInv, [Next]_vars, NEW l \in Labels, NEW id \in Ids,
           intents[l] # None, intents[l].action = id, Live(id), Live(id)',
           ~(pc = "local" /\ pc' = "dispatch" /\ l \in Writes(job)),
           intents'[l] = None
    PROVE  intents[l].op = IF l \in truth' THEN "Add" ELSE "Remove"
<1> USE DEF QueueInv
<1>0. id # None /\ intents[l] \in Intent
    BY NoneAssumption DEF TypeOK, TablesType
<1>1. ASSUME NEW labels, SetTruth(labels)
      PROVE  intents[l].op = IF l \in truth' THEN "Add" ELSE "Remove"
    BY <1>1 DEF SetTruth, clear_satisfied
<1>2. CASE label_local_step
    BY <1>2 DEF label_local_step, upsert_intents, Writes
<1>3. CASE confirm_provider_intents
    BY <1>1, <1>3 DEF confirm_provider_intents, thread
<1>4. CASE clear_pending_intents
    <2>1. pc = "clear" /\ l \in OwnIntents(job, genSeen)
        BY <1>4 DEF clear_pending_intents
    <2>2. l \in Writes(job) /\ intents[l].action = None
        BY <2>1 DEF OwnIntents, Writes, EntryInv, Written
    <2> QED BY <1>0, <2>2
<1>5. CASE attach_pending_action_id
    <2>1. pc = "attach" /\ intents'[l] # intents[l]
        BY <1>5 DEF attach_pending_action_id
    <2>2. l \in Writes(job)
        BY <1>5, <2>1, Attaches
    <2>3. intents[l].action = None
        BY <2>1, <2>2 DEF EntryInv, Written
    <2> QED BY <1>0, <2>3
<1>6. CASE sweep_stale_label_intents
    BY <1>0, <1>6 DEF sweep_stale_label_intents, Stale
<1>7. CASE SettleRow
    <2>1. /\ pc = "settle" /\ cur \in DOMAIN rows /\ Exhausted(cur)
          /\ rows' = SetRow(cur, Retried(cur)) /\ cur = id
        BY <1>7 DEF SettleRow, increment_retry, IntentsWithout
    <2>2. rows'[cur] = Retried(cur) /\ rows[cur] \in Row
        BY <2>1, RowStatus DEF SetRow
    <2>3. Retried(cur).status = "failed"
        BY <2>1, <2>2 DEF Retried, Row
    <2> QED BY <2>1, <2>2, <2>3 DEF Live
<1>8. CASE SyncApply
    BY <1>1, <1>8 DEF SyncApply
<1>9. CASE TwoDaysPass
    <2>1. intents'[l] = [intents[l] EXCEPT !.aged = TRUE]
        BY <1>9 DEF TwoDaysPass
    <2>2. [intents[l] EXCEPT !.aged = TRUE] \in Intent
        BY <1>0 DEF Intent
    <2> QED BY <2>1, <2>2, NoneAssumption
<1> QED BY <1>2, <1>3, <1>4, <1>5, <1>6, <1>7, <1>8, <1>9, EntryWriters

(* No step flips the label of an operation that waits: what the user chose  *)
(* stays visible through syncs, sweeps and the failures of other            *)
(* operations (clear_satisfied_pending_thread_label_intents).               *)
THEOREM ChoiceTheorem == Spec => ChoiceStaysVisible
<1>1. ASSUME QueueInv, [Next]_vars, NEW l \in Labels, NEW id \in Ids
      PROVE  ChoiceKept(l, id)
    <2> SUFFICES ASSUME intents[l] # None, intents[l].action = id, Live(id), Live(id)',
                        ~(pc = "local" /\ pc' = "dispatch" /\ l \in Writes(job))
                 PROVE  Visible(l)' = (label_intents(rows[id].op)[l] = "Add")
        BY DEF ChoiceKept
    <2>1. /\ label_intents(rows[id].op)[l] = intents[l].op
          /\ intents[l].op \in {"Add", "Remove"}
        BY <1>1, NoneAssumption DEF QueueInv, OverlayIsOwn, Live, TypeOK, TablesType, Intent
    <2>2. CASE intents'[l] = None
        <3>1. intents[l].op = IF l \in truth' THEN "Add" ELSE "Remove"
            BY <1>1, <2>2, Vanishes
        <3> QED BY <2>1, <2>2, <3>1 DEF Visible
    <2>3. CASE intents'[l] # None
        <3>1. intents'[l].op = intents[l].op
            <4>1. CASE KeptEntries(intents')
                BY <2>3, <4>1 DEF KeptEntries
            <4>2. CASE label_local_step /\ pc' = "dispatch"
                BY <1>1, <4>2, Upserts DEF label_local_step
            <4>3. CASE attach_pending_action_id
                BY <1>1, <4>3, Attaches
            <4> QED BY <1>1, <4>1, <4>2, <4>3, EntriesStep
        <3> QED BY <2>1, <2>3, <3>1 DEF Visible
    <2> QED BY <2>2, <2>3
<1>2. QueueInv /\ [Next]_vars => [\A l \in Labels, id \in Ids : ChoiceKept(l, id)]_vars
    BY <1>1
<1> QED BY <1>2, QueueInvariant, PTL DEF Spec, ChoiceStaysVisible
=============================================================================
