------------------------ MODULE ActionJournalProofs ------------------------
(***************************************************************************)
(* Proofs about the action journal, for every set of plans, every number   *)
(* of operations and every number of Service deaths and database errors.   *)
(* The inductive invariant is JournalInv; each of its parts is preserved   *)
(* by a lemma of its own, with one step per action that can disturb it.    *)
(* The last part shows that the journal implements ActionContract, from    *)
(* JournalInv and ContractInv.                                             *)
(***************************************************************************)
EXTENDS ActionJournalContract, TLAPS

(* An operation is a pair of a plan and an ordinal; a quiet job has none.  *)
LEMMA OpFacts ==
  ASSUME NEW o \in Op
  PROVE  /\ o[1] \in Plans /\ o[2] \in Nat
         /\ KindOf[o[1]] # "mark_chat_read"
         /\ o # NoOp
BY PlanAssumption, NullAssumption DEF Op

(* Frames of different kinds or of different plans are different frames.   *)
LEMMA FrameFacts ==
  ASSUME NEW p, NEW q, NEW o, NEW b
  PROVE  /\ CompletedFrame(p) # OutcomeFrame(o, b)
         /\ CompletedFrame(p) = CompletedFrame(q) => p = q
<1>1. CompletedFrame(p).type # OutcomeFrame(o, b).type
  BY DEF CompletedFrame, OutcomeFrame
<1>2. CompletedFrame(p).plan = p /\ CompletedFrame(q).plan = q
  BY DEF CompletedFrame
<1> QED BY <1>1, <1>2

(* The status written next to a blob is terminal (action_outcome_to_wire). *)
LEMMA StatusFacts ==
  ASSUME NEW b \in Blobs
  PROVE  StatusOf(b) \in OpTerminal
BY DEF Blobs, MailBlobs, CalBlobs, StatusOf, OpTerminal

LEMMA ResultFacts ==
  ASSUME NEW p
  PROVE  ResultsOf(p) \subseteq Blobs /\ "null" \notin Blobs
BY DEF ResultsOf, Blobs, MailBlobs, CalBlobs

LEMMA FinalStatusFacts ==
  ASSUME NEW p
  PROVE  FinalStatus(p) \in JobTerminal
BY DEF FinalStatus, JobTerminal

(* Which steps write the job and operation tables. *)
LEMMA DbWriters ==
  ASSUME [Next]_vars
  PROVE  \/ UNCHANGED <<jobs, opStatus, outcome>>
         \/ \E p \in Plans : InsertPlan(p)
         \/ \E a \in Accounts : DeleteAccount(a)
         \/ Boot \/ LeaseOp \/ Persist \/ PersistFallback \/ FinalizeJob
         \/ LeaseQuietJob \/ FinalizeQuietJob \/ QuietFallback
BY DEF Next, WorkerStep, HandlerStep, vars, db, ReplayRead, ReplayOne, ReplayDone,
       SweepRead, SweepOne, SweepDone, LeaseNone, Execute, PersistFails, FallbackFails,
       EmitOutcome, FinalizeSkips, EmitCompleted, LeaseQuietNone, RunQuietJob,
       EmitQuietCompleted, Wake, Crash, NotifyWorker, Kick

---------------------------------------------------------------------------
(* Type correctness. *)

LEMMA TypeInit == Init => TypeOK
<1> SUFFICES ASSUME Init PROVE TypeOK
  OBVIOUS
<1>1. jobs \in [Plans -> JobStates] /\ created \in [Plans -> Nat]
  BY DEF Init, JobStates
<1>2. opStatus \in [Op -> OpStates] /\ outcome \in [Op -> Blobs \cup {"null"}]
  BY DEF Init, OpStates
<1>3. crashes \in 0..MaxCrashes /\ faults \in 0..MaxFaults
  BY BoundAssumption DEF Init
<1>4. permit \in BOOLEAN /\ pc \in WorkerStates
  BY DEF Init, WorkerStates
<1> QED BY <1>1, <1>2, <1>3, <1>4 DEF Init, TypeOK

LEMMA TypeStep ==
  ASSUME TypeOK, HeldInv, [Next]_vars
  PROVE  TypeOK'
<1> USE PlanAssumption, BoundAssumption, NullAssumption DEF TypeOK, db, held, lists, worker, signals, history, budget
<1>1. ASSUME NEW p \in Plans, InsertPlan(p) PROVE TypeOK'
  BY <1>1 DEF InsertPlan, JobStates, JobActive, OpStates, OpLive
<1>2. ASSUME NEW p \in Plans, NotifyWorker(p) PROVE TypeOK'
  BY <1>2 DEF NotifyWorker
<1>3. CASE Kick
  BY <1>3 DEF Kick
<1>4. ASSUME NEW a \in Accounts, DeleteAccount(a) PROVE TypeOK'
  BY <1>4 DEF DeleteAccount, JobStates, OpStates
<1>5. CASE Boot
  BY <1>5 DEF Boot, DbError, JobsReset, OpsReset, JobStates, JobActive, OpStates, OpLive, WorkerStates
<1>6. CASE ReplayRead
  BY <1>6 DEF ReplayRead, DbError, UnemittedTerminalOps, WorkerStates
<1>7. CASE ReplayOne
  <2>1. PICK o \in replaying :
          emitted' = IF Decodes(o[1], outcome[o])
                       THEN emitted \cup {OutcomeFrame(o, outcome[o])} ELSE emitted
    BY <1>7 DEF ReplayOne
  <2>2. Decodes(o[1], outcome[o]) => OutcomeFrame(o, outcome[o]) \in Frames
    BY ResultFacts DEF Decodes, Frames
  <2> QED BY <1>7, <2>1, <2>2 DEF ReplayOne
<1>8. CASE ReplayDone
  BY <1>8 DEF ReplayDone, WorkerStates
<1>9. CASE SweepRead
  BY <1>9 DEF SweepRead, DbError, UnfinalizedJobs, WorkerStates
<1>10. CASE SweepOne
  BY <1>10 DEF SweepOne, WorkerStates
<1>11. CASE SweepDone
  BY <1>11 DEF SweepDone, WorkerStates
<1>12. CASE LeaseOp
  BY <1>12 DEF LeaseOp, ReadyOps, OpStates, OpLive, WorkerStates
<1>13. CASE LeaseNone
  BY <1>13 DEF LeaseNone, DbError, WorkerStates
<1>14. CASE Execute
  BY <1>14, ResultFacts DEF Execute, HeldInv, Running, WorkerStates
<1>15. CASE Persist
  BY <1>15, StatusFacts DEF Persist, MarkOpTerminal, HeldInv, Running, OpStates, WorkerStates
<1>16. CASE PersistFails
  BY <1>16 DEF PersistFails, DbError, Blobs, MailBlobs, WorkerStates
<1>17. CASE PersistFallback
  BY <1>17, StatusFacts DEF PersistFallback, MarkOpTerminal, HeldInv, Running, OpStates, WorkerStates
<1>18. CASE FallbackFails
  BY <1>18, OpFacts DEF FallbackFails, DbError, HeldInv, Running, WorkerStates
<1>19. CASE EmitOutcome
  <2>1. OutcomeFrame(cur, result) \in Frames
    BY <1>19 DEF EmitOutcome, HeldInv, Running, Frames
  <2> QED BY <1>19, <2>1, OpFacts DEF EmitOutcome, HeldInv, Running, WorkerStates
<1>20. CASE FinalizeSkips
  BY <1>20 DEF FinalizeSkips, Return, DbError, WorkerStates
<1>21. CASE FinalizeJob
  BY <1>21, FinalStatusFacts DEF FinalizeJob, Return, JobStates, WorkerStates
<1>22. CASE EmitCompleted
  <2>1. CompletedFrame(target) \in Frames
    BY <1>22 DEF EmitCompleted, HeldInv, Finalizing, Frames
  <2> QED BY <1>22, <2>1 DEF EmitCompleted, Return, WorkerStates
<1>23. CASE LeaseQuietJob
  BY <1>23 DEF LeaseQuietJob, ReadyQuietJobs, JobStates, JobActive, WorkerStates
<1>24. CASE LeaseQuietNone
  BY <1>24 DEF LeaseQuietNone, DbError, WorkerStates
<1>25. CASE RunQuietJob
  BY <1>25 DEF RunQuietJob, WorkerStates
<1>26. CASE FinalizeQuietJob
  BY <1>26 DEF FinalizeQuietJob, SetJobStatus, DbError, JobStates, JobTerminal, WorkerStates
<1>27. CASE QuietFallback
  BY <1>27 DEF QuietFallback, SetJobStatus, DbError, JobStates, JobTerminal, WorkerStates
<1>28. CASE EmitQuietCompleted
  <2>1. CompletedFrame(target) \in Frames
    BY <1>28 DEF EmitQuietCompleted, HeldInv, QuietRunning, Frames
  <2> QED BY <1>28, <2>1 DEF EmitQuietCompleted, WorkerStates
<1>29. CASE Wake
  BY <1>29 DEF Wake, WorkerStates
<1>30. CASE Crash
  <2>1. crashes' \in 0..MaxCrashes /\ faults' \in 0..MaxFaults
    BY <1>30 DEF Crash
  <2>2. UNCHANGED <<jobs, opStatus, outcome, created, accounts>>
    BY <1>30 DEF Crash
  <2>3. /\ pc' \in WorkerStates /\ cur' = NoOp /\ target' = NoPlan /\ result' = "null"
        /\ permit' \in BOOLEAN
        /\ replaying' = {} /\ stranded' = {} /\ handling' = {} /\ emitted' = {} /\ ran' = {}
    BY <1>30 DEF Crash, WorkerStates
  <2> QED BY <2>1, <2>2, <2>3
<1>31. CASE UNCHANGED vars
  BY <1>31 DEF vars
<1> QED BY <1>1, <1>2, <1>3, <1>4, <1>5, <1>6, <1>7, <1>8, <1>9, <1>10, <1>11, <1>12,
           <1>13, <1>14, <1>15, <1>16, <1>17, <1>18, <1>19, <1>20, <1>21, <1>22, <1>23,
           <1>24, <1>25, <1>26, <1>27, <1>28, <1>29, <1>30, <1>31
        DEF Next, WorkerStep, HandlerStep

(* What the worker holds stays in step with its program counter. *)
LEMMA HeldStep ==
  ASSUME TypeOK, HeldInv, ListInv, RowInv, [Next]_vars
  PROVE  HeldInv'
<1> USE PlanAssumption, NullAssumption
        DEF TypeOK, HeldInv, Running, Finalizing, QuietRunning, Unfinished,
            db, held, lists, worker, signals, history, budget
<1>1. ASSUME NEW p \in Plans, InsertPlan(p) PROVE HeldInv'
  BY <1>1, OpFacts DEF InsertPlan, JobActive, Up
<1>2. ASSUME NEW p \in Plans, NotifyWorker(p) PROVE HeldInv'
  BY <1>2 DEF NotifyWorker
<1>3. CASE Kick
  BY <1>3 DEF Kick
<1>4. ASSUME NEW a \in Accounts, DeleteAccount(a) PROVE HeldInv'
  BY <1>4, OpFacts DEF DeleteAccount, JobActive, Up
<1>5. CASE Boot
  BY <1>5 DEF Boot, DbError, JobsReset, OpsReset
<1>6. CASE ReplayRead
  BY <1>6 DEF ReplayRead, DbError
<1>7. CASE ReplayOne
  BY <1>7 DEF ReplayOne
<1>8. CASE ReplayDone
  BY <1>8 DEF ReplayDone
<1>9. CASE SweepRead
  BY <1>9 DEF SweepRead, DbError, UnfinalizedJobs
<1>10. CASE SweepOne
  BY <1>10 DEF SweepOne, ListInv
<1>11. CASE SweepDone
  BY <1>11 DEF SweepDone
<1>12. CASE LeaseOp
  BY <1>12, OpFacts DEF LeaseOp, ReadyOps, JobActive
<1>13. CASE LeaseNone
  BY <1>13 DEF LeaseNone, DbError
<1>14. CASE Execute
  BY <1>14, ResultFacts DEF Execute
<1>15. CASE Persist
  BY <1>15 DEF Persist, MarkOpTerminal, HasRow
<1>16. CASE PersistFails
  BY <1>16 DEF PersistFails, DbError, Blobs, MailBlobs
<1>17. CASE PersistFallback
  BY <1>17 DEF PersistFallback, MarkOpTerminal, HasRow
<1>18. CASE FallbackFails
  BY <1>18, OpFacts DEF FallbackFails, DbError
<1>19. CASE EmitOutcome
  BY <1>19, OpFacts DEF EmitOutcome
<1>20. CASE FinalizeSkips
  BY <1>20 DEF FinalizeSkips, Return, DbError
<1>21. CASE FinalizeJob
  BY <1>21, FinalStatusFacts DEF FinalizeJob, Return, JobActive, JobTerminal
<1>22. CASE EmitCompleted
  BY <1>22 DEF EmitCompleted, Return
<1>23. CASE LeaseQuietJob
  BY <1>23 DEF LeaseQuietJob, ReadyQuietJobs, JobActive
<1>24. CASE LeaseQuietNone
  BY <1>24 DEF LeaseQuietNone, DbError
<1>25. CASE RunQuietJob
  BY <1>25 DEF RunQuietJob
<1>26. CASE FinalizeQuietJob
  BY <1>26 DEF FinalizeQuietJob, SetJobStatus, DbError, JobActive
<1>27. CASE QuietFallback
  BY <1>27 DEF QuietFallback, SetJobStatus, DbError, JobActive
<1>28. CASE EmitQuietCompleted
  BY <1>28 DEF EmitQuietCompleted
<1>29. CASE Wake
  BY <1>29 DEF Wake
<1>30. CASE Crash
  BY <1>30 DEF Crash
<1>31. CASE UNCHANGED vars
  BY <1>31 DEF vars
<1> QED BY <1>1, <1>2, <1>3, <1>4, <1>5, <1>6, <1>7, <1>8, <1>9, <1>10, <1>11,
           <1>12, <1>13, <1>14, <1>15, <1>16, <1>17, <1>18, <1>19, <1>20, <1>21,
           <1>22, <1>23, <1>24, <1>25, <1>26, <1>27, <1>28, <1>29, <1>30, <1>31
        DEF Next, WorkerStep, HandlerStep

(* The replay and sweep lists stay in step with the program counter. *)
LEMMA ListStep ==
  ASSUME TypeOK, HeldInv, ListInv, [Next]_vars
  PROVE  ListInv'
<1> USE PlanAssumption, NullAssumption
        DEF TypeOK, HeldInv, ListInv, Running, Finalizing, Unfinished,
            db, held, lists, worker, signals, history, budget
<1>1. ASSUME NEW p \in Plans, InsertPlan(p) PROVE ListInv'
  BY <1>1 DEF InsertPlan, JobActive, Up
<1>2. ASSUME NEW p \in Plans, NotifyWorker(p) PROVE ListInv'
  BY <1>2 DEF NotifyWorker
<1>3. CASE Kick
  BY <1>3 DEF Kick
<1>4. ASSUME NEW a \in Accounts, DeleteAccount(a) PROVE ListInv'
  BY <1>4 DEF DeleteAccount, JobActive, Up
<1>5. CASE Boot
  BY <1>5 DEF Boot, DbError, JobsReset, OpsReset
<1>6. CASE ReplayRead
  BY <1>6 DEF ReplayRead, DbError
<1>7. CASE ReplayOne
  BY <1>7 DEF ReplayOne
<1>8. CASE ReplayDone
  BY <1>8 DEF ReplayDone
<1>9. CASE SweepRead
  BY <1>9 DEF SweepRead, DbError, UnfinalizedJobs, JobActive
<1>10. CASE SweepOne
  BY <1>10 DEF SweepOne
<1>11. CASE SweepDone
  BY <1>11 DEF SweepDone
<1>12. CASE LeaseOp
  BY <1>12 DEF LeaseOp, ReadyOps
<1>13. CASE LeaseNone
  BY <1>13 DEF LeaseNone, DbError
<1>14. CASE Execute
  BY <1>14 DEF Execute
<1>15. CASE Persist
  BY <1>15 DEF Persist, MarkOpTerminal
<1>16. CASE PersistFails
  BY <1>16 DEF PersistFails, DbError
<1>17. CASE PersistFallback
  BY <1>17 DEF PersistFallback, MarkOpTerminal
<1>18. CASE FallbackFails
  BY <1>18, OpFacts DEF FallbackFails, DbError
<1>19. CASE EmitOutcome
  BY <1>19, OpFacts DEF EmitOutcome
<1>20. CASE FinalizeSkips
  BY <1>20 DEF FinalizeSkips, Return, DbError
<1>21. CASE FinalizeJob
  BY <1>21, FinalStatusFacts DEF FinalizeJob, Return, JobActive, JobTerminal
<1>22. CASE EmitCompleted
  BY <1>22 DEF EmitCompleted, Return
<1>23. CASE LeaseQuietJob
  BY <1>23 DEF LeaseQuietJob, ReadyQuietJobs, JobActive
<1>24. CASE LeaseQuietNone
  BY <1>24 DEF LeaseQuietNone, DbError
<1>25. CASE RunQuietJob
  BY <1>25 DEF RunQuietJob
<1>26. CASE FinalizeQuietJob
  BY <1>26 DEF FinalizeQuietJob, SetJobStatus, DbError, JobActive, QuietRunning
<1>27. CASE QuietFallback
  BY <1>27 DEF QuietFallback, SetJobStatus, DbError, JobActive, QuietRunning
<1>28. CASE EmitQuietCompleted
  BY <1>28 DEF EmitQuietCompleted
<1>29. CASE Wake
  BY <1>29 DEF Wake
<1>30. CASE Crash
  BY <1>30 DEF Crash
<1>31. CASE UNCHANGED vars
  BY <1>31 DEF vars
<1> QED BY <1>1, <1>2, <1>3, <1>4, <1>5, <1>6, <1>7, <1>8, <1>9, <1>10, <1>11,
           <1>12, <1>13, <1>14, <1>15, <1>16, <1>17, <1>18, <1>19, <1>20, <1>21,
           <1>22, <1>23, <1>24, <1>25, <1>26, <1>27, <1>28, <1>29, <1>30, <1>31
        DEF Next, WorkerStep, HandlerStep


(* Only these steps touch the rows, and each keeps them consistent. *)
LEMMA RowStep ==
  ASSUME TypeOK, HeldInv, RowInv, FinalizedIsFaithful, [Next]_vars
  PROVE  RowInv'
<1> USE OpFacts DEF TypeOK, RowInv, HasRow, JobActive
<1>1. ASSUME NEW p \in Plans, InsertPlan(p) PROVE RowInv'
  BY <1>1 DEF InsertPlan, OpTerminal
<1>2. ASSUME NEW a \in Accounts, DeleteAccount(a) PROVE RowInv'
  BY <1>2 DEF DeleteAccount, OpTerminal
<1>3. CASE Boot
  BY <1>3 DEF Boot, JobsReset, OpsReset, OpTerminal
<1>4. CASE LeaseOp
  BY <1>4 DEF LeaseOp, ReadyOps, OpTerminal
<1>5. CASE Persist
  <2>1. cur \in Op /\ result \in Blobs
    BY <1>5 DEF Persist, HeldInv, Running
  <2>2. /\ StatusOf(result) \in OpTerminal /\ StatusOf(result) # "absent"
        /\ result # "null"
    BY <2>1, StatusFacts, ResultFacts DEF OpTerminal
  <2> SUFFICES ASSUME NEW o \in Op
               PROVE  /\ opStatus'[o] # "absent" <=> jobs[o[1]] \notin {"absent", "deleted"}
                      /\ opStatus'[o] \in OpTerminal <=> outcome'[o] # "null"
    BY <1>5 DEF Persist
  <2>3. CASE o = cur /\ opStatus[cur] # "absent"
    BY <1>5, <2>1, <2>2, <2>3 DEF Persist, MarkOpTerminal
  <2>4. CASE ~(o = cur /\ opStatus[cur] # "absent")
    <3>1. opStatus'[o] = opStatus[o] /\ outcome'[o] = outcome[o]
      BY <1>5, <2>1, <2>4 DEF Persist, MarkOpTerminal
    <3> QED BY <3>1
  <2> QED BY <2>3, <2>4
<1>6. CASE PersistFallback
  <2>1. cur \in Op /\ result \in Blobs
    BY <1>6 DEF PersistFallback, HeldInv, Running
  <2>2. /\ StatusOf(result) \in OpTerminal /\ StatusOf(result) # "absent"
        /\ result # "null"
    BY <2>1, StatusFacts, ResultFacts DEF OpTerminal
  <2> SUFFICES ASSUME NEW o \in Op
               PROVE  /\ opStatus'[o] # "absent" <=> jobs[o[1]] \notin {"absent", "deleted"}
                      /\ opStatus'[o] \in OpTerminal <=> outcome'[o] # "null"
    BY <1>6 DEF PersistFallback
  <2>3. CASE o = cur /\ opStatus[cur] # "absent"
    BY <1>6, <2>1, <2>2, <2>3 DEF PersistFallback, MarkOpTerminal
  <2>4. CASE ~(o = cur /\ opStatus[cur] # "absent")
    <3>1. opStatus'[o] = opStatus[o] /\ outcome'[o] = outcome[o]
      BY <1>6, <2>1, <2>4 DEF PersistFallback, MarkOpTerminal
    <3> QED BY <3>1
  <2> QED BY <2>3, <2>4
<1>7. CASE FinalizeJob
  BY <1>7, FinalStatusFacts DEF FinalizeJob, JobTerminal, HeldInv, Finalizing
<1>8. CASE LeaseQuietJob
  BY <1>8 DEF LeaseQuietJob, ReadyQuietJobs
<1>9. CASE FinalizeQuietJob
  BY <1>9 DEF FinalizeQuietJob, SetJobStatus, DbError, HeldInv, QuietRunning
<1>10. CASE QuietFallback
  BY <1>10 DEF QuietFallback, SetJobStatus, DbError, HeldInv, QuietRunning
<1>11. CASE UNCHANGED <<jobs, opStatus, outcome>>
  BY <1>11
<1> QED BY DbWriters, <1>1, <1>2, <1>3, <1>4, <1>5, <1>6, <1>7, <1>8, <1>9, <1>10, <1>11

(* The roll-up of a finalized job stays true: its operations are never     *)
(* written again.                                                          *)
LEMMA FaithfulStep ==
  ASSUME TypeOK, HeldInv, RowInv, FinalizedIsFaithful, [Next]_vars
  PROVE  FinalizedIsFaithful'
<1> USE PlanAssumption, OpFacts
        DEF TypeOK, FinalizedIsFaithful, RowInv, HasRow, OpsOf, JobTerminal, OpTerminal
<1>1. ASSUME NEW p \in Plans, InsertPlan(p) PROVE FinalizedIsFaithful'
  BY <1>1 DEF InsertPlan
<1>2. ASSUME NEW a \in Accounts, DeleteAccount(a) PROVE FinalizedIsFaithful'
  BY <1>2 DEF DeleteAccount
<1>3. CASE Boot
  BY <1>3 DEF Boot, JobsReset, OpsReset
<1>4. CASE LeaseOp
  BY <1>4 DEF LeaseOp, ReadyOps, JobActive
<1>5. CASE Persist
  BY <1>5 DEF Persist, MarkOpTerminal, HeldInv, Running
<1>6. CASE PersistFallback
  BY <1>6 DEF PersistFallback, MarkOpTerminal, HeldInv, Running
<1>7. CASE FinalizeJob
  <2> SUFFICES ASSUME NEW p \in Plans, jobs'[p] \in JobTerminal, KindOf[p] # "mark_chat_read"
               PROVE  /\ \A o \in OpsOf(p) : opStatus[o] \in OpTerminal
                      /\ jobs'[p] = "completed" <=> \A o \in OpsOf(p) : opStatus[o] = "done"
                      /\ jobs'[p] = "failed" <=> \A o \in OpsOf(p) : opStatus[o] # "done"
    BY <1>7 DEF FinalizeJob
  <2>1. CASE p # target \/ jobs[target] \in {"absent", "deleted"}
    BY <1>7, <2>1 DEF FinalizeJob
  <2>2. CASE p = target /\ jobs[target] \notin {"absent", "deleted"}
    <3>1. \A o \in OpsOf(p) : opStatus[o] \in OpTerminal
      <4> SUFFICES ASSUME NEW o \in Op, o[1] = target PROVE opStatus[o] \in OpTerminal
        BY <2>2
      <4>1. opStatus[o] # "absent"
        BY <2>2
      <4>2. opStatus[o] \notin OpLive
        BY <1>7 DEF FinalizeJob
      <4> QED BY <4>1, <4>2 DEF OpStates
    <3>2. <<p, 1>> \in OpsOf(p)
      BY DEF Op
    <3>3. jobs'[p] = FinalStatus(p)
      BY <1>7, <2>2 DEF FinalizeJob
    <3> QED BY <3>1, <3>2, <3>3 DEF FinalStatus
  <2> QED BY <2>1, <2>2
<1>8. CASE LeaseQuietJob
  BY <1>8 DEF LeaseQuietJob, ReadyQuietJobs
<1>9. CASE FinalizeQuietJob
  BY <1>9 DEF FinalizeQuietJob, SetJobStatus, HeldInv, QuietRunning
<1>10. CASE QuietFallback
  BY <1>10 DEF QuietFallback, SetJobStatus, HeldInv, QuietRunning
<1>11. CASE UNCHANGED <<jobs, opStatus, outcome>>
  BY <1>11
<1> QED BY DbWriters, <1>1, <1>2, <1>3, <1>4, <1>5, <1>6, <1>7, <1>8, <1>9, <1>10, <1>11

(* An operation that ran is never pending again in the same incarnation. *)
LEMMA RanStep ==
  ASSUME TypeOK, HeldInv, RowInv, RanInv, [Next]_vars
  PROVE  RanInv'
<1> USE OpFacts
        DEF TypeOK, RanInv, OncePerIncarnation,
            db, held, lists, worker, signals, history, budget
<1>1. ASSUME NEW p \in Plans, InsertPlan(p) PROVE RanInv'
  BY <1>1 DEF InsertPlan, Up
<1>2. ASSUME NEW p \in Plans, NotifyWorker(p) PROVE RanInv'
  BY <1>2 DEF NotifyWorker, Up
<1>3. CASE Kick
  BY <1>3 DEF Kick, Up
<1>4. ASSUME NEW a \in Accounts, DeleteAccount(a) PROVE RanInv'
  BY <1>4 DEF DeleteAccount, Up
<1>5. CASE Boot
  BY <1>5 DEF Boot, DbError, JobsReset, OpsReset
<1>6. CASE ReplayRead
  BY <1>6 DEF ReplayRead, DbError
<1>7. CASE ReplayOne
  BY <1>7 DEF ReplayOne
<1>8. CASE ReplayDone
  BY <1>8 DEF ReplayDone
<1>9. CASE SweepRead
  BY <1>9 DEF SweepRead, DbError, UnfinalizedJobs
<1>10. CASE SweepOne
  BY <1>10 DEF SweepOne
<1>11. CASE SweepDone
  BY <1>11 DEF SweepDone
<1>12. CASE LeaseOp
  BY <1>12 DEF LeaseOp, ReadyOps
<1>13. CASE LeaseNone
  BY <1>13 DEF LeaseNone, DbError
<1>14. CASE Execute
  BY <1>14 DEF Execute, HeldInv, Running, Unfinished, JobActive
<1>15. CASE Persist
  BY <1>15, StatusFacts DEF Persist, MarkOpTerminal, HeldInv, Running, OpTerminal
<1>16. CASE PersistFails
  BY <1>16 DEF PersistFails, DbError
<1>17. CASE PersistFallback
  BY <1>17, StatusFacts DEF PersistFallback, MarkOpTerminal, HeldInv, Running, OpTerminal
<1>18. CASE FallbackFails
  BY <1>18 DEF FallbackFails, DbError
<1>19. CASE EmitOutcome
  BY <1>19 DEF EmitOutcome
<1>20. CASE FinalizeSkips
  BY <1>20 DEF FinalizeSkips, Return, DbError
<1>21. CASE FinalizeJob
  BY <1>21, FinalStatusFacts DEF FinalizeJob, Return, JobTerminal
<1>22. CASE EmitCompleted
  BY <1>22 DEF EmitCompleted, Return
<1>23. CASE LeaseQuietJob
  BY <1>23 DEF LeaseQuietJob, ReadyQuietJobs
<1>24. CASE LeaseQuietNone
  BY <1>24 DEF LeaseQuietNone, DbError
<1>25. CASE RunQuietJob
  BY <1>25 DEF RunQuietJob
<1>26. CASE FinalizeQuietJob
  BY <1>26 DEF FinalizeQuietJob, SetJobStatus, DbError
<1>27. CASE QuietFallback
  BY <1>27 DEF QuietFallback, SetJobStatus, DbError
<1>28. CASE EmitQuietCompleted
  BY <1>28 DEF EmitQuietCompleted
<1>29. CASE Wake
  BY <1>29 DEF Wake
<1>30. CASE Crash
  BY <1>30 DEF Crash
<1>31. CASE UNCHANGED vars
  BY <1>31 DEF vars
<1> QED BY <1>1, <1>2, <1>3, <1>4, <1>5, <1>6, <1>7, <1>8, <1>9, <1>10, <1>11,
           <1>12, <1>13, <1>14, <1>15, <1>16, <1>17, <1>18, <1>19, <1>20, <1>21,
           <1>22, <1>23, <1>24, <1>25, <1>26, <1>27, <1>28, <1>29, <1>30, <1>31
        DEF Next, WorkerStep, HandlerStep


(* Only the operation in the worker's hands is leased. *)
LEMMA LeaseStep ==
  ASSUME TypeOK, HeldInv, LeaseInv, [Next]_vars
  PROVE  LeaseInv'
<1> USE OpFacts, BoundAssumption
        DEF TypeOK, LeaseInv, Up,
            db, held, lists, worker, signals, history, budget
<1>1. ASSUME NEW p \in Plans, InsertPlan(p) PROVE LeaseInv'
  BY <1>1 DEF InsertPlan
<1>2. ASSUME NEW p \in Plans, NotifyWorker(p) PROVE LeaseInv'
  BY <1>2 DEF NotifyWorker
<1>3. CASE Kick
  BY <1>3 DEF Kick
<1>4. ASSUME NEW a \in Accounts, DeleteAccount(a) PROVE LeaseInv'
  BY <1>4 DEF DeleteAccount
<1>5. CASE Boot
  BY <1>5 DEF Boot, DbError, JobsReset, OpsReset
<1>6. CASE ReplayRead
  BY <1>6 DEF ReplayRead, DbError
<1>7. CASE ReplayOne
  BY <1>7 DEF ReplayOne
<1>8. CASE ReplayDone
  BY <1>8 DEF ReplayDone
<1>9. CASE SweepRead
  BY <1>9 DEF SweepRead, DbError, UnfinalizedJobs
<1>10. CASE SweepOne
  BY <1>10 DEF SweepOne
<1>11. CASE SweepDone
  BY <1>11 DEF SweepDone
<1>12. CASE LeaseOp
  BY <1>12 DEF LeaseOp, ReadyOps
<1>13. CASE LeaseNone
  BY <1>13 DEF LeaseNone, DbError
<1>14. CASE Execute
  BY <1>14 DEF Execute
<1>15. CASE Persist
  <2>1. opStatus[cur] # "absent" => opStatus'[cur] \in OpTerminal
    BY <1>15, StatusFacts DEF Persist, MarkOpTerminal, HasRow, HeldInv, Running
  <2> QED BY <1>15, <2>1 DEF Persist, MarkOpTerminal, HasRow, OpTerminal, HeldInv, Running
<1>16. CASE PersistFails
  BY <1>16 DEF PersistFails, DbError
<1>17. CASE PersistFallback
  BY <1>17, StatusFacts DEF PersistFallback, MarkOpTerminal, HeldInv, Running, OpTerminal
<1>18. CASE FallbackFails
  BY <1>18 DEF FallbackFails, DbError
<1>19. CASE EmitOutcome
  BY <1>19 DEF EmitOutcome
<1>20. CASE FinalizeSkips
  BY <1>20 DEF FinalizeSkips, Return, DbError
<1>21. CASE FinalizeJob
  BY <1>21 DEF FinalizeJob, Return
<1>22. CASE EmitCompleted
  BY <1>22 DEF EmitCompleted, Return
<1>23. CASE LeaseQuietJob
  BY <1>23 DEF LeaseQuietJob, ReadyQuietJobs
<1>24. CASE LeaseQuietNone
  BY <1>24 DEF LeaseQuietNone, DbError
<1>25. CASE RunQuietJob
  BY <1>25 DEF RunQuietJob
<1>26. CASE FinalizeQuietJob
  BY <1>26 DEF FinalizeQuietJob, SetJobStatus, DbError
<1>27. CASE QuietFallback
  BY <1>27 DEF QuietFallback, SetJobStatus, DbError
<1>28. CASE EmitQuietCompleted
  BY <1>28 DEF EmitQuietCompleted
<1>29. CASE Wake
  BY <1>29 DEF Wake
<1>30. CASE Crash
  BY <1>30 DEF Crash
<1>31. CASE UNCHANGED vars
  BY <1>31 DEF vars
<1> QED BY <1>1, <1>2, <1>3, <1>4, <1>5, <1>6, <1>7, <1>8, <1>9, <1>10, <1>11,
           <1>12, <1>13, <1>14, <1>15, <1>16, <1>17, <1>18, <1>19, <1>20, <1>21,
           <1>22, <1>23, <1>24, <1>25, <1>26, <1>27, <1>28, <1>29, <1>30, <1>31
        DEF Next, WorkerStep, HandlerStep


(* Work that arrives after the drain loops have passed it leaves a wakeup. *)
LEMMA WakeStep ==
  ASSUME TypeOK, HeldInv, WakeInv, [Next]_vars
  PROVE  WakeInv'
<1> USE OpFacts, BoundAssumption
        DEF TypeOK, WakeInv, ReadyOps, ReadyQuietJobs, QuietRunning,
            db, held, lists, worker, signals, history, budget
<1>1. ASSUME NEW p \in Plans, InsertPlan(p) PROVE WakeInv'
  BY <1>1 DEF InsertPlan
<1>2. ASSUME NEW p \in Plans, NotifyWorker(p) PROVE WakeInv'
  BY <1>2 DEF NotifyWorker
<1>3. CASE Kick
  BY <1>3 DEF Kick
<1>4. ASSUME NEW a \in Accounts, DeleteAccount(a) PROVE WakeInv'
  BY <1>4 DEF DeleteAccount, JobActive
<1>5. CASE Boot
  BY <1>5 DEF Boot, DbError, JobsReset, OpsReset
<1>6. CASE ReplayRead
  BY <1>6 DEF ReplayRead, DbError
<1>7. CASE ReplayOne
  BY <1>7 DEF ReplayOne
<1>8. CASE ReplayDone
  BY <1>8 DEF ReplayDone
<1>9. CASE SweepRead
  BY <1>9 DEF SweepRead, DbError, UnfinalizedJobs
<1>10. CASE SweepOne
  BY <1>10 DEF SweepOne
<1>11. CASE SweepDone
  BY <1>11 DEF SweepDone
<1>12. CASE LeaseOp
  BY <1>12 DEF LeaseOp, ReadyOps
<1>13. CASE LeaseNone
  BY <1>13 DEF LeaseNone, DbError
<1>14. CASE Execute
  BY <1>14 DEF Execute
<1>15. CASE Persist
  BY <1>15 DEF Persist, MarkOpTerminal
<1>16. CASE PersistFails
  BY <1>16 DEF PersistFails, DbError
<1>17. CASE PersistFallback
  BY <1>17 DEF PersistFallback, MarkOpTerminal
<1>18. CASE FallbackFails
  BY <1>18 DEF FallbackFails, DbError
<1>19. CASE EmitOutcome
  BY <1>19 DEF EmitOutcome
<1>20. CASE FinalizeSkips
  BY <1>20 DEF FinalizeSkips, Return, DbError
<1>21. CASE FinalizeJob
  BY <1>21 DEF FinalizeJob, Return, JobActive
<1>22. CASE EmitCompleted
  BY <1>22 DEF EmitCompleted, Return
<1>23. CASE LeaseQuietJob
  BY <1>23 DEF LeaseQuietJob, ReadyQuietJobs, JobActive
<1>24. CASE LeaseQuietNone
  BY <1>24 DEF LeaseQuietNone, DbError
<1>25. CASE RunQuietJob
  BY <1>25 DEF RunQuietJob
<1>26. CASE FinalizeQuietJob
  BY <1>26 DEF FinalizeQuietJob, SetJobStatus, DbError, JobActive, HeldInv
<1>27. CASE QuietFallback
  BY <1>27 DEF QuietFallback, SetJobStatus, DbError, JobActive, HeldInv
<1>28. CASE EmitQuietCompleted
  BY <1>28 DEF EmitQuietCompleted
<1>29. CASE Wake
  BY <1>29 DEF Wake
<1>30. CASE Crash
  BY <1>30 DEF Crash
<1>31. CASE UNCHANGED vars
  BY <1>31 DEF vars
<1> QED BY <1>1, <1>2, <1>3, <1>4, <1>5, <1>6, <1>7, <1>8, <1>9, <1>10, <1>11,
           <1>12, <1>13, <1>14, <1>15, <1>16, <1>17, <1>18, <1>19, <1>20, <1>21,
           <1>22, <1>23, <1>24, <1>25, <1>26, <1>27, <1>28, <1>29, <1>30, <1>31
        DEF Next, WorkerStep, HandlerStep

(* Outcomes precede the completion of their plan on the wire. *)
LEMMA FrameStep ==
  ASSUME TypeOK, HeldInv, ListInv, RowInv, FinalizedIsFaithful, RanInv, FrameInv, [Next]_vars
  PROVE  FrameInv'
<1> USE OpFacts, FrameFacts, BoundAssumption
        DEF TypeOK, FrameInv, OutcomeEmitted, HasRow,
            db, held, lists, worker, signals, history, budget
<1>1. ASSUME NEW p \in Plans, InsertPlan(p) PROVE FrameInv'
  <2>1. \A o \in Op : o[1] = p => outcome[o] = "null"
    BY <1>1 DEF InsertPlan, RowInv, OpTerminal
  <2>2. Decodable /\ NoneForgotten => Decodable' /\ NoneForgotten'
    BY <1>1, <2>1 DEF InsertPlan, Decodable, NoneForgotten, Up, HeldInv, Running, Unfinished, JobActive
  <2>3. CompletedLast => CompletedLast'
    BY <1>1 DEF InsertPlan, CompletedLast, OpsOf
  <2> QED BY <1>1, <2>2, <2>3 DEF InsertPlan
<1>2. ASSUME NEW p \in Plans, NotifyWorker(p) PROVE FrameInv'
  BY <1>2 DEF NotifyWorker, Decodable, NoneForgotten, CompletedLast
<1>3. CASE Kick
  BY <1>3 DEF Kick, Decodable, NoneForgotten, CompletedLast
<1>4. ASSUME NEW a \in Accounts, DeleteAccount(a) PROVE FrameInv'
  <2>1. Decodable => Decodable'
    BY <1>4 DEF DeleteAccount, Decodable, HeldInv, Running
  <2>2. NoneForgotten => NoneForgotten'
    BY <1>4 DEF DeleteAccount, NoneForgotten, JobActive
  <2>3. CompletedLast => CompletedLast'
    <3>1. \A o \in Op : jobs[o[1]] = "absent" => outcome[o] = "null"
      BY DEF RowInv, OpTerminal
    <3> QED BY <1>4, <3>1 DEF DeleteAccount, CompletedLast, OpsOf
  <2> QED BY <1>4, <2>1, <2>2, <2>3 DEF DeleteAccount
<1>5. CASE Boot
  BY <1>5 DEF Boot, DbError, JobsReset, OpsReset, Decodable, NoneForgotten, CompletedLast, RanInv, HeldInv
<1>6. CASE ReplayRead
  BY <1>6 DEF ReplayRead, DbError, Decodable, NoneForgotten, CompletedLast, UnemittedTerminalOps
<1>7. CASE ReplayOne
  BY <1>7 DEF ReplayOne, Decodable, NoneForgotten, CompletedLast, Decodes
<1>8. CASE ReplayDone
  BY <1>8 DEF ReplayDone, Decodable, NoneForgotten, CompletedLast
<1>9. CASE SweepRead
  BY <1>9 DEF SweepRead, DbError, UnfinalizedJobs, Decodable, NoneForgotten, CompletedLast
<1>10. CASE SweepOne
  BY <1>10 DEF SweepOne, Decodable, NoneForgotten, CompletedLast
<1>11. CASE SweepDone
  BY <1>11 DEF SweepDone, Decodable, NoneForgotten, CompletedLast
<1>12. CASE LeaseOp
  BY <1>12 DEF LeaseOp, ReadyOps, Decodable, NoneForgotten, CompletedLast
<1>13. CASE LeaseNone
  BY <1>13 DEF LeaseNone, DbError, Decodable, NoneForgotten, CompletedLast
<1>14. CASE Execute
  BY <1>14 DEF Execute, Decodable, NoneForgotten, CompletedLast, HeldInv, Running
<1>15. CASE Persist
  BY <1>15 DEF Persist, MarkOpTerminal, Decodable, NoneForgotten, CompletedLast, HeldInv, Running, RowInv, OpTerminal, OpsOf
<1>16. CASE PersistFails
  BY <1>16 DEF PersistFails, DbError, Decodable, NoneForgotten, CompletedLast
<1>17. CASE PersistFallback
  BY <1>17 DEF PersistFallback, MarkOpTerminal, Decodable, NoneForgotten, CompletedLast, HeldInv
<1>18. CASE FallbackFails
  BY <1>18 DEF FallbackFails, DbError, Decodable, NoneForgotten, CompletedLast
<1>19. CASE EmitOutcome
  <2>1. Decodable => Decodable'
    BY <1>19 DEF EmitOutcome, Decodable
  <2>2. Decodable /\ NoneForgotten => NoneForgotten'
    BY <1>19 DEF EmitOutcome, Decodable, NoneForgotten, RowInv, OpTerminal
  <2>3. CompletedLast => CompletedLast'
    BY <1>19 DEF EmitOutcome, CompletedLast
  <2> QED BY <1>19, <2>1, <2>2, <2>3 DEF EmitOutcome
<1>20. CASE FinalizeSkips
  BY <1>20 DEF FinalizeSkips, Return, DbError, Decodable, NoneForgotten, CompletedLast
<1>21. CASE FinalizeJob
  <2>1. Decodable => Decodable'
    BY <1>21 DEF FinalizeJob, Return, Decodable
  <2>2. NoneForgotten => NoneForgotten'
    BY <1>21, FinalStatusFacts DEF FinalizeJob, Return, NoneForgotten, JobActive, JobTerminal
  <2>3. ASSUME NoneForgotten, jobs[target] # "deleted", NEW o \in OpsOf(target)
        PROVE  outcome[o] # "null" /\ OutcomeEmitted(o)
    <3>1. jobs[target] \in JobActive /\ replaying = {}
      BY <1>21, <2>3 DEF FinalizeJob, HeldInv, ListInv, Unfinished
    <3>2. o \in Op /\ o[1] = target
      BY <2>3 DEF OpsOf
    <3>3. opStatus[o] # "absent"
      BY <3>1, <3>2 DEF RowInv, JobActive
    <3>4. opStatus[o] \in OpTerminal
      BY <1>21, <3>2, <3>3 DEF FinalizeJob, OpStates
    <3>5. outcome[o] # "null"
      BY <3>2, <3>4 DEF RowInv
    <3> QED BY <1>21, <2>3, <3>1, <3>2, <3>5 DEF FinalizeJob, NoneForgotten
  <2>4. ASSUME NoneForgotten, CompletedLast PROVE CompletedLast'
    <3> SUFFICES ASSUME NEW p \in Plans, jobs'[p] # "deleted",
                        CompletedFrame(p) \in emitted \/ (pc' = "complete" /\ target' = p),
                        NEW o \in OpsOf(p)
                 PROVE  outcome[o] # "null" /\ OutcomeEmitted(o)
      BY <1>21 DEF FinalizeJob, CompletedLast
    <3>1. jobs[p] # "deleted"
      BY <1>21 DEF FinalizeJob
    <3>2. CompletedFrame(p) \in emitted \/ p = target
      BY <1>21 DEF FinalizeJob, Return
    <3> QED BY <2>3, <2>4, <3>1, <3>2 DEF CompletedLast
  <2> QED BY <1>21, <2>1, <2>2, <2>4 DEF FinalizeJob
<1>22. CASE EmitCompleted
  BY <1>22 DEF EmitCompleted, Return, Decodable, NoneForgotten, CompletedLast
<1>23. CASE LeaseQuietJob
  BY <1>23 DEF LeaseQuietJob, ReadyQuietJobs, Decodable, NoneForgotten, CompletedLast
<1>24. CASE LeaseQuietNone
  BY <1>24 DEF LeaseQuietNone, DbError, Decodable, NoneForgotten, CompletedLast
<1>25. CASE RunQuietJob
  BY <1>25 DEF RunQuietJob, Decodable, NoneForgotten, CompletedLast
<1>26. CASE FinalizeQuietJob
  <2>1. target \in Plans /\ KindOf[target] = "mark_chat_read"
    BY <1>26 DEF FinalizeQuietJob, HeldInv, QuietRunning
  <2>2. \A o \in Op : jobs'[o[1]] = jobs[o[1]]
    BY <1>26, <2>1 DEF FinalizeQuietJob, SetJobStatus, DbError
  <2>3. \A p \in Plans : jobs'[p] # "deleted" => jobs[p] # "deleted"
    BY <1>26, <2>1 DEF FinalizeQuietJob, SetJobStatus, DbError
  <2>4. Decodable /\ NoneForgotten => Decodable' /\ NoneForgotten'
    BY <1>26, <2>2 DEF FinalizeQuietJob, Decodable, NoneForgotten
  <2>5. CompletedLast => CompletedLast'
    BY <1>26, <2>3 DEF FinalizeQuietJob, CompletedLast, OpsOf
  <2> QED BY <1>26, <2>4, <2>5 DEF FinalizeQuietJob, DbError
<1>27. CASE QuietFallback
  <2>1. target \in Plans /\ KindOf[target] = "mark_chat_read"
    BY <1>27 DEF QuietFallback, HeldInv, QuietRunning
  <2>2. \A o \in Op : jobs'[o[1]] = jobs[o[1]]
    BY <1>27, <2>1 DEF QuietFallback, SetJobStatus, DbError
  <2>3. \A p \in Plans : jobs'[p] # "deleted" => jobs[p] # "deleted"
    BY <1>27, <2>1 DEF QuietFallback, SetJobStatus, DbError
  <2>4. Decodable /\ NoneForgotten => Decodable' /\ NoneForgotten'
    BY <1>27, <2>2 DEF QuietFallback, Decodable, NoneForgotten
  <2>5. CompletedLast => CompletedLast'
    BY <1>27, <2>3 DEF QuietFallback, CompletedLast, OpsOf
  <2> QED BY <1>27, <2>4, <2>5 DEF QuietFallback, DbError
<1>28. CASE EmitQuietCompleted
  <2>1. target \in Plans /\ OpsOf(target) = {}
    BY <1>28 DEF EmitQuietCompleted, HeldInv, QuietRunning, OpsOf
  <2>2. Decodable /\ NoneForgotten => Decodable' /\ NoneForgotten'
    BY <1>28 DEF EmitQuietCompleted, Decodable, NoneForgotten
  <2>3. CompletedLast => CompletedLast'
    BY <1>28, <2>1 DEF EmitQuietCompleted, CompletedLast, OpsOf
  <2> QED BY <1>28, <2>2, <2>3 DEF EmitQuietCompleted
<1>29. CASE Wake
  BY <1>29 DEF Wake, Decodable, NoneForgotten, CompletedLast
<1>30. CASE Crash
  BY <1>30 DEF Crash, Decodable, NoneForgotten, CompletedLast, OpsOf
<1>31. CASE UNCHANGED vars
  BY <1>31 DEF vars, Decodable, NoneForgotten, CompletedLast
<1> QED BY <1>1, <1>2, <1>3, <1>4, <1>5, <1>6, <1>7, <1>8, <1>9, <1>10, <1>11,
           <1>12, <1>13, <1>14, <1>15, <1>16, <1>17, <1>18, <1>19, <1>20, <1>21,
           <1>22, <1>23, <1>24, <1>25, <1>26, <1>27, <1>28, <1>29, <1>30, <1>31
        DEF Next, WorkerStep, HandlerStep


LEMMA JournalStart ==
  ASSUME Init PROVE JournalInv
<1>1. TypeOK
  BY TypeInit
<1>2. HeldInv /\ ListInv
  BY DEF Init, HeldInv, ListInv, Running, Finalizing, QuietRunning
<1>3. RowInv /\ FinalizedIsFaithful
  BY OpFacts DEF Init, RowInv, FinalizedIsFaithful, HasRow, OpTerminal, JobTerminal
<1>4. RanInv /\ LeaseInv /\ WakeInv
  BY DEF Init, RanInv, OncePerIncarnation, LeaseInv, WakeInv, Up, QuietRunning
<1>5. FrameInv
  BY DEF Init, FrameInv, Decodable, NoneForgotten, CompletedLast
<1> QED BY <1>1, <1>2, <1>3, <1>4, <1>5 DEF JournalInv

LEMMA JournalStep ==
  ASSUME JournalInv, [Next]_vars PROVE JournalInv'
BY TypeStep, HeldStep, ListStep, RowStep, FaithfulStep, RanStep, LeaseStep, WakeStep,
   FrameStep DEF JournalInv

(* The journal's inductive invariant holds of every behaviour of the       *)
(* worker, its handlers, crashes and failing database calls.               *)
THEOREM JournalInvariant == Spec => []JournalInv
BY JournalStart, JournalStep, PTL DEF Spec

---------------------------------------------------------------------------
(* The properties the runs check, for every instance. *)

(* Every variable of the journal and the worker keeps its type. *)
THEOREM TypeCorrect == Spec => []TypeOK
BY JournalInvariant, PTL DEF JournalInv

(* maybe_finalize never gives a job a status its operations contradict,    *)
(* and nothing contradicts it later.                                       *)
THEOREM FinalizedFaithfully == Spec => []FinalizedIsFaithful
BY JournalInvariant, PTL DEF JournalInv

(* Without database errors, no row is leased but the one being executed    *)
(* (recover_stale_leases, lease_next_ready_op).                            *)
THEOREM LeasesOwned == Spec => []LeasesAreOwned
<1>1. JournalInv => LeasesAreOwned
  BY DEF JournalInv, LeaseInv, LeasesAreOwned
<1> QED BY JournalInvariant, <1>1, PTL

(* No incarnation of the Service dispatches an operation twice. *)
THEOREM DispatchedOnce == Spec => []OncePerIncarnation
<1>1. JournalInv => OncePerIncarnation
  BY DEF JournalInv, RanInv
<1> QED BY JournalInvariant, <1>1, PTL

(* Without database errors, the completion of a plan is emitted after all  *)
(* of its outcomes, across restarts (replay_unemitted).                    *)
THEOREM OutcomesFirst == Spec => []CompletionFollowsOutcomes
<1>1. JournalInv => CompletionFollowsOutcomes
  BY DEF JournalInv, FrameInv, CompletedLast, OutcomeEmitted, CompletionFollowsOutcomes
<1> QED BY JournalInvariant, <1>1, PTL

(* The drain-then-await loop of the worker loses no wakeup. *)
THEOREM WakeupsKept == Spec => []NoLostWakeup
<1>1. JournalInv => NoLostWakeup
  BY DEF JournalInv, WakeInv, NoLostWakeup
<1> QED BY JournalInvariant, <1>1, PTL

(* mark_op_terminal never rewrites an outcome, although its UPDATE does    *)
(* not look at the old status.                                             *)
THEOREM OutcomesAreFinal == Spec => TerminalIsFinal
<1> DEFINE Kept(o) == opStatus[o] \in OpTerminal =>
                        \/ opStatus'[o] = opStatus[o] /\ outcome'[o] = outcome[o]
                        \/ opStatus'[o] = "absent"
<1>1. ASSUME JournalInv, [Next]_vars PROVE \A o \in Op : Kept(o)
  <2> USE <1>1, OpFacts DEF JournalInv, TypeOK, OpTerminal
  <2>1. ASSUME NEW p \in Plans, InsertPlan(p) PROVE \A o \in Op : Kept(o)
    BY <2>1 DEF InsertPlan, RowInv, HasRow
  <2>2. ASSUME NEW a \in Accounts, DeleteAccount(a) PROVE \A o \in Op : Kept(o)
    BY <2>2 DEF DeleteAccount
  <2>3. CASE Boot
    BY <2>3 DEF Boot, OpsReset
  <2>4. CASE LeaseOp
    BY <2>4 DEF LeaseOp, ReadyOps
  <2>5. CASE Persist
    BY <2>5 DEF Persist, MarkOpTerminal, HasRow, HeldInv, Running
  <2>6. CASE PersistFallback
    BY <2>6 DEF PersistFallback, MarkOpTerminal, HasRow, HeldInv, Running
  <2>7. CASE FinalizeJob \/ LeaseQuietJob \/ FinalizeQuietJob \/ QuietFallback
    BY <2>7 DEF FinalizeJob, LeaseQuietJob, FinalizeQuietJob, QuietFallback
  <2>8. CASE UNCHANGED <<jobs, opStatus, outcome>>
    BY <2>8
  <2> HIDE DEF Kept
  <2> QED BY DbWriters, <2>1, <2>2, <2>3, <2>4, <2>5, <2>6, <2>7, <2>8
<1>2. JournalInv /\ [Next]_vars => [\A o \in Op : Kept(o)]_vars
  BY <1>1
<1> QED BY JournalInvariant, <1>2, PTL DEF Spec, TerminalIsFinal

---------------------------------------------------------------------------
(* The journal implements its contract, for every instance.  Every step of *)
(* the worker, of a handler, of a boot or of a death is a step of the      *)
(* contract or changes nothing the contract sees.                          *)

(* A mapped status is a promise; only the active statuses are "accepted".  *)
LEMMA PromiseFacts ==
  ASSUME NEW s \in JobStates
  PROVE  /\ s = "absent" <=> PromiseOf(s) = "none"
         /\ s \in JobActive <=> PromiseOf(s) = "accepted"
         /\ s = "deleted" <=> PromiseOf(s) = "withdrawn"
         /\ s \in JobTerminal => PromiseOf(s) = s
BY DEF PromiseOf, JobStates, JobActive, JobTerminal

(* Every status stays in agreement with the outcome stored beside it.      *)
LEMMA StatusStep ==
  ASSUME JournalInv, StatusInv, [Next]_vars
  PROVE  StatusInv'
<1> USE OpFacts, ResultFacts DEF JournalInv, TypeOK, RowInv
<1>1. ASSUME NEW p \in Plans, InsertPlan(p) PROVE StatusInv'
  BY <1>1 DEF InsertPlan, StatusInv, HasRow, OpTerminal
<1>2. ASSUME NEW a \in Accounts, DeleteAccount(a) PROVE StatusInv'
  BY <1>2 DEF DeleteAccount, StatusInv
<1>3. CASE Boot
  BY <1>3, StatusFacts DEF Boot, OpsReset, StatusInv, OpTerminal
<1>4. CASE LeaseOp
  BY <1>4 DEF LeaseOp, ReadyOps, StatusInv, OpTerminal
<1>5. CASE Persist
  BY <1>5 DEF Persist, MarkOpTerminal, HeldInv, Running, StatusInv
<1>6. CASE PersistFallback
  BY <1>6 DEF PersistFallback, MarkOpTerminal, HeldInv, Running, StatusInv
<1>7. CASE FinalizeJob \/ LeaseQuietJob \/ FinalizeQuietJob \/ QuietFallback
  BY <1>7 DEF FinalizeJob, LeaseQuietJob, FinalizeQuietJob, QuietFallback, StatusInv
<1>8. CASE UNCHANGED <<jobs, opStatus, outcome>>
  BY <1>8 DEF StatusInv
<1> QED BY DbWriters, <1>1, <1>2, <1>3, <1>4, <1>5, <1>6, <1>7, <1>8

(* Between the write and the frame that reports it nothing but the account *)
(* cascade touches the rows.                                               *)
LEMMA SayStep ==
  ASSUME JournalInv, SayInv, [Next]_vars
  PROVE  SayInv'
<1> USE OpFacts DEF JournalInv, TypeOK, QuietRunning, Unfinished, JobActive
<1>1. ASSUME NEW p \in Plans, InsertPlan(p) PROVE SayInv'
  BY <1>1 DEF InsertPlan, SayInv, HeldInv, worker, held, JobTerminal, Running
<1>2. ASSUME NEW a \in Accounts, DeleteAccount(a) PROVE SayInv'
  <2>1. UNCHANGED <<pc, cur, target, result>>
    BY <1>2 DEF DeleteAccount, worker, held
  <2>2. \A p \in Plans : jobs'[p] = jobs[p] \/ jobs'[p] = "deleted"
    BY <1>2 DEF DeleteAccount
  <2>3. pc = "emit" => outcome'[cur] = outcome[cur] \/ jobs'[cur[1]] = "deleted"
    BY <1>2 DEF DeleteAccount, HeldInv, Running, Unfinished, JobActive
  <2>4. pc \in {"complete", "quiet_complete"} \cup QuietRunning => target \in Plans
    BY DEF HeldInv, Finalizing
  <2>5. pc = "emit" => cur \in Op
    BY DEF HeldInv, Running
  <2> QED BY <2>1, <2>2, <2>3, <2>4, <2>5 DEF SayInv
<1>3. CASE Boot
  BY <1>3 DEF Boot, SayInv
<1>4. CASE Persist
  BY <1>4 DEF Persist, MarkOpTerminal, HasRow, SayInv, HeldInv, RowInv, Running, Unfinished,
              JobActive, held
<1>5. CASE PersistFallback
  BY <1>5 DEF PersistFallback, MarkOpTerminal, HasRow, SayInv, HeldInv, RowInv, Running,
              Unfinished, JobActive, held
<1>6. CASE FinalizeJob
  BY <1>6, FinalStatusFacts DEF FinalizeJob, Return, SayInv, HeldInv, Finalizing, Unfinished,
              JobActive, held
<1>7. CASE LeaseQuietJob
  BY <1>7 DEF LeaseQuietJob, ReadyQuietJobs, SayInv
<1>8. CASE FinalizeQuietJob
  BY <1>8 DEF FinalizeQuietJob, SetJobStatus, SayInv, HeldInv, JobTerminal, held
<1>9. CASE QuietFallback
  BY <1>9 DEF QuietFallback, SayInv
<1>10. CASE LeaseOp
  BY <1>10 DEF LeaseOp, SayInv
<1>11. CASE ReplayRead \/ ReplayOne \/ ReplayDone \/ SweepRead \/ SweepOne \/ SweepDone
  BY <1>11 DEF ReplayRead, ReplayOne, ReplayDone, SweepRead, SweepOne, SweepDone, SayInv, held
<1>12. CASE LeaseNone \/ Execute \/ PersistFails \/ FallbackFails \/ EmitOutcome
  BY <1>12 DEF LeaseNone, Execute, PersistFails, FallbackFails, EmitOutcome, SayInv, held
<1>13. CASE FinalizeSkips \/ EmitCompleted
  BY <1>13 DEF FinalizeSkips, EmitCompleted, Return, SayInv
<1>14. CASE LeaseQuietNone \/ RunQuietJob \/ EmitQuietCompleted \/ Wake \/ Crash
  BY <1>14 DEF LeaseQuietNone, RunQuietJob, EmitQuietCompleted, Wake, Crash, SayInv, db, held
<1>15. CASE Kick \/ (\E p \in Plans : NotifyWorker(p)) \/ UNCHANGED vars
  BY <1>15 DEF Kick, NotifyWorker, vars, db, worker, held, SayInv
<1> QED BY <1>1, <1>2, <1>3, <1>4, <1>5, <1>6, <1>7, <1>8, <1>9, <1>10, <1>11, <1>12,
           <1>13, <1>14, <1>15 DEF Next, WorkerStep, HandlerStep

---------------------------------------------------------------------------
(* The step simulation.                                                    *)

(* A step that leaves jobs, outcomes, accounts and frames alone is a       *)
(* stuttering step of the contract.                                        *)
LEMMA Stutters ==
  ASSUME UNCHANGED <<jobs, outcome, accounts, emitted>>
  PROVE  UNCHANGED Contract!vars
BY DEF Contract!vars

(* Each step of the journal is a step of its contract. *)
LEMMA ContractStep ==
  ASSUME JournalInv, ContractInv, [Next]_vars
  PROVE  [Contract!Next]_(Contract!vars)
<1> DEFINE promise == [p \in Plans |-> PromiseOf(jobs[p])]
<1> USE OpFacts DEF JournalInv, ContractInv, TypeOK
<1>1. ASSUME NEW p \in Plans, InsertPlan(p) PROVE Contract!Accept(p)
  BY <1>1, PlanAssumption DEF InsertPlan, Contract!Accept, PromiseOf, JobActive, history
<1>2. ASSUME NEW a \in Accounts, DeleteAccount(a) PROVE Contract!Withdraw(a)
  <2>1. promise' = [p \in Plans |-> IF AccountOf[p] = a /\ promise[p] # "none"
                                      THEN "withdrawn" ELSE promise[p]]
    BY <1>2 DEF DeleteAccount, PromiseOf, JobActive, JobStates, JobTerminal
  <2> QED BY <1>2, <2>1 DEF DeleteAccount, Contract!Withdraw, history
<1>3. CASE Boot
  <2>1. promise' = promise
    BY <1>3 DEF Boot, JobsReset, PromiseOf, JobActive
  <2> QED BY <1>3, <2>1 DEF Boot, Contract!vars, history
<1>4. ASSUME pc \in {"persist", "fallback"}, MarkOpTerminal(cur, result),
             UNCHANGED <<jobs, accounts, emitted>>
      PROVE  [\E o \in Op, b \in Blobs : Contract!Settle(o, b)]_(Contract!vars)
  <2>1. cur \in Op /\ result \in Blobs
    BY <1>4 DEF HeldInv, Running
  <2>2. CASE HasRow(cur)
    <3>1. jobs[cur[1]] \in JobActive /\ outcome[cur] = "null"
      BY <1>4, <2>1, <2>2 DEF HeldInv, Running, RowInv, Unfinished, HasRow, OpTerminal
    <3>2. Contract!Settle(cur, result)
      BY <1>4, <2>1, <2>2, <3>1 DEF Contract!Settle, MarkOpTerminal, PromiseOf, JobActive
    <3> QED BY <2>1, <3>2
  <2>3. CASE ~HasRow(cur)
    BY <1>4, <2>3, Stutters DEF MarkOpTerminal
  <2> QED BY <2>2, <2>3
<1>5. CASE Persist
  BY <1>5, <1>4 DEF Persist, history, Contract!Next
<1>6. CASE PersistFallback
  BY <1>6, <1>4 DEF PersistFallback, history, Contract!Next
<1>7. CASE EmitOutcome
  <2>1. cur \in Op /\ result \in Blobs
    BY <1>7 DEF EmitOutcome, HeldInv, Running
  <2>2. Contract!SayOutcome(cur, result)
    BY <1>7, <2>1 DEF EmitOutcome, SayInv, Contract!SayOutcome, OutcomeFrame, PromiseOf,
                      JobActive, db
  <2> QED BY <2>1, <2>2 DEF Contract!Next
<1>8. CASE ReplayOne
  <2>1. PICK o \in replaying :
          emitted' = IF Decodes(o[1], outcome[o])
                       THEN emitted \cup {OutcomeFrame(o, outcome[o])} ELSE emitted
    BY <1>8 DEF ReplayOne
  <2>2. CASE Decodes(o[1], outcome[o])
    <3>1. o \in Op /\ outcome[o] \in Blobs
      BY <2>2, ResultFacts DEF Decodes
    <3>2. Contract!SayOutcome(o, outcome[o])
      BY <1>8, <2>1, <2>2 DEF ReplayOne, Contract!SayOutcome, OutcomeFrame, db
    <3> QED BY <3>1, <3>2 DEF Contract!Next
  <2>3. CASE ~Decodes(o[1], outcome[o])
    BY <1>8, <2>1, <2>3, Stutters DEF ReplayOne, db
  <2> QED BY <2>2, <2>3
<1>9. CASE FinalizeJob
  <2>1. target \in Plans /\ Unfinished(target) /\ target \notin QuietPlans
    BY <1>9 DEF FinalizeJob, HeldInv, Finalizing, QuietPlans
  <2>2. CASE jobs[target] = "deleted"
    BY <1>9, <2>2, Stutters DEF FinalizeJob, history
  <2>3. CASE jobs[target] \in JobActive
    <3>1. jobs' = [jobs EXCEPT ![target] = FinalStatus(target)]
      BY <1>9, <2>3 DEF FinalizeJob, JobActive
    <3>2. \A o \in OpsOf(target) : /\ opStatus[o] \in OpTerminal /\ outcome[o] \in Blobs
                                   /\ opStatus[o] = "done" <=> outcome[o] \in Done
      BY <1>9, <2>3 DEF FinalizeJob, OpsOf, RowInv, HasRow, OpStates, OpLive, OpTerminal,
                        StatusInv, Done, JobActive
    <3>3. FinalStatus(target) \in Contract!Verdict(target)
      BY <2>1, <3>2 DEF FinalStatus, OpsOf, Contract!Verdict, Contract!OpsIn
    <3>4. \A o \in OpsOf(target) : outcome[o] # "null"
      BY <3>2, ResultFacts
    <3>5. promise' = [promise EXCEPT ![target] = FinalStatus(target)]
      BY <2>1, <3>1, FinalStatusFacts DEF PromiseOf, JobTerminal, JobActive
    <3>6. Contract!Conclude(target)
      BY <1>9, <2>1, <2>3, <3>3, <3>4, <3>5
         DEF FinalizeJob, Contract!Conclude, Contract!OpsIn, OpsOf, PromiseOf, JobActive, history
    <3> QED BY <2>1, <3>6 DEF Contract!Next
  <2> QED BY <2>1, <2>2, <2>3 DEF Unfinished
<1>10. CASE EmitCompleted \/ EmitQuietCompleted
  <2>1. target \in Plans /\ jobs[target] \in JobTerminal \cup {"deleted"}
    BY <1>10 DEF EmitCompleted, EmitQuietCompleted, HeldInv, Finalizing, QuietRunning, SayInv
  <2>2. Contract!SayCompleted(target)
    BY <1>10, <2>1 DEF EmitCompleted, EmitQuietCompleted, Contract!SayCompleted,
         Contract!Verdicts, CompletedFrame, PromiseOf, JobTerminal, JobActive, db
  <2> QED BY <2>1, <2>2 DEF Contract!Next
<1>11. CASE LeaseQuietJob
  <2>1. promise' = promise
    BY <1>11 DEF LeaseQuietJob, ReadyQuietJobs, PromiseOf, JobActive
  <2> QED BY <1>11, <2>1 DEF LeaseQuietJob, Contract!vars, history
<1>12. CASE FinalizeQuietJob \/ QuietFallback
  <2>1. target \in QuietPlans /\ Unfinished(target) /\ OpsOf(target) = {}
    BY <1>12 DEF FinalizeQuietJob, QuietFallback, HeldInv, QuietRunning, SayInv, QuietPlans,
                 OpsOf
  <2>2. UNCHANGED <<accounts, outcome, emitted>>
    BY <1>12 DEF FinalizeQuietJob, QuietFallback, history
  <2>3. CASE jobs' = jobs
    BY <2>2, <2>3, Stutters
  <2>4. ASSUME NEW s \in {"completed", "failed"}, SetJobStatus(target, s), jobs' # jobs
        PROVE  Contract!Conclude(target)
    <3>1. jobs[target] \in JobActive /\ jobs' = [jobs EXCEPT ![target] = s]
      BY <2>1, <2>4 DEF SetJobStatus, Unfinished
    <3>2. promise' = [promise EXCEPT ![target] = s]
      BY <2>1, <3>1 DEF PromiseOf, JobActive, QuietPlans
    <3>3. promise[target] = "accepted" /\ s \in Contract!Verdict(target)
      BY <2>1, <3>1 DEF PromiseOf, JobActive, Contract!Verdict, QuietPlans
    <3> QED BY <2>1, <2>2, <3>2, <3>3 DEF Contract!Conclude, Contract!OpsIn, OpsOf
  <2>5. jobs' = jobs \/ \E s \in {"completed", "failed"} : SetJobStatus(target, s)
    BY <1>12 DEF FinalizeQuietJob, QuietFallback
  <2>6. target \in Plans
    BY <2>1 DEF QuietPlans
  <2> HIDE DEF promise
  <2> QED BY <2>3, <2>4, <2>5, <2>6 DEF Contract!Next
<1>13. CASE Crash
  BY <1>13 DEF Crash, db, Contract!Restart, Contract!Next
<1>14. CASE ReplayRead \/ ReplayDone \/ SweepRead \/ SweepOne \/ SweepDone
  BY <1>14, Stutters DEF ReplayRead, ReplayDone, SweepRead, SweepOne, SweepDone, db, history
<1>15. CASE LeaseOp \/ LeaseNone \/ Execute \/ PersistFails \/ FallbackFails
  BY <1>15, Stutters DEF LeaseOp, LeaseNone, Execute, PersistFails, FallbackFails, db, history
<1>16. CASE FinalizeSkips \/ LeaseQuietNone \/ RunQuietJob \/ Wake
  BY <1>16, Stutters DEF FinalizeSkips, LeaseQuietNone, RunQuietJob, Wake, db, history
<1>17. CASE Kick \/ (\E p \in Plans : NotifyWorker(p)) \/ UNCHANGED vars
  BY <1>17, Stutters DEF Kick, NotifyWorker, vars, db, history
<1> QED BY <1>1, <1>2, <1>3, <1>5, <1>6, <1>7, <1>8, <1>9, <1>10, <1>11, <1>12, <1>13,
           <1>14, <1>15, <1>16, <1>17 DEF Next, WorkerStep, HandlerStep, Contract!Next

(* The action worker and its journal keep the contract of the action API:  *)
(* every behaviour, with any deaths and failing calls, is a behaviour of   *)
(* ActionContract under the mapping from rows to promises.                 *)
THEOREM JournalImplementsContract == Spec => ImplementsContract
<1>1. Init => ContractInv
  BY DEF Init, ContractInv, StatusInv, SayInv, QuietRunning
<1>2. JournalInv /\ ContractInv /\ [Next]_vars => ContractInv'
  BY StatusStep, SayStep DEF ContractInv
<1>3. Init => Contract!Init
  BY DEF Init, Contract!Init, PromiseOf
<1> QED BY JournalInvariant, ContractStep, <1>1, <1>2, <1>3, PTL
        DEF Spec, ImplementsContract, Contract!Spec
=============================================================================
