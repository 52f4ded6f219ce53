------------------------- MODULE SyncRuntimeProofs -------------------------
(***************************************************************************)
(* Proofs about the sync runs of an account, for every set of callers and  *)
(* every number of Service deaths.  The inductive invariant is RuntimeInv. *)
(***************************************************************************)
EXTENDS SyncRuntime, FiniteSetTheorems, TLAPS

(* Runs whose completion has been sent, or that died with the Service. *)
Over == {"panicked", "emitted", "finished", "gone"}

(* Callers that may still mint a run id. *)
Owed == {c \in Callers : caller[c] = "idle" \/ request[c] \in {"start", "cleared"}}

(* What may be on the wire: an answer, or the completion of a run that is over. *)
Deliverable ==
  [type : {"answer"}, to : Callers, run : Runs \cup {NoRun}]
    \cup [type : {"completed"}, run : {r \in Runs : runner[r] \in Over}]

(* A caller asks once, and an id is minted once per start request. *)
MintInv ==
  /\ \A c \in Callers : request[c] # "none" => caller[c] # "idle"
  /\ minted + Cardinality(Owed) <= Cardinality(Callers)

(* Ids are fresh, and only account.delete takes a supervisor. *)
MapInv ==
  /\ \A r \in Runs : runner[r] # "none" => r <= minted
  /\ deletion # "idle" \/ taken => deleting

(* The map holds the one run that is not over: start_account spawns only   *)
(* when the entry's supervisor has ended.                                   *)
OneRunner ==
  ~deleting => \A r \in Runs :
    runner[r] \in {"running", "marked", "panicked", "emitted"} => entry = r

(* A completion that is on the wire or latched is that of a run that is over. *)
CompletionInv ==
  /\ wire \in Seq(Deliverable)
  /\ \A r \in Runs : slot[r] = "completed" => runner[r] \in Over

(* Nobody was answered with the run. *)
Unclaimed(r) == \A c \in Callers : rid[c] # r

(* An id is in use only once it is minted, a caller has one only once it   *)
(* is answered, and what ages is latched.                                  *)
ClaimInv ==
  /\ \A c \in Callers : rid[c] <= minted /\ (caller[c] \in {"idle", "waiting"} => rid[c] = NoRun)
  /\ \A i \in DOMAIN wire :
       wire[i].run <= minted /\ (wire[i].type = "answer" => caller[wire[i].to] # "idle")
  /\ \A r \in Runs : r > minted => slot[r] = "vacant"
  /\ \A r \in aged : slot[r] = "completed"
  /\ entry # NoRun => runner[entry] \in {"running", "marked", "panicked", "emitted", "finished"}

(* A run nobody was answered with yet, and may be, is ready for whoever is. *)
LatchInv ==
  /\ \A r \in Runs : Unclaimed(r) /\ runner[r] \in {"running", "marked", "panicked", "emitted"} =>
       Ready(r)
  /\ \A i \in DOMAIN wire :
       /\ wire[i].type = "answer" /\ caller[wire[i].to] = "waiting"
       /\ wire[i].run # NoRun /\ runner[wire[i].run] # "none" /\ Unclaimed(wire[i].run)
       => Ready(wire[i].run)

RuntimeInv ==
  /\ TypeOK /\ MintInv /\ MapInv /\ OneRunner /\ MarkerCoversRun
  /\ CompletionInv /\ ReturnsAfterRun /\ ClaimInv /\ LatchInv /\ WakeupOwed

---------------------------------------------------------------------------
(* Facts about the wire and about counting. *)

LEMMA SeqGrows ==
  ASSUME NEW S, NEW T, S \subseteq T, NEW w \in Seq(S)
  PROVE  w \in Seq(T)
OBVIOUS

LEMMA AppendKeeps ==
  ASSUME NEW S, NEW w \in Seq(S), NEW m \in S
  PROVE  Append(w, m) \in Seq(S)
OBVIOUS

LEMMA HeadTail ==
  ASSUME NEW S, NEW w \in Seq(S), w # <<>>
  PROVE  Head(w) \in S /\ Tail(w) \in Seq(S)
OBVIOUS

(* The number of runs is a natural number. *)
LEMMA RunsFacts ==
  /\ Cardinality(Callers) \in Nat
  /\ Runs = 1..Cardinality(Callers) /\ NoRun = 0 /\ NoRun \notin Runs
<1>1. Cardinality(Callers) \in Nat
  BY RuntimeAssumption, FS_CardinalityType
<1> QED BY <1>1 DEF Runs, NoRun

(* An id is left for a caller that may still mint one, and the count goes  *)
(* down with it.                                                            *)
LEMMA Spend ==
  ASSUME NEW S, NEW T, NEW c, S \subseteq Callers, c \in S, T \subseteq S, c \notin T
  PROVE  /\ Cardinality(S) \in Nat /\ Cardinality(T) \in Nat
         /\ Cardinality(T) + 1 <= Cardinality(S)
<1>1. IsFiniteSet(S)
  BY RuntimeAssumption, FS_Subset
<1>2. IsFiniteSet(S \ {c}) /\ Cardinality(S \ {c}) = Cardinality(S) - 1
  BY <1>1, FS_RemoveElement
<1>3. IsFiniteSet(T) /\ Cardinality(T) <= Cardinality(S \ {c})
  BY <1>2, FS_Subset
<1> QED BY <1>1, <1>2, <1>3, FS_CardinalityType

LEMMA Shrink ==
  ASSUME NEW S, NEW T, S \subseteq Callers, T \subseteq S
  PROVE  /\ Cardinality(S) \in Nat /\ Cardinality(T) \in Nat
         /\ Cardinality(T) <= Cardinality(S)
<1>1. IsFiniteSet(S)
  BY RuntimeAssumption, FS_Subset
<1>2. IsFiniteSet(T) /\ Cardinality(T) <= Cardinality(S)
  BY <1>1, FS_Subset
<1> QED BY <1>1, <1>2, FS_CardinalityType

(* A caller that may mint finds an id left. *)
LEMMA IdLeft ==
  ASSUME TypeOK, MintInv, NEW c \in Callers, request[c] \in {"start", "cleared"}
  PROVE  minted + 1 \in Runs
<1>1. c \in Owed /\ Owed \subseteq Callers
  BY DEF Owed
<1>2. Cardinality(Owed) \in Nat /\ Cardinality({}) + 1 <= Cardinality(Owed)
  BY <1>1, Spend
<1>3. Cardinality({}) = 0
  BY FS_EmptySet
<1> QED BY <1>2, <1>3, RunsFacts DEF TypeOK, MintInv

(* The reader is handed completions of runs that are over, and what a slot *)
(* holds is one of three things.                                            *)
LEMMA ReadsRun ==
  ASSUME TypeOK, wire \in Seq(Deliverable), ReadCompleted
  PROVE  /\ Head(wire).run \in Runs /\ runner[Head(wire).run] \in Over
         /\ Swept \in [Runs -> {"vacant", "pending", "completed"}]
<1>1. Head(wire) \in Deliverable
  BY HeadTail DEF ReadCompleted
<1>2. Head(wire).run \in Runs /\ runner[Head(wire).run] \in Over
  BY <1>1 DEF ReadCompleted, Deliverable
<1> QED BY <1>2 DEF TypeOK, Swept

(* route_sync_completed returns the run's subscribers, or none. *)
LEMMA Routes ==
  ASSUME TypeOK, wire \in Seq(Deliverable), ReadCompleted
  PROVE  /\ caller' \in [Callers -> CallerStates]
         /\ \A c \in Callers :
              \/ caller'[c] = caller[c]
              \/ c \in Subscribers(Head(wire).run) /\ caller'[c] = "returned"
<1> DEFINE r == Head(wire).run
<1>1. r \in Runs /\ Swept[r] \in {"vacant", "pending", "completed"}
  BY ReadsRun
<1>2. RouteSyncCompleted(r)
  BY DEF ReadCompleted
<1>3. \/ caller' = caller
      \/ caller' = [c \in Callers |-> IF c \in Subscribers(r) THEN "returned" ELSE caller[c]]
  <2> HIDE DEF r
  <2> QED BY <1>1, <1>2 DEF RouteSyncCompleted
<1> QED BY <1>3 DEF TypeOK, CallerStates

---------------------------------------------------------------------------
(* One lemma per part of the invariant, with a step per action. *)

LEMMA TypeStep ==
  ASSUME TypeOK, MintInv, wire \in Seq(Deliverable), [Next]_vars
  PROVE  TypeOK'
<1> USE RuntimeAssumption, RunsFacts DEF TypeOK, RunnerStates, RequestStates, CallerStates,
        account, runtime, handler, waiters, history, Reply
<1>1. ASSUME NEW c \in Callers, Request(c) PROVE TypeOK'
  BY <1>1 DEF Request
<1>2. ASSUME NEW c \in Callers, Timeout(c) PROVE TypeOK'
  BY <1>2 DEF Timeout
<1>3. ASSUME NEW c \in Callers, CheckDeleting(c) PROVE TypeOK'
  <2>1. minted + 1 \in Runs
    BY <1>3, IdLeft DEF CheckDeleting
  <2>2. minted + 1 \in 0..Cardinality(Callers)
    BY <2>1
  <2>3. minted' \in 0..Cardinality(Callers) /\ request' \in [Callers -> RequestStates]
    BY <1>3, <2>2 DEF CheckDeleting
  <2> QED BY <1>3, <2>3 DEF CheckDeleting
<1>4. ASSUME NEW c \in Callers, Start(c) PROVE TypeOK'
  <2>1. minted + 1 \in Runs
    BY <1>4, IdLeft DEF Start
  <2>2. minted + 1 \in 0..Cardinality(Callers)
    BY <2>1
  <2>3. minted' \in 0..Cardinality(Callers) /\ request' \in [Callers -> RequestStates]
    BY <1>4, <2>2 DEF Start
  <2>4. /\ entry' \in Runs \cup {NoRun} /\ taken' \in BOOLEAN
        /\ marker' \in {"none", "in_progress", "failed", "cancelled"}
    BY <1>4, <2>1 DEF Start
  <2>5. runner' \in [Runs -> RunnerStates]
    BY <1>4, <2>1 DEF Start
  <2>6. unmarked' \subseteq Runs
    <3>1. unmarked' = unmarked \/ unmarked' = unmarked \cup {minted + 1}
      BY ONLY <1>4 DEF Start
    <3> QED BY ONLY <2>1, <3>1, unmarked \subseteq Runs
  <2> QED BY <1>4, <2>3, <2>4, <2>5, <2>6 DEF Start
<1>5. ASSUME NEW c \in Callers, Cancel(c) PROVE TypeOK'
  BY <1>5 DEF Cancel
<1>6. ASSUME NEW c \in Callers, Subscribe(c) PROVE TypeOK'
  <2>1. caller' \in [Callers -> CallerStates]
    <3>1. caller' = [caller EXCEPT ![c] = "returned"] \/ caller' = [caller EXCEPT ![c] = "parked"]
      BY ONLY <1>6 DEF Subscribe, SubscribeOrConsume
    <3> QED BY <3>1
  <2>2. Swept \in [Runs -> {"vacant", "pending", "completed"}]
    BY DEF Swept
  <2>3. slot' \in [Runs -> {"vacant", "pending", "completed"}] /\ aged' \subseteq Runs
    BY <1>6, <2>2 DEF Subscribe, SubscribeOrConsume
  <2> QED BY <1>6, <2>1, <2>3 DEF Subscribe
<1>7. ASSUME NEW r \in Runs, Run(r) PROVE TypeOK'
  <2>1. runner' \in [Runs -> RunnerStates]
    BY <1>7 DEF Run, Mark, Emit, Exit, Panic, MarkPanicked
  <2>2. marker' \in {"none", "in_progress", "failed", "cancelled"}
    BY <1>7 DEF Run, Mark, Emit, Exit, Panic, MarkPanicked, UpdateMarker
  <2>3. UNCHANGED <<deleting, row, entry, taken, minted, handler, request, waiters, history>>
    BY <1>7 DEF Run, Mark, Emit, Exit, Panic, MarkPanicked
  <2> QED BY <2>1, <2>2, <2>3
<1>8. ASSUME NEW r \in Runs, Age(r) PROVE TypeOK'
  BY <1>8 DEF Age
<1>9. CASE Delete
  BY <1>9 DEF Delete, SetDeleting, TakeSupervisor, Quiesce, DeleteRow
<1>10. CASE ReadAnswer
  <2>1. Head(wire) \in Deliverable
    BY <1>10, HeadTail DEF ReadAnswer
  <2>2. Head(wire).to \in Callers /\ Head(wire).run \in Runs \cup {NoRun}
    BY <1>10, <2>1 DEF ReadAnswer, Deliverable
  <2>3. caller' \in [Callers -> CallerStates]
    <3>1. UNCHANGED caller \/ caller' = [caller EXCEPT ![Head(wire).to] = "acked"]
      BY ONLY <1>10 DEF ReadAnswer
    <3> QED BY ONLY <3>1, <2>2, caller \in [Callers -> CallerStates] DEF CallerStates
  <2>4. rid' \in [Callers -> Runs \cup {NoRun}]
    BY <1>10, <2>2 DEF ReadAnswer
  <2> QED BY <1>10, <2>3, <2>4 DEF ReadAnswer
<1>11. CASE ReadCompleted
  <2>2. Head(wire).run \in Runs
    BY <1>11, ReadsRun
  <2>3. Swept \in [Runs -> {"vacant", "pending", "completed"}]
    BY DEF Swept
  <2>4. slot' \in [Runs -> {"vacant", "pending", "completed"}]
    <3>1. RouteSyncCompleted(Head(wire).run)
      BY ONLY <1>11 DEF ReadCompleted
    <3> QED BY ONLY <2>2, <2>3, <3>1 DEF RouteSyncCompleted
  <2>5. caller' \in [Callers -> CallerStates]
    BY <1>11, Routes
  <2> QED BY <1>11, <2>4, <2>5 DEF ReadCompleted
<1>12. CASE Crash
  <2>1. runner' \in [Runs -> RunnerStates] /\ caller' \in [Callers -> CallerStates]
    BY <1>12 DEF Crash
  <2>2. crashes' \in 0..MaxCrashes
    BY <1>12 DEF Crash
  <2>3. /\ slot' \in [Runs -> {"vacant", "pending", "completed"}]
        /\ request' \in [Callers -> RequestStates]
    BY <1>12 DEF Crash
  <2>4. marker' \in {"none", "in_progress", "failed", "cancelled"}
    BY <1>12 DEF Crash, InvariantPass
  <2> QED BY <1>12, <2>1, <2>2, <2>3, <2>4 DEF Crash
<1>13. CASE UNCHANGED vars
  BY <1>13 DEF vars
<1> QED BY <1>1, <1>2, <1>3, <1>4, <1>5, <1>6, <1>7, <1>8, <1>9, <1>10, <1>11, <1>12, <1>13
        DEF Next, Handle, Read

(* A request that is not a start mints nothing. *)
LEMMA MintStep ==
  ASSUME TypeOK, MintInv, wire \in Seq(Deliverable), [Next]_vars
  PROVE  MintInv'
<1> USE RunsFacts DEF TypeOK, MintInv, CallerStates, RequestStates,
        account, runtime, handler, waiters, history, Reply
<1>0. Owed \subseteq Callers
  BY DEF Owed
<1>a. ASSUME minted' = minted, Owed' \subseteq Owed,
             \A c \in Callers : request'[c] # "none" => caller'[c] # "idle"
      PROVE  MintInv'
  <2>1. /\ Cardinality(Owed) \in Nat /\ Cardinality(Owed') \in Nat
        /\ Cardinality(Owed') <= Cardinality(Owed)
    BY <1>0, <1>a, Shrink
  <2> QED BY <1>a, <2>1
<1>b. ASSUME NEW c \in Owed, c \notin Owed', minted' = minted + 1, Owed' \subseteq Owed,
             \A d \in Callers : request'[d] # "none" => caller'[d] # "idle"
      PROVE  MintInv'
  <2>1. /\ Cardinality(Owed) \in Nat /\ Cardinality(Owed') \in Nat
        /\ Cardinality(Owed') + 1 <= Cardinality(Owed)
    BY <1>0, <1>b, Spend
  <2> QED BY <1>b, <2>1
<1>1. ASSUME NEW c \in Callers, Request(c) PROVE MintInv'
  BY <1>1, <1>a DEF Request, Owed
<1>2. ASSUME NEW c \in Callers, Timeout(c) PROVE MintInv'
  BY <1>2, <1>a DEF Timeout, Owed
<1>3. ASSUME NEW c \in Callers, CheckDeleting(c) PROVE MintInv'
  <2>1. CASE minted' = minted + 1 /\ Reply(c, minted + 1)
    BY <1>3, <2>1, <1>b DEF CheckDeleting, Owed
  <2>2. CASE request' = [request EXCEPT ![c] = "cleared"] /\ UNCHANGED <<minted, wire>>
    BY <1>3, <2>2, <1>a DEF CheckDeleting, Owed
  <2> QED BY <1>3, <2>1, <2>2 DEF CheckDeleting
<1>4. ASSUME NEW c \in Callers, Start(c) PROVE MintInv'
  <2>1. CASE InFlight
    BY <1>4, <2>1, <1>a DEF Start, Owed
  <2>2. CASE ~InFlight
    BY <1>4, <2>2, <1>b DEF Start, Owed
  <2> QED BY <2>1, <2>2
<1>5. ASSUME NEW c \in Callers, Cancel(c) PROVE MintInv'
  BY <1>5, <1>a DEF Cancel, Owed
<1>6. ASSUME NEW c \in Callers, Subscribe(c) PROVE MintInv'
  BY <1>6, <1>a DEF Subscribe, SubscribeOrConsume, Owed
<1>7. ASSUME NEW r \in Runs, Run(r) PROVE MintInv'
  BY <1>7, <1>a DEF Run, Mark, Emit, Exit, Panic, MarkPanicked, Owed
<1>8. ASSUME NEW r \in Runs, Age(r) PROVE MintInv'
  BY <1>8, <1>a DEF Age, Owed
<1>9. CASE Delete
  BY <1>9, <1>a DEF Delete, SetDeleting, TakeSupervisor, Quiesce, DeleteRow, Owed
<1>10. CASE ReadAnswer
  BY <1>10, <1>a DEF ReadAnswer, Owed
<1>11. CASE ReadCompleted
  <2>1. \A c \in Callers : caller'[c] = "idle" <=> caller[c] = "idle"
    BY <1>11, Routes DEF Subscribers
  <2> QED BY <1>11, <2>1, <1>a DEF ReadCompleted, Owed
<1>12. CASE Crash
  BY <1>12, <1>a DEF Crash, Owed
<1>13. CASE UNCHANGED vars
  BY <1>13, <1>a DEF vars, Owed
<1> QED BY <1>1, <1>2, <1>3, <1>4, <1>5, <1>6, <1>7, <1>8, <1>9, <1>10, <1>11, <1>12, <1>13
        DEF Next, Handle, Read

LEMMA MapStep ==
  ASSUME TypeOK, MintInv, MapInv, [Next]_vars
  PROVE  MapInv'
<1> USE RunsFacts DEF TypeOK, MapInv, account, runtime, handler, waiters, history, Reply
<1>1. ASSUME NEW c \in Callers, Request(c) PROVE MapInv'
  BY <1>1 DEF Request
<1>2. ASSUME NEW c \in Callers, Timeout(c) PROVE MapInv'
  BY <1>2 DEF Timeout
<1>3. ASSUME NEW c \in Callers, CheckDeleting(c) PROVE MapInv'
  BY <1>3 DEF CheckDeleting
<1>4. ASSUME NEW c \in Callers, Start(c) PROVE MapInv'
  <2>1. minted + 1 \in Runs
    BY <1>4, IdLeft DEF Start
  <2> QED BY <1>4, <2>1 DEF Start
<1>5. ASSUME NEW c \in Callers, Cancel(c) PROVE MapInv'
  BY <1>5 DEF Cancel
<1>6. ASSUME NEW c \in Callers, Subscribe(c) PROVE MapInv'
  BY <1>6 DEF Subscribe
<1>7. ASSUME NEW r \in Runs, Run(r) PROVE MapInv'
  BY <1>7 DEF Run, Mark, Emit, Exit, Panic, MarkPanicked
<1>8. ASSUME NEW r \in Runs, Age(r) PROVE MapInv'
  BY <1>8 DEF Age
<1>9. CASE Delete
  BY <1>9 DEF Delete, SetDeleting, TakeSupervisor, Quiesce, DeleteRow
<1>10. CASE Read
  BY <1>10 DEF Read, ReadAnswer, ReadCompleted
<1>11. CASE Crash
  BY <1>11 DEF Crash, Alive
<1>12. CASE UNCHANGED vars
  BY <1>12 DEF vars
<1> QED BY <1>1, <1>2, <1>3, <1>4, <1>5, <1>6, <1>7, <1>8, <1>9, <1>10, <1>11, <1>12
        DEF Next, Handle

(* A new run takes the entry only from a supervisor that has ended. *)
LEMMA RunnerStep ==
  ASSUME TypeOK, MintInv, MapInv, OneRunner, [Next]_vars
  PROVE  OneRunner'
<1> USE RunsFacts DEF TypeOK, MapInv, OneRunner, account, runtime, handler, waiters, history, Reply
<1>1. ASSUME NEW c \in Callers, Request(c) PROVE OneRunner'
  BY <1>1 DEF Request
<1>2. ASSUME NEW c \in Callers, Timeout(c) PROVE OneRunner'
  BY <1>2 DEF Timeout
<1>3. ASSUME NEW c \in Callers, CheckDeleting(c) PROVE OneRunner'
  BY <1>3 DEF CheckDeleting
<1>4. ASSUME NEW c \in Callers, Start(c) PROVE OneRunner'
  <2>1. minted + 1 \in Runs
    BY <1>4, IdLeft DEF Start
  <2>2. CASE InFlight
    BY <1>4, <2>2 DEF Start
  <2>3. CASE ~InFlight
    BY <1>4, <2>1, <2>3 DEF Start, InFlight, Finished
  <2> QED BY <2>2, <2>3
<1>5. ASSUME NEW c \in Callers, Cancel(c) PROVE OneRunner'
  BY <1>5 DEF Cancel, InFlight, Finished
<1>6. ASSUME NEW c \in Callers, Subscribe(c) PROVE OneRunner'
  BY <1>6 DEF Subscribe
<1>7. ASSUME NEW r \in Runs, Run(r) PROVE OneRunner'
  BY <1>7 DEF Run, Mark, Emit, Exit, Panic, MarkPanicked
<1>8. ASSUME NEW r \in Runs, Age(r) PROVE OneRunner'
  BY <1>8 DEF Age
<1>9. CASE Delete
  BY <1>9 DEF Delete, SetDeleting, TakeSupervisor, Quiesce, DeleteRow
<1>10. CASE Read
  BY <1>10 DEF Read, ReadAnswer, ReadCompleted
<1>11. CASE Crash
  BY <1>11 DEF Crash, Alive
<1>12. CASE UNCHANGED vars
  BY <1>12 DEF vars
<1> QED BY <1>1, <1>2, <1>3, <1>4, <1>5, <1>6, <1>7, <1>8, <1>9, <1>10, <1>11, <1>12
        DEF Next, Handle

(* The marker is written only by the run in the map. *)
LEMMA MarkerStep ==
  ASSUME TypeOK, MintInv, MapInv, OneRunner, MarkerCoversRun, [Next]_vars
  PROVE  MarkerCoversRun'
<1> USE RunsFacts DEF TypeOK, MapInv, OneRunner, MarkerCoversRun,
        account, runtime, handler, waiters, history, Reply
<1>1. ASSUME NEW c \in Callers, Request(c) PROVE MarkerCoversRun'
  BY <1>1 DEF Request
<1>2. ASSUME NEW c \in Callers, Timeout(c) PROVE MarkerCoversRun'
  BY <1>2 DEF Timeout
<1>3. ASSUME NEW c \in Callers, Handle(c) PROVE MarkerCoversRun'
  BY <1>3 DEF Handle, CheckDeleting, Start, Cancel
<1>4. ASSUME NEW c \in Callers, Subscribe(c) PROVE MarkerCoversRun'
  BY <1>4 DEF Subscribe
<1>5. ASSUME NEW r \in Runs, Run(r) PROVE MarkerCoversRun'
  <2>1. CASE Mark(r) \/ MarkPanicked(r)
    BY <2>1 DEF Mark, MarkPanicked
  <2>2. CASE Emit(r) \/ Exit(r) \/ Panic(r)
    BY <2>2 DEF Emit, Exit, Panic
  <2> QED BY <1>5, <2>1, <2>2 DEF Run
<1>6. ASSUME NEW r \in Runs, Age(r) PROVE MarkerCoversRun'
  BY <1>6 DEF Age
<1>7. CASE Delete
  BY <1>7 DEF Delete, SetDeleting, TakeSupervisor, Quiesce, DeleteRow
<1>8. CASE Read
  BY <1>8 DEF Read, ReadAnswer, ReadCompleted
<1>9. CASE Crash
  BY <1>9 DEF Crash, Alive
<1>10. CASE UNCHANGED vars
  BY <1>10 DEF vars
<1> QED BY <1>1, <1>2, <1>3, <1>4, <1>5, <1>6, <1>7, <1>8, <1>9, <1>10 DEF Next

(* A run that is over stays over: a new run has a fresh id. *)
LEMMA OverStays ==
  ASSUME TypeOK, MintInv, MapInv, [Next]_vars
  PROVE  \A r \in Runs : runner[r] \in Over => runner'[r] \in Over
<1> SUFFICES ASSUME NEW r \in Runs, runner[r] \in Over PROVE runner'[r] \in Over
  OBVIOUS
<1> USE RunsFacts DEF TypeOK, MapInv, Over, account, runtime, handler, waiters, history
<1>1. ASSUME NEW c \in Callers, Start(c) PROVE runner'[r] \in Over
  <2>1. minted + 1 \in Runs /\ r <= minted
    BY <1>1, IdLeft DEF Start
  <2> QED BY <1>1, <2>1 DEF Start
<1>2. ASSUME NEW s \in Runs, Run(s) PROVE runner'[r] \in Over
  BY <1>2 DEF Run, Mark, Emit, Exit, Panic, MarkPanicked
<1>3. CASE Crash
  BY <1>3 DEF Crash, Alive
<1>4. CASE UNCHANGED runner
  BY <1>4
<1>5. \/ \E c \in Callers : Start(c)
      \/ \E s \in Runs : Run(s)
      \/ Crash \/ UNCHANGED runner
  BY DEF Next, vars, Handle, Delete, Read, Request, Timeout, CheckDeleting, Cancel, Subscribe,
         Age, SetDeleting, TakeSupervisor, Quiesce, DeleteRow, ReadAnswer, ReadCompleted
<1> QED BY <1>1, <1>2, <1>3, <1>4, <1>5

(* A completion is sent when its run is over, and latched from the wire. *)
LEMMA CompletionStep ==
  ASSUME TypeOK, MintInv, MapInv, CompletionInv, [Next]_vars
  PROVE  CompletionInv'
<1> USE RunsFacts DEF TypeOK, CompletionInv, account, runtime, handler, waiters, history, Reply
<1>a. Deliverable \subseteq Deliverable'
  BY OverStays DEF Deliverable
<1>b. wire \in Seq(Deliverable')
  BY <1>a, SeqGrows
<1>c. \A r \in Runs : runner[r] \in Over => runner'[r] \in Over
  BY OverStays
<1>d. \A c \in Callers, r \in Runs \cup {NoRun} : Answer(c, r) \in Deliverable'
  BY DEF Answer, Deliverable
<1>e. \A r \in Runs : runner'[r] \in Over => Completed(r) \in Deliverable'
  BY DEF Completed, Deliverable
<1>f. \A m \in Deliverable' : Append(wire, m) \in Seq(Deliverable')
  BY <1>b, AppendKeeps
<1>1. ASSUME NEW c \in Callers, Request(c) PROVE CompletionInv'
  BY <1>1, <1>b, <1>c DEF Request
<1>2. ASSUME NEW c \in Callers, Timeout(c) PROVE CompletionInv'
  BY <1>2, <1>b, <1>c DEF Timeout
<1>3. ASSUME NEW c \in Callers, CheckDeleting(c) PROVE CompletionInv'
  <2>1. minted + 1 \in Runs
    BY <1>3, IdLeft DEF CheckDeleting
  <2>2. wire' = wire \/ wire' = Append(wire, Answer(c, minted + 1))
    BY <1>3 DEF CheckDeleting
  <2>3. wire' \in Seq(Deliverable')
    <3>1. Answer(c, minted + 1) \in Deliverable'
      BY <2>1, <1>d
    <3>2. Append(wire, Answer(c, minted + 1)) \in Seq(Deliverable')
      BY <3>1, <1>f
    <3> HIDE DEF TypeOK, CompletionInv
    <3>3. CASE wire' = wire
      BY <3>3, <1>b
    <3>4. CASE wire' = Append(wire, Answer(c, minted + 1))
      BY <3>2, <3>4
    <3> QED BY <2>2, <3>3, <3>4
  <2> QED BY <1>3, <2>3, <1>c DEF CheckDeleting
<1>4. ASSUME NEW c \in Callers, Start(c) PROVE CompletionInv'
  <2>1. minted + 1 \in Runs
    BY <1>4, IdLeft DEF Start
  <2>2. wire' = Append(wire, Answer(c, entry)) \/ wire' = Append(wire, Answer(c, minted + 1))
    BY <1>4 DEF Start
  <2>3. wire' \in Seq(Deliverable')
    <3>1. Answer(c, minted + 1) \in Deliverable' /\ Answer(c, entry) \in Deliverable'
      BY <2>1, <1>d
    <3>2. /\ Append(wire, Answer(c, entry)) \in Seq(Deliverable')
          /\ Append(wire, Answer(c, minted + 1)) \in Seq(Deliverable')
      BY <3>1, <1>f, Zenon
    <3> HIDE DEF TypeOK, CompletionInv
    <3> QED BY <2>2, <3>2, Zenon
  <2> QED BY <1>4, <2>3, <1>c DEF Start
<1>5. ASSUME NEW c \in Callers, Cancel(c) PROVE CompletionInv'
  <2>1. wire' \in Seq(Deliverable')
    BY <1>5, <1>b, <1>d, AppendKeeps DEF Cancel
  <2> QED BY <1>5, <2>1, <1>c DEF Cancel
<1>6. ASSUME NEW c \in Callers, Subscribe(c) PROVE CompletionInv'
  <2>1. wire' \in Seq(Deliverable')
    BY <1>6, <1>b DEF Subscribe
  <2>2. \A r \in Runs : slot'[r] = "completed" => slot[r] = "completed"
    BY <1>6 DEF Subscribe, SubscribeOrConsume, Swept
  <2> QED BY <2>1, <2>2, <1>c
<1>7. ASSUME NEW r \in Runs, Run(r) PROVE CompletionInv'
  <2>1. CASE Mark(r) \/ Exit(r) \/ MarkPanicked(r)
    BY <2>1, <1>b, <1>c DEF Mark, Exit, MarkPanicked
  <2>2. CASE Emit(r) \/ Panic(r)
    <3>1. runner'[r] \in Over /\ wire' = Append(wire, Completed(r)) /\ UNCHANGED slot
      BY <2>2 DEF Emit, Panic, Over
    <3>2. wire' \in Seq(Deliverable')
      BY <3>1, <1>b, <1>e, AppendKeeps
    <3> QED BY <3>1, <3>2, <1>c
  <2> QED BY <1>7, <2>1, <2>2 DEF Run
<1>8. ASSUME NEW r \in Runs, Age(r) PROVE CompletionInv'
  BY <1>8, <1>b, <1>c DEF Age
<1>9. CASE Delete
  BY <1>9, <1>b, <1>c DEF Delete, SetDeleting, TakeSupervisor, Quiesce, DeleteRow
<1>10. CASE ReadAnswer
  <2>1. wire' \in Seq(Deliverable')
    BY <1>10, <1>b, HeadTail DEF ReadAnswer
  <2> QED BY <1>10, <2>1, <1>c DEF ReadAnswer
<1>11. CASE ReadCompleted
  <2>1. wire' \in Seq(Deliverable')
    BY <1>11, <1>b, HeadTail DEF ReadCompleted
  <2>2. \A r \in Runs : slot'[r] = "completed" => slot[r] = "completed" \/ r = Head(wire).run
    BY <1>11, ReadsRun DEF ReadCompleted, RouteSyncCompleted, Swept
  <2>3. Head(wire).run \in Runs /\ runner[Head(wire).run] \in Over
    BY <1>11, ReadsRun
  <2> QED BY <2>1, <2>2, <2>3, <1>c
<1>12. CASE Crash
  <2>1. wire' \in Seq(Deliverable')
    BY <1>12 DEF Crash
  <2> QED BY <1>12, <2>1 DEF Crash
<1>13. CASE UNCHANGED vars
  BY <1>13, <1>b, <1>c DEF vars
<1> QED BY <1>1, <1>2, <1>3, <1>4, <1>5, <1>6, <1>7, <1>8, <1>9, <1>10, <1>11, <1>12, <1>13
        DEF Next, Handle, Read

(* Callers return by a completion: one latched, or the one being routed. *)
LEMMA ReturnStep ==
  ASSUME TypeOK, MintInv, MapInv, CompletionInv, ReturnsAfterRun, [Next]_vars
  PROVE  ReturnsAfterRun'
<1> USE RunsFacts DEF TypeOK, CompletionInv, ReturnsAfterRun, account, runtime, handler, waiters, history
<1>a. \A r \in Runs : runner[r] \in Over => runner'[r] \in Over
  BY OverStays
<1>b. ASSUME UNCHANGED <<caller, rid>> PROVE ReturnsAfterRun'
  BY <1>a, <1>b DEF Over
<1>1. ASSUME NEW c \in Callers, Request(c) PROVE ReturnsAfterRun'
  BY <1>1, <1>a DEF Request, Over
<1>2. ASSUME NEW c \in Callers, Timeout(c) PROVE ReturnsAfterRun'
  BY <1>2, <1>a DEF Timeout, Over
<1>3. ASSUME NEW c \in Callers, Handle(c) PROVE ReturnsAfterRun'
  BY <1>3, <1>b DEF Handle, CheckDeleting, Start, Cancel
<1>4. ASSUME NEW c \in Callers, Subscribe(c) PROVE ReturnsAfterRun'
  <2>1. caller'[c] = "returned" /\ rid[c] # NoRun => runner[rid[c]] \in Over
    BY <1>4 DEF Subscribe, SubscribeOrConsume, Swept
  <2>2. UNCHANGED rid /\ \A d \in Callers \ {c} : caller'[d] = caller[d]
    BY <1>4 DEF Subscribe, SubscribeOrConsume
  <2> QED BY <2>1, <2>2, <1>a DEF Over
<1>5. ASSUME NEW r \in Runs, Run(r) PROVE ReturnsAfterRun'
  BY <1>5, <1>b DEF Run, Mark, Emit, Exit, Panic, MarkPanicked
<1>6. ASSUME NEW r \in Runs, Age(r) PROVE ReturnsAfterRun'
  BY <1>6, <1>b DEF Age
<1>7. CASE Delete
  BY <1>7, <1>b DEF Delete, SetDeleting, TakeSupervisor, Quiesce, DeleteRow
<1>8. CASE ReadAnswer
  BY <1>8, <1>a DEF ReadAnswer, Over
<1>9. CASE ReadCompleted
  <2>1. \A c \in Callers : \/ caller'[c] = caller[c]
                           \/ rid[c] = Head(wire).run
    BY <1>9, Routes DEF Subscribers
  <2>2. runner[Head(wire).run] \in Over /\ Head(wire).run \in Runs /\ UNCHANGED rid
    BY <1>9, ReadsRun DEF ReadCompleted
  <2> QED BY <2>1, <2>2, <1>a DEF Over
<1>10. CASE Crash
  BY <1>10, <1>a DEF Crash, Over
<1>11. CASE UNCHANGED vars
  BY <1>11, <1>b DEF vars
<1> QED BY <1>1, <1>2, <1>3, <1>4, <1>5, <1>6, <1>7, <1>8, <1>9, <1>10, <1>11 DEF Next, Read

---------------------------------------------------------------------------
(* The latch. *)

(* What is on the wire after a message is appended or the front is read. *)
LEMMA WireGrows ==
  ASSUME NEW S, NEW w \in Seq(S), NEW m
  PROVE  /\ \A i \in DOMAIN w : i \in DOMAIN Append(w, m) /\ Append(w, m)[i] = w[i]
         /\ \A i \in DOMAIN Append(w, m) :
              Append(w, m)[i] = m \/ (i \in DOMAIN w /\ Append(w, m)[i] = w[i])
         /\ \E i \in DOMAIN Append(w, m) : Append(w, m)[i] = m
<1>1. DOMAIN w = 1..Len(w) /\ Len(w) \in Nat /\ DOMAIN Append(w, m) = 1..(Len(w) + 1)
  OBVIOUS
<1>2. Append(w, m)[Len(w) + 1] = m /\ \A i \in 1..Len(w) : Append(w, m)[i] = w[i]
  OBVIOUS
<1> QED BY <1>1, <1>2

LEMMA WireShrinks ==
  ASSUME NEW S, NEW w \in Seq(S), w # <<>>
  PROVE  /\ 1 \in DOMAIN w /\ w[1] = Head(w)
         /\ \A i \in DOMAIN Tail(w) : i + 1 \in DOMAIN w /\ Tail(w)[i] = w[i + 1]
         /\ \A i \in DOMAIN w : w[i] = Head(w) \/ \E j \in DOMAIN Tail(w) : Tail(w)[j] = w[i]
<1>1. /\ DOMAIN w = 1..Len(w) /\ Len(w) \in Nat \ {0} /\ DOMAIN Tail(w) = 1..(Len(w) - 1)
      /\ Head(w) = w[1] /\ \A i \in 1..(Len(w) - 1) : Tail(w)[i] = w[i + 1]
  OBVIOUS
<1>2. ASSUME NEW i \in 1..Len(w), i # 1 PROVE \E j \in 1..(Len(w) - 1) : Tail(w)[j] = w[i]
  <2>1. i - 1 \in 1..(Len(w) - 1) /\ (i - 1) + 1 = i
    BY <1>1, <1>2
  <2> QED BY <1>1, <2>1
<1>3. ASSUME NEW i \in DOMAIN w PROVE w[i] = Head(w) \/ \E j \in DOMAIN Tail(w) : Tail(w)[j] = w[i]
  <2>1. CASE i = 1
    BY <1>1, <2>1
  <2>2. CASE i # 1
    BY <1>1, <1>2, <2>2
  <2> QED BY <2>1, <2>2
<1>4. \A i \in DOMAIN Tail(w) : i + 1 \in DOMAIN w /\ Tail(w)[i] = w[i + 1]
  BY <1>1
<1>5. 1 \in DOMAIN w /\ w[1] = Head(w)
  BY <1>1
<1> QED BY <1>3, <1>4, <1>5

(* What may be read is an answer or a completion. *)
LEMMA WireFacts ==
  ASSUME CompletionInv, NEW i \in DOMAIN wire
  PROVE  \/ wire[i].type = "answer" /\ wire[i].to \in Callers /\ wire[i].run \in Runs \cup {NoRun}
         \/ /\ wire[i].type = "completed" /\ wire[i].run \in Runs /\ runner[wire[i].run] \in Over
            /\ wire[i] = Completed(wire[i].run)
<1>1. wire[i] \in Deliverable
  BY DEF CompletionInv
<1> QED BY <1>1 DEF Deliverable, Completed

(* Frames written in a step, and frames that were there before. *)
LEMMA WireStep ==
  ASSUME TypeOK, MintInv, CompletionInv, [Next]_vars, NEW i \in DOMAIN wire'
  PROVE  \/ \E j \in DOMAIN wire : wire'[i] = wire[j]
         \/ \E r \in Runs : wire'[i] = Completed(r) /\ runner[r] # "none" /\ ~Crash
         \/ \E c \in Callers : \E r \in Runs \cup {NoRun} :
              /\ wire'[i] = Answer(c, r) /\ caller[c] # "idle" /\ caller' = caller
              /\ UNCHANGED <<rid, slot, aged, stale>>
              /\ \/ r = NoRun
                 \/ r = entry /\ InFlight /\ UNCHANGED <<runner, minted>>
                 \/ r = minted + 1 /\ minted' = minted + 1
                    /\ (runner'[r] = "running" \/ runner' = runner)
<1> USE RunsFacts DEF TypeOK, account, runtime, handler, waiters, history
<1>a. wire \in Seq(Deliverable)
  BY DEF CompletionInv
<1>b. CASE UNCHANGED wire
  BY <1>b
<1>c. ASSUME wire # <<>>, wire' = Tail(wire) PROVE \E j \in DOMAIN wire : wire'[i] = wire[j]
  <2>1. i + 1 \in DOMAIN wire /\ wire'[i] = wire[i + 1]
    BY <1>a, <1>c, WireShrinks
  <2> QED BY <2>1
<1>d. ASSUME NEW m, wire' = Append(wire, m) PROVE wire'[i] = m \/ \E j \in DOMAIN wire : wire'[i] = wire[j]
  <2>1. \A k \in DOMAIN Append(wire, m) :
          Append(wire, m)[k] = m \/ (k \in DOMAIN wire /\ Append(wire, m)[k] = wire[k])
    BY <1>a, WireGrows
  <2> QED BY <1>d, <2>1
<1>3. ASSUME NEW c \in Callers, CheckDeleting(c)
      PROVE  \/ UNCHANGED wire
             \/ /\ minted + 1 \in Runs /\ wire' = Append(wire, Answer(c, minted + 1)) /\ caller[c] # "idle"
                /\ UNCHANGED <<caller, rid, slot, aged, stale, runner>> /\ minted' = minted + 1
  <2>1. minted + 1 \in Runs
    BY <1>3, IdLeft DEF CheckDeleting
  <2> QED BY <1>3, <2>1 DEF CheckDeleting, Reply, MintInv
<1>4. ASSUME NEW c \in Callers, Start(c)
      PROVE  /\ UNCHANGED <<caller, rid, slot, aged, stale>> /\ caller[c] # "idle"
             /\ \/ /\ entry \in Runs \cup {NoRun} /\ InFlight /\ wire' = Append(wire, Answer(c, entry))
                   /\ UNCHANGED <<runner, minted>>
                \/ /\ minted + 1 \in Runs /\ wire' = Append(wire, Answer(c, minted + 1))
                   /\ minted' = minted + 1 /\ runner'[minted + 1] = "running"
  <2>1. minted + 1 \in Runs
    BY <1>4, IdLeft DEF Start
  <2> QED BY <1>4, <2>1 DEF Start, Reply, MintInv
<1>5. ASSUME NEW c \in Callers, Cancel(c)
      PROVE  /\ UNCHANGED <<caller, rid, slot, aged, stale, runner, minted>> /\ caller[c] # "idle"
             /\ \/ wire' = Append(wire, Answer(c, NoRun))
                \/ InFlight /\ wire' = Append(wire, Answer(c, entry))
  BY <1>5 DEF Cancel, Reply, MintInv
<1>7. ASSUME NEW r \in Runs, Run(r)
      PROVE  UNCHANGED wire \/ (wire' = Append(wire, Completed(r)) /\ runner[r] # "none" /\ ~Crash)
  <2>1. Run(r) => UNCHANGED crashes
    BY DEF Run, Mark, Emit, Exit, Panic, MarkPanicked
  <2>2. Crash => crashes' # crashes
    BY RuntimeAssumption DEF Crash
  <2> QED BY <1>7, <2>1, <2>2 DEF Run, Mark, Emit, Exit, Panic, MarkPanicked
<1>8. CASE \/ \E c \in Callers : Request(c) \/ Timeout(c) \/ Subscribe(c)
           \/ \E r \in Runs : Age(r)
           \/ Delete \/ UNCHANGED vars
  BY <1>8, <1>b DEF Request, Timeout, Subscribe, Age, Delete, SetDeleting, TakeSupervisor, Quiesce,
     DeleteRow, vars
<1>9. CASE Read
  BY <1>9, <1>c DEF Read, ReadAnswer, ReadCompleted
<1>10. CASE Crash
  BY <1>10 DEF Crash
<1>11. CASE \E r \in Runs : Run(r)
  <2>1. PICK r \in Runs : Run(r)
    BY <1>11
  <2> QED BY <2>1, <1>7, <1>b, <1>d
<1>12. CASE \E c \in Callers : Handle(c)
  <2>1. PICK c \in Callers : CheckDeleting(c) \/ Start(c) \/ Cancel(c)
    BY <1>12 DEF Handle
  <2>2. CASE CheckDeleting(c)
    BY <2>2, <1>3, <1>b, <1>d
  <2>3. CASE Start(c)
    BY <2>3, <1>4, <1>d
  <2>4. CASE Cancel(c)
    BY <2>4, <1>5, <1>d
  <2> QED BY <2>1, <2>2, <2>3, <2>4
<1> QED BY <1>8, <1>9, <1>10, <1>11, <1>12 DEF Next

(* Who holds which id: an id is given with an answer, to a caller that had *)
(* none.                                                                   *)
LEMMA RidStep ==
  ASSUME TypeOK, CompletionInv, ClaimInv, [Next]_vars, NEW c \in Callers
  PROVE  /\ \/ rid'[c] = rid[c]
            \/ /\ ReadAnswer /\ rid[c] = NoRun /\ caller[c] = "waiting" /\ caller'[c] = "acked"
               /\ \E i \in DOMAIN wire : wire[i].type = "answer" /\ wire[i].to = c /\ rid'[c] = wire[i].run
         /\ caller'[c] = "idle" => caller[c] = "idle"
         /\ caller'[c] = "waiting" => caller[c] \in {"idle", "waiting"}
         /\ caller'[c] = "acked" => caller[c] = "acked" \/ (ReadAnswer /\ rid'[c] # rid[c]) \/ rid'[c] = NoRun
         /\ caller'[c] = "parked" => caller[c] = "parked" \/ (Subscribe(c) /\ rid[c] # NoRun)
<1> USE RunsFacts DEF TypeOK, ClaimInv, account, runtime, handler, waiters, history
<1>a. wire \in Seq(Deliverable)
  BY DEF CompletionInv
<1>1. CASE ReadAnswer
  <2>1. 1 \in DOMAIN wire /\ wire[1] = Head(wire)
    BY <1>a, <1>1, WireShrinks DEF ReadAnswer
  <2>2. Head(wire).type = "answer" /\ Head(wire).to \in Callers /\ Head(wire).run \in Runs \cup {NoRun}
    BY <1>1, <2>1, WireFacts DEF ReadAnswer
  <2>3. CASE c = Head(wire).to /\ caller[c] = "waiting"
    BY <1>1, <2>1, <2>2, <2>3 DEF ReadAnswer
  <2>4. CASE ~(c = Head(wire).to /\ caller[c] = "waiting")
    BY <1>1, <2>2, <2>4 DEF ReadAnswer
  <2> QED BY <2>3, <2>4
<1>2. CASE ReadCompleted
  BY <1>2, <1>a, Routes DEF ReadCompleted
<1>3. ASSUME NEW d \in Callers, Request(d) \/ Timeout(d)
      PROVE  /\ rid' = rid /\ (caller'[c] = caller[c] \/ (c = d /\ caller'[c] \in {"waiting", "failed"}))
             /\ caller'[c] = "waiting" => caller[c] \in {"idle", "waiting"}
  BY <1>3 DEF Request, Timeout
<1>4. ASSUME NEW d \in Callers, Subscribe(d)
      PROVE  rid' = rid /\ (caller'[c] = caller[c] \/ (c = d /\ caller'[c] \in {"parked", "returned"}))
             /\ (caller'[c] = "parked" /\ c = d => rid[c] # NoRun)
  BY <1>4 DEF Subscribe, SubscribeOrConsume
<1>5. ASSUME NEW d \in Callers, Handle(d) PROVE UNCHANGED <<caller, rid>>
  BY <1>5 DEF Handle, CheckDeleting, Start, Cancel
<1>6. ASSUME NEW r \in Runs, Run(r) \/ Age(r) PROVE UNCHANGED <<caller, rid>>
  BY <1>6 DEF Run, Mark, Emit, Exit, Panic, MarkPanicked, Age
<1>7. CASE Delete \/ UNCHANGED vars
  BY <1>7 DEF Delete, SetDeleting, TakeSupervisor, Quiesce, DeleteRow, vars
<1>8. CASE Crash
  BY <1>8 DEF Crash
<1> QED BY <1>1, <1>2, <1>3, <1>4, <1>5, <1>6, <1>7, <1>8 DEF Next, Read

(* What becomes of a slot nobody subscribes to in this step. *)
LEMMA SlotStep ==
  ASSUME TypeOK, CompletionInv, [Next]_vars, ~Crash, NEW r \in Runs,
         \A c \in Callers : ~(Subscribe(c) /\ rid[c] = r)
  PROVE  \/ slot'[r] = slot[r] /\ (r \in aged' => r \in aged \/ Age(r))
         \/ slot'[r] = Swept[r] /\ aged' = {}
         \/ /\ ReadCompleted /\ Head(wire).run = r /\ aged' = {}
            /\ slot'[r] = IF Swept[r] = "pending" THEN "vacant" ELSE "completed"
<1> USE RunsFacts DEF TypeOK, account, runtime, handler, waiters, history
<1>a. wire \in Seq(Deliverable)
  BY DEF CompletionInv
<1>b. Swept \in [Runs -> {"vacant", "pending", "completed"}]
  BY DEF Swept
<1>1. CASE UNCHANGED <<slot, aged>>
  BY <1>1
<1>2. ASSUME NEW c \in Callers, Subscribe(c)
      PROVE  UNCHANGED <<slot, aged>> \/ (slot'[r] = Swept[r] /\ aged' = {})
  BY <1>2, <1>b DEF Subscribe, SubscribeOrConsume
<1>3. ASSUME NEW s \in Runs, Age(s) PROVE slot'[r] = slot[r] /\ (r \in aged' => r \in aged \/ Age(r))
  BY <1>3 DEF Age
<1>4. CASE ReadCompleted
  <2>1. Head(wire).run \in Runs /\ aged' = {}
    BY <1>4, <1>a, ReadsRun DEF ReadCompleted
  <2>2. CASE Head(wire).run # r
    <3>1. slot'[r] = Swept[r]
      BY <1>4, <1>b, <2>1, <2>2 DEF ReadCompleted, RouteSyncCompleted
    <3> QED BY <2>1, <3>1
  <2>3. CASE Head(wire).run = r
    <3>1. slot'[r] = IF Swept[r] = "pending" THEN "vacant" ELSE "completed"
      <4>1. RouteSyncCompleted(r) /\ Swept[r] \in {"vacant", "pending", "completed"}
        BY <1>4, <1>b, <2>3 DEF ReadCompleted
      <4> QED BY <1>b, <4>1 DEF RouteSyncCompleted
    <3> QED BY <1>4, <2>1, <2>3, <3>1
  <2> QED BY <2>2, <2>3
<1>5. CASE \/ \E c \in Callers : Request(c) \/ Timeout(c) \/ Handle(c)
           \/ \E s \in Runs : Run(s)
           \/ Delete \/ ReadAnswer \/ UNCHANGED vars
  <2>1. UNCHANGED <<slot, aged>>
    BY <1>5 DEF Request, Timeout, Handle, CheckDeleting, Start, Cancel, Run, Mark, Emit, Exit, Panic,
       MarkPanicked, Delete, SetDeleting, TakeSupervisor, Quiesce, DeleteRow, ReadAnswer, vars
  <2> QED BY <2>1
<1> QED BY <1>1, <1>2, <1>3, <1>4, <1>5 DEF Next, Read

(* A run's runner appears with its id, and ids only grow. *)
LEMMA MintedStep ==
  ASSUME TypeOK, MintInv, MapInv, ClaimInv, [Next]_vars
  PROVE  /\ minted' \in Nat /\ minted <= minted'
         /\ \A r \in Runs : runner'[r] # "none" /\ runner[r] = "none" =>
              r = minted + 1 /\ runner'[r] = "running" /\ UNCHANGED <<rid, slot, aged>>
         /\ entry' # NoRun => runner'[entry'] \in {"running", "marked", "panicked", "emitted", "finished"}
<1> USE RunsFacts DEF TypeOK, account, runtime, handler, waiters, history
<1>1. ASSUME NEW c \in Callers, Start(c)
      PROVE  /\ minted' \in Nat /\ minted <= minted' /\ UNCHANGED <<rid, slot, aged>>
             /\ \A r \in Runs : runner'[r] = runner[r] \/ (r = minted + 1 /\ runner'[r] = "running")
             /\ entry' # NoRun =>
                  runner'[entry'] \in {"running", "marked", "panicked", "emitted", "finished"}
  <2>1. minted + 1 \in Runs
    BY <1>1, IdLeft DEF Start
  <2>2. CASE InFlight
    BY <1>1, <2>2 DEF Start, ClaimInv
  <2>3. CASE ~InFlight
    BY <1>1, <2>1, <2>3 DEF Start
  <2> QED BY <2>2, <2>3
<1>2. ASSUME NEW s \in Runs, Run(s)
      PROVE  /\ minted' = minted /\ entry' = entry
             /\ \A r \in Runs : runner[r] = "none" => runner'[r] = "none"
             /\ \A r \in Runs : runner[r] \in {"running", "marked", "panicked", "emitted", "finished"} =>
                  runner'[r] \in {"running", "marked", "panicked", "emitted", "finished"}
  BY <1>2 DEF Run, Mark, Emit, Exit, Panic, MarkPanicked
<1>3. CASE Crash
  BY <1>3 DEF Crash, Alive
<1>4. ASSUME NEW c \in Callers, Request(c) \/ Timeout(c) \/ CheckDeleting(c) \/ Cancel(c) \/ Subscribe(c)
      PROVE  UNCHANGED runner /\ minted' \in Nat /\ minted <= minted' /\ (entry' = entry \/ entry' = NoRun)
  BY <1>4 DEF Request, Timeout, CheckDeleting, Cancel, Subscribe
<1>5. CASE Delete \/ Read \/ UNCHANGED vars \/ \E r \in Runs : Age(r)
  <2>1. UNCHANGED <<runner, minted>> /\ (entry' = entry \/ entry' = NoRun)
    BY <1>5 DEF Delete, SetDeleting, TakeSupervisor, Quiesce, DeleteRow, Read, ReadAnswer, ReadCompleted,
       vars, Age
  <2> QED BY <2>1 DEF ClaimInv
<1>6. CASE \E c \in Callers : Start(c)
  BY <1>1, <1>6
<1>7. CASE \E s \in Runs : Run(s)
  BY <1>2, <1>7 DEF ClaimInv
<1>8. CASE \E c \in Callers : Request(c) \/ Timeout(c) \/ CheckDeleting(c) \/ Cancel(c) \/ Subscribe(c)
  BY <1>4, <1>8 DEF ClaimInv
<1> QED BY <1>3, <1>5, <1>6, <1>7, <1>8 DEF Next, Handle

LEMMA ClaimStep ==
  ASSUME TypeOK, MintInv, MapInv, CompletionInv, ClaimInv, [Next]_vars
  PROVE  ClaimInv'
<1> USE RunsFacts DEF TypeOK
<1>1. /\ minted' \in Nat /\ minted <= minted' /\ minted \in Nat
      /\ entry' # NoRun => runner'[entry'] \in {"running", "marked", "panicked", "emitted", "finished"}
  BY MintedStep
<1>2. \A i \in DOMAIN wire : wire[i].run \in Nat /\ wire[i].run <= minted'
  <2>1. \A i \in DOMAIN wire : wire[i].run \in Nat /\ wire[i].run <= minted
    BY WireFacts DEF ClaimInv
  <2> QED BY <1>1, <2>1
<1>3. ASSUME NEW c \in Callers
      PROVE  rid'[c] <= minted' /\ (caller'[c] \in {"idle", "waiting"} => rid'[c] = NoRun)
  <2>1. CASE rid'[c] = rid[c]
    BY <1>1, <2>1, RidStep DEF ClaimInv
  <2>2. CASE rid'[c] # rid[c]
    BY <1>2, <2>2, RidStep
  <2> QED BY <2>1, <2>2
<1>4. ASSUME NEW i \in DOMAIN wire'
      PROVE  wire'[i].run <= minted' /\ (wire'[i].type = "answer" => caller'[wire'[i].to] # "idle")
  <2>1. CASE \E j \in DOMAIN wire : wire'[i] = wire[j]
    <3>1. PICK j \in DOMAIN wire : wire'[i] = wire[j]
      BY <2>1
    <3>2. wire[j].type = "answer" => wire[j].to \in Callers /\ caller[wire[j].to] # "idle"
      BY WireFacts DEF ClaimInv
    <3> QED BY <1>2, <3>1, <3>2, RidStep
  <2>2. CASE \E r \in Runs : wire'[i] = Completed(r) /\ runner[r] # "none" /\ ~Crash
    BY <1>1, <2>2 DEF Completed, MapInv
  <2>3. CASE \E c \in Callers : \E r \in Runs \cup {NoRun} :
               /\ wire'[i] = Answer(c, r) /\ caller[c] # "idle" /\ caller' = caller
               /\ (r = NoRun \/ (r = entry /\ InFlight) \/ (r = minted + 1 /\ minted' = minted + 1))
    <3>1. PICK c \in Callers, r \in Runs \cup {NoRun} :
               /\ wire'[i] = Answer(c, r) /\ caller[c] # "idle" /\ caller' = caller
               /\ (r = NoRun \/ (r = entry /\ InFlight) \/ (r = minted + 1 /\ minted' = minted + 1))
      BY <2>3
    <3>2. r <= minted'
      BY <1>1, <3>1 DEF InFlight, MapInv, ClaimInv
    <3> QED BY <3>1, <3>2 DEF Answer
  <2> HIDE DEF TypeOK
  <2> QED BY <2>1, <2>2, <2>3, WireStep
<1>5. ASSUME NEW r \in Runs, r > minted' PROVE slot'[r] = "vacant"
  <2>1. CASE Crash
    BY <2>1 DEF Crash
  <2>2. CASE ~Crash
    <3>1. slot[r] = "vacant" /\ Swept[r] = "vacant" /\ r > minted
      BY <1>1, <1>5 DEF ClaimInv, Swept
    <3>2. \A c \in Callers : rid[c] # r
      BY <1>1, <3>1 DEF ClaimInv
    <3>3. ~(ReadCompleted /\ Head(wire).run = r)
      <4> SUFFICES ASSUME ReadCompleted PROVE Head(wire).run # r
        OBVIOUS
      <4>1. 1 \in DOMAIN wire /\ wire[1] = Head(wire)
        BY WireShrinks DEF ReadCompleted, CompletionInv
      <4> QED BY <4>1, <1>1, <1>2, <1>5
    <3> QED BY <2>2, <3>1, <3>2, <3>3, SlotStep
  <2> QED BY <2>1, <2>2
<1>6. \A r \in aged' : slot'[r] = "completed"
  <2>1. CASE aged' = {}
    BY <2>1
  <2>2. CASE UNCHANGED <<slot, aged>>
    BY <2>2 DEF ClaimInv
  <2>3. CASE \E r \in Runs : Age(r)
    BY <2>3 DEF Age, ClaimInv
  <2>4. \/ aged' = {} \/ UNCHANGED <<slot, aged>> \/ \E r \in Runs : Age(r)
    BY DEF Next, Read, ReadAnswer, ReadCompleted, Crash, Subscribe, Request, Timeout, Handle,
       CheckDeleting, Start, Cancel, Run, Mark, Emit, Exit, Panic, MarkPanicked, Delete, SetDeleting,
       TakeSupervisor, Quiesce, DeleteRow, vars, waiters
  <2> QED BY <2>1, <2>2, <2>3, <2>4
<1> QED BY <1>1, <1>3, <1>4, <1>5, <1>6 DEF ClaimInv

(* A completion that is to come stays so until it is read. *)
LEMMA ToComeKept ==
  ASSUME TypeOK, MintInv, MapInv, CompletionInv, ClaimInv, [Next]_vars, ~Crash, NEW r \in Runs, ToCome(r),
         ~(ReadCompleted /\ Head(wire).run = r)
  PROVE  ToCome(r)'
<1> USE RunsFacts DEF TypeOK, ToCome, account, runtime, handler, waiters, history
<1>a. wire \in Seq(Deliverable)
  BY DEF CompletionInv
<1>b. ASSUME NEW m, wire' = Append(wire, m), NEW i \in DOMAIN wire
      PROVE  i \in DOMAIN wire' /\ wire'[i] = wire[i]
  BY <1>a, <1>b, WireGrows
<1>c. ASSUME NEW m, wire' = Append(wire, m) PROVE \E i \in DOMAIN wire' : wire'[i] = m
  BY ONLY <1>a, <1>c, WireGrows
<1>1. ASSUME NEW c \in Callers, Start(c) PROVE ToCome(r)'
  <2>1. minted + 1 \in Runs
    BY <1>1, IdLeft DEF Start
  <2>2. \E m : wire' = Append(wire, m)
    BY <1>1 DEF Start, Reply
  <2>3. runner'[r] = runner[r] \/ runner'[r] = "running"
    BY <1>1, <2>1 DEF Start
  <2> QED BY <1>b, <2>2, <2>3
<1>2. ASSUME NEW c \in Callers, CheckDeleting(c) \/ Cancel(c) PROVE ToCome(r)'
  <2>1. UNCHANGED runner /\ (UNCHANGED wire \/ \E m : wire' = Append(wire, m))
    BY <1>2 DEF CheckDeleting, Cancel, Reply
  <2> QED BY <1>b, <2>1
<1>3. ASSUME NEW s \in Runs, Run(s) PROVE ToCome(r)'
  <2>1. CASE Mark(s) \/ Exit(s) \/ MarkPanicked(s)
    BY <2>1 DEF Mark, Exit, MarkPanicked
  <2>2. CASE Emit(s) \/ Panic(s)
    <3>1. wire' = Append(wire, Completed(s)) /\ (r # s => runner'[r] = runner[r])
      BY <2>2 DEF Emit, Panic
    <3>2. CASE r = s
      BY <1>c, <3>1, <3>2
    <3>3. CASE r # s
      BY <1>b, <3>1, <3>3
    <3> QED BY <3>2, <3>3
  <2> QED BY <1>3, <2>1, <2>2 DEF Run
<1>4. CASE Read
  <2>1. wire # <<>> /\ wire' = Tail(wire) /\ UNCHANGED runner
    BY <1>4 DEF Read, ReadAnswer, ReadCompleted
  <2>2. Head(wire) # Completed(r)
    BY <1>4 DEF Read, ReadAnswer, Completed
  <2>3. \A i \in DOMAIN wire : wire[i] = Head(wire) \/ \E j \in DOMAIN wire' : wire'[j] = wire[i]
    BY <1>a, <2>1, WireShrinks
  <2> QED BY ONLY ToCome(r), <2>1, <2>2, <2>3 DEF ToCome
<1>5. CASE \/ \E c \in Callers : Request(c) \/ Timeout(c) \/ Subscribe(c)
           \/ \E s \in Runs : Age(s)
           \/ Delete \/ UNCHANGED vars
  <2>1. UNCHANGED <<wire, runner>>
    BY <1>5 DEF Request, Timeout, Subscribe, Age, Delete, SetDeleting, TakeSupervisor, Quiesce, DeleteRow,
       vars
  <2> QED BY <2>1
<1> QED BY <1>1, <1>2, <1>3, <1>4, <1>5 DEF Next, Handle

(* A run that is ready stays ready until a caller subscribes to it, its    *)
(* latched completion ages, or the Service dies.                           *)
LEMMA ReadyKept ==
  ASSUME TypeOK, MintInv, MapInv, CompletionInv, ClaimInv, [Next]_vars, ~Crash, NEW r \in Runs, Ready(r),
         ~Age(r), \A c \in Callers : ~(Subscribe(c) /\ rid[c] = r)
  PROVE  Ready(r)'
<1>1. Swept[r] = slot[r]
  BY DEF Ready, Swept, ClaimInv
<1>2. CASE ReadCompleted /\ Head(wire).run = r
  <2>1. aged' = {} \/ slot'[r] = slot[r]
    BY <1>2 DEF ReadCompleted
  <2>2. aged' = {} /\ slot'[r] = "completed"
    <3>1. RouteSyncCompleted(r) /\ aged' = {}
      BY <1>2 DEF ReadCompleted
    <3>2. Swept \in [Runs -> {"vacant", "pending", "completed"}]
      BY DEF TypeOK, Swept
    <3> QED BY <1>1, <3>1, <3>2 DEF RouteSyncCompleted, Ready
  <2> QED BY <2>2 DEF Ready
<1>3. CASE ~(ReadCompleted /\ Head(wire).run = r)
  <2>1. slot'[r] = slot[r] /\ (r \in aged' => r \in aged)
    BY <1>1, <1>3, SlotStep
  <2>2. ToCome(r) => ToCome(r)'
    BY <1>3, ToComeKept
  <2> QED BY <2>1, <2>2 DEF Ready
<1> QED BY <1>2, <1>3

(* An id that nobody holds after a step was held by nobody before it. *)
LEMMA UnclaimedBefore ==
  ASSUME TypeOK, CompletionInv, ClaimInv, [Next]_vars, NEW r \in Runs, Unclaimed(r)'
  PROVE  Unclaimed(r)
BY RidStep, RunsFacts DEF Unclaimed

LEMMA LatchStep ==
  ASSUME TypeOK, MintInv, MapInv, CompletionInv, ClaimInv, LatchInv, [Next]_vars
  PROVE  LatchInv'
<1> USE RunsFacts DEF TypeOK
<1> DEFINE Active == {"running", "marked", "panicked", "emitted"}
<1>1. ASSUME NEW r \in Runs, Unclaimed(r)', runner'[r] \in Active PROVE Ready(r)'
  <2>1. Unclaimed(r)
    BY <1>1, UnclaimedBefore
  <2>2. ~Crash
    BY <1>1 DEF Crash, Alive
  <2>3. CASE runner[r] = "none"
    <3>1. r = minted + 1 /\ runner'[r] = "running" /\ UNCHANGED <<slot, aged>>
      BY <1>1, <2>3, MintedStep
    <3>2. slot[r] = "vacant"
      BY <3>1 DEF ClaimInv
    <3> QED BY <3>1, <3>2 DEF Ready, ToCome
  <2>4. CASE runner[r] # "none"
    <3>1. runner[r] \in Active
      <4>1. runner[r] \in {"finished", "gone"} => runner'[r] = runner[r]
        BY <2>2, <2>4, IdLeft DEF Next, Handle, Read, ReadAnswer, ReadCompleted, Subscribe, Request, Timeout,
           CheckDeleting, Start, Cancel, Run, Mark, Emit, Exit, Panic, MarkPanicked, Delete,
           SetDeleting, TakeSupervisor, Quiesce, DeleteRow, Age, vars, runtime, MapInv
      <4> QED BY <1>1, <2>4, <4>1 DEF RunnerStates
    <3>2. Ready(r)
      BY <2>1, <3>1 DEF LatchInv
    <3>3. ~Age(r) /\ \A c \in Callers : rid[c] # r
      BY <2>1, <3>1 DEF Age, Unclaimed
    <3> QED BY <2>2, <3>2, <3>3, ReadyKept
  <2> QED BY <2>3, <2>4
<1>2. ASSUME NEW i \in DOMAIN wire', wire'[i].type = "answer", caller'[wire'[i].to] = "waiting",
             NEW r, wire'[i].run = r, r # NoRun, runner'[r] # "none", Unclaimed(r)'
      PROVE  Ready(r)'
  <2>1. CASE \E j \in DOMAIN wire : wire'[i] = wire[j]
    <3>1. PICK j \in DOMAIN wire : wire'[i] = wire[j]
      BY <2>1
    <3>2. wire[j].to \in Callers /\ r \in Runs
      BY <1>2, <3>1, WireFacts
    <3>3. caller[wire[j].to] = "waiting"
      BY <1>2, <3>1, <3>2, RidStep DEF ClaimInv
    <3>4. runner[r] # "none"
      BY <1>2, <3>1, <3>2, MintedStep DEF ClaimInv
    <3>5. Unclaimed(r)
      BY <1>2, <3>2, UnclaimedBefore
    <3>6. Ready(r)
      BY <1>2, <3>1, <3>3, <3>4, <3>5 DEF LatchInv
    <3>7. ~Crash /\ ~Age(r)
      BY <1>2, <3>1, <3>2, <3>3 DEF Crash, Age
    <3>8. \A c \in Callers : rid[c] # r
      BY <3>5 DEF Unclaimed
    <3> QED BY <3>2, <3>6, <3>7, <3>8, ReadyKept
  <2>2. CASE \E c \in Callers : \E x \in Runs \cup {NoRun} :
              /\ wire'[i] = Answer(c, x)
              /\ \/ x = NoRun
                 \/ x = entry /\ InFlight /\ UNCHANGED <<runner, minted>>
                 \/ x = minted + 1 /\ minted' = minted + 1
                    /\ (runner'[x] = "running" \/ runner' = runner)
    <3>1. /\ r \in Runs
          /\ \/ r = entry /\ InFlight /\ UNCHANGED <<runner, minted>>
             \/ r = minted + 1 /\ minted' = minted + 1
                /\ (runner'[r] = "running" \/ runner' = runner)
      BY <1>2, <2>2 DEF Answer
    <3>2. runner'[r] \in Active
      <4>1. CASE r = entry /\ InFlight /\ UNCHANGED <<runner, minted>>
        BY <3>1, <4>1 DEF InFlight, Finished, ClaimInv
      <4>2. CASE r = minted + 1 /\ (runner'[r] = "running" \/ runner' = runner)
        <5>1. ~(runner' = runner)
          <6> SUFFICES ASSUME runner' = runner PROVE FALSE
            OBVIOUS
          <6>1. r <= minted
            BY <1>2, <3>1 DEF MapInv
          <6> QED BY <4>2, <6>1
        <5> QED BY <4>2, <5>1
      <4> QED BY <3>1, <4>1, <4>2
    <3> QED BY <1>1, <1>2, <3>1, <3>2
  <2>3. CASE \E x \in Runs : wire'[i] = Completed(x)
    BY <1>2, <2>3 DEF Completed
  <2> QED BY <2>1, <2>2, <2>3, WireStep
<1>3. \A i \in DOMAIN wire' :
        /\ wire'[i].type = "answer" /\ caller'[wire'[i].to] = "waiting"
        /\ wire'[i].run # NoRun /\ runner'[wire'[i].run] # "none" /\ Unclaimed(wire[i].run)'
        => Ready(wire[i].run)'
  BY <1>2
<1> QED BY <1>1, <1>3 DEF LatchInv

(* The caller that waits alone: read its answer and it is ready; subscribe *)
(* and it is woken or has its result.                                      *)
LEMMA OwedStep ==
  ASSUME TypeOK, MintInv, MapInv, CompletionInv, ClaimInv, LatchInv, WakeupOwed, [Next]_vars
  PROVE  WakeupOwed'
<1> USE RunsFacts DEF TypeOK
<1> SUFFICES ASSUME NEW c \in Callers, c \notin stale', Alone(c)', rid'[c] # NoRun, runner'[rid'[c]] # "none"
             PROVE  /\ caller'[c] = "acked" => Ready(rid[c])'
                    /\ caller'[c] = "parked" => slot'[rid'[c]] = "pending" /\ ToCome(rid[c])'
  BY DEF WakeupOwed
<1>1. PICK r \in Runs : r = rid'[c]
  <2>1. rid'[c] = rid[c] \/ \E i \in DOMAIN wire : rid'[c] = wire[i].run
    <3> HIDE DEF TypeOK
    <3> QED BY RidStep
  <2>2. \A i \in DOMAIN wire : wire[i].run \in Runs \cup {NoRun}
    BY ONLY TypeOK, CompletionInv, WireFacts
  <2> QED BY <2>1, <2>2
<1>2. c \notin stale
  BY ONLY [Next]_vars, c \notin stale' DEF Next, Crash, Request, Timeout, Subscribe, Handle, CheckDeleting, Start, Cancel, Run, Mark, Emit, Exit,
     Panic, MarkPanicked, Age, Delete, SetDeleting, TakeSupervisor, Quiesce, DeleteRow, Read, ReadAnswer,
     ReadCompleted, vars, history
<1>3. \A d \in Callers \ {c} : rid[d] # r
  BY <1>1, RidStep DEF Alone
<1>4. runner[r] # "none"
  <2>1. CASE rid'[c] = rid[c]
    <3>1. r <= minted
      BY ONLY ClaimInv, <1>1, <2>1 DEF ClaimInv
    <3> QED BY <1>1, <3>1, MintedStep
  <2>2. CASE \E i \in DOMAIN wire : rid'[c] = wire[i].run
    <3>1. r <= minted
      BY ONLY ClaimInv, <1>1, <2>2 DEF ClaimInv
    <3> QED BY <1>1, <3>1, MintedStep
  <2> HIDE DEF TypeOK
  <2> QED BY <2>1, <2>2, RidStep
<1>5. ASSUME rid[c] = r, caller[c] = "acked" PROVE Ready(r)
  BY <1>1, <1>2, <1>3, <1>4, <1>5 DEF WakeupOwed, Alone
<1>6. ASSUME caller'[c] = "acked" PROVE Ready(r)'
  <2>1. CASE caller[c] = "acked"
    <3>1. rid[c] = r
      BY <1>1, <2>1, RidStep
    <3>2. Ready(r)
      BY <1>5, <2>1, <3>1
    <3>3. ~Crash
      BY <2>1 DEF Crash
    <3>4. ~Age(r)
      BY <2>1, <3>1 DEF Age
    <3>5. \A d \in Callers : ~(Subscribe(d) /\ rid[d] = r)
      <4>1. ~Subscribe(c)
        BY <1>6 DEF Subscribe, SubscribeOrConsume
      <4> QED BY <1>3, <4>1
    <3> QED BY <3>2, <3>3, <3>4, <3>5, ReadyKept
  <2>2. CASE caller[c] # "acked"
    <3>1. ReadAnswer /\ rid'[c] # rid[c]
      BY <1>6, <2>2, RidStep
    <3>2. PICK i \in DOMAIN wire : wire[i].type = "answer" /\ wire[i].to = c /\ r = wire[i].run
      BY <1>1, <3>1, RidStep
    <3>3. caller[c] = "waiting" /\ Unclaimed(r)
      BY <1>1, <1>3, <3>1, RidStep DEF Unclaimed
    <3>4. Ready(r)
      BY <1>4, <3>2, <3>3 DEF LatchInv
    <3>5. ~Crash /\ ~Age(r)
      BY <3>1, <3>3, <1>6, <2>2 DEF Crash, Age, ReadAnswer
    <3>6. \A d \in Callers : rid[d] # r
      BY <3>3 DEF Unclaimed
    <3> QED BY <3>4, <3>5, <3>6, ReadyKept
  <2> QED BY <2>1, <2>2
<1>7. ASSUME caller'[c] = "parked" PROVE slot'[r] = "pending" /\ ToCome(r)'
  <2>1. rid[c] = r /\ ~Crash
    BY <1>1, <1>7, RidStep DEF Crash
  <2>2. CASE caller[c] = "parked"
    <3>1. slot[r] = "pending" /\ ToCome(r)
      BY <1>2, <1>3, <1>4, <2>1, <2>2 DEF WakeupOwed, Alone
    <3>2. Swept[r] = "pending"
      BY <3>1 DEF Swept, ClaimInv
    <3>3. ~(ReadCompleted /\ Head(wire).run = r)
      <4> SUFFICES ASSUME ReadCompleted, Head(wire).run = r PROVE FALSE
        OBVIOUS
      <4>1. RouteSyncCompleted(r)
        BY DEF ReadCompleted
      <4>2. caller' = [d \in Callers |-> IF d \in Subscribers(r) THEN "returned" ELSE caller[d]]
        BY <3>2, <4>1 DEF RouteSyncCompleted
      <4> QED BY <1>7, <2>1, <2>2, <4>2 DEF Subscribers
    <3>4. ToCome(r)'
      BY <2>1, <3>1, <3>3, ToComeKept
    <3>5. \A d \in Callers : ~(Subscribe(d) /\ rid[d] = r)
      <4>1. ~Subscribe(c)
        BY <2>2 DEF Subscribe
      <4> QED BY <1>3, <4>1
    <3>6. slot'[r] = "pending"
      BY <2>1, <3>1, <3>2, <3>3, <3>5, SlotStep
    <3> QED BY <3>4, <3>6
  <2>3. CASE caller[c] # "parked"
    <3>1. Subscribe(c) /\ rid[c] # NoRun
      BY <1>7, <2>3, RidStep
    <3>2. caller[c] = "acked" /\ Ready(r)
      BY <1>5, <2>1, <3>1 DEF Subscribe
    <3>3. Swept[r] = slot[r] /\ Swept \in [Runs -> {"vacant", "pending", "completed"}]
      BY <3>2 DEF Swept, Ready, ClaimInv
    <3>4. Swept[r] # "completed"
      BY <1>7, <2>1, <3>1 DEF Subscribe, SubscribeOrConsume
    <3>5. slot'[r] = "pending"
      BY <2>1, <3>1, <3>3, <3>4 DEF Subscribe, SubscribeOrConsume
    <3>6. ToCome(r)
      BY <3>2, <3>3, <3>4 DEF Ready
    <3>7. ToCome(r)'
      BY <3>1, <3>6 DEF ToCome, Subscribe, runtime
    <3> QED BY <3>5, <3>7
  <2> QED BY <2>2, <2>3
<1> QED BY <1>1, <1>6, <1>7

LEMMA RuntimeInit == Init => RuntimeInv
<1> SUFFICES ASSUME Init PROVE RuntimeInv
  OBVIOUS
<1>1. TypeOK
  <2>1. minted \in 0..Cardinality(Callers) /\ crashes \in 0..MaxCrashes
    BY RunsFacts, RuntimeAssumption DEF Init
  <2>2. /\ runner \in [Runs -> RunnerStates]
        /\ slot \in [Runs -> {"vacant", "pending", "completed"}]
    BY DEF Init, RunnerStates
  <2>3. /\ request \in [Callers -> RequestStates] /\ caller \in [Callers -> CallerStates]
        /\ rid \in [Callers -> Runs \cup {NoRun}]
    BY DEF Init, RequestStates, CallerStates
  <2> QED BY <2>1, <2>2, <2>3 DEF Init, TypeOK
<1>2. MintInv
  <2>1. Owed = Callers
    BY DEF Init, Owed
  <2> QED BY <2>1, RunsFacts DEF Init, MintInv
<1>3. MapInv /\ OneRunner /\ MarkerCoversRun /\ ReturnsAfterRun
  BY DEF Init, MapInv, OneRunner, MarkerCoversRun, ReturnsAfterRun
<1>4. CompletionInv
  BY DEF Init, CompletionInv
<1>5. ClaimInv /\ LatchInv /\ WakeupOwed
  BY <1>1, RunsFacts DEF Init, ClaimInv, LatchInv, WakeupOwed
<1> QED BY <1>1, <1>2, <1>3, <1>4, <1>5 DEF RuntimeInv

---------------------------------------------------------------------------
(* The results. *)

(* RuntimeInv is an invariant of the runs of an account: start_account,    *)
(* cancel_account, the supervisors, account.delete and the UI's slots.     *)
THEOREM RuntimeInvariant == Spec => []RuntimeInv
<1>1. RuntimeInv /\ [Next]_vars => RuntimeInv'
  BY TypeStep, MintStep, MapStep, RunnerStep, MarkerStep, CompletionStep, ReturnStep,
     ClaimStep, LatchStep, OwedStep
     DEF RuntimeInv, CompletionInv
<1> QED BY <1>1, RuntimeInit, PTL DEF Spec

(* However starts, cancels, panics and deaths interleave, the marker says  *)
(* in-progress while a run of an account that is not being deleted writes. *)
THEOREM MarkerTheorem == Spec => []MarkerCoversRun
<1>1. RuntimeInv => MarkerCoversRun
  BY DEF RuntimeInv
<1> QED BY <1>1, RuntimeInvariant, PTL

(* start_sync and cancel_and_await return only once the run they were       *)
(* answered with is over, whatever order its answer, its completion and    *)
(* the subscription come in.                                               *)
THEOREM ReturnTheorem == Spec => []ReturnsAfterRun
<1>1. RuntimeInv => ReturnsAfterRun
  BY DEF RuntimeInv
<1> QED BY <1>1, RuntimeInvariant, PTL

(* subscribe_or_consume, route_sync_completed, sweep_latched_completed:    *)
(* the completion of a run is not lost to the caller that is alone with    *)
(* it, whether it is read before or after the caller subscribes, for any   *)
(* number of other callers, runs, panics and deaths.                       *)
THEOREM WakeupTheorem == Spec => []WakeupOwed
<1>1. RuntimeInv => WakeupOwed
  BY DEF RuntimeInv
<1> QED BY <1>1, RuntimeInvariant, PTL

(* An account that is not being deleted never has two runs under way, and  *)
(* the one it has is the one cancel_account finds in the map.               *)
THEOREM OneRunnerTheorem == Spec => []OneRunner
<1>1. RuntimeInv => OneRunner
  BY DEF RuntimeInv
<1> QED BY <1>1, RuntimeInvariant, PTL
=============================================================================
