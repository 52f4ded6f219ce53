------------------------ MODULE AccountDeleteProofs ------------------------
(***************************************************************************)
(* Proofs about account.delete, for every set of accounts and hashes, any  *)
(* sharing of attachments between accounts, and every number of requests,  *)
(* fetches, sync runs, failing calls and Service deaths.  The inductive    *)
(* invariant is DeleteInv.                                                 *)
(***************************************************************************)
EXTENDS AccountDelete, TLAPS

(* A drive in one of these states works from its own copy of the marker. *)
Driving == {"write", "step", "hashes", "save"}

(* What the deletion of an account goes by: its marker file, and the copy  *)
(* its drive holds.                                                         *)
Work(a) == {m \in Marker : m = marker[a] \/ (task[a] \in Driving /\ m = mark[a])}
Marked(a) == task[a] \in Driving \/ marker[a] # NoMarker

(* The drive: where it is and what it has on disk. *)
DriveOK(a) ==
  /\ task[a] \notin {"step", "hashes", "save", "unlink"} => at[a] = 1 /\ a \notin failed
  /\ task[a] \in {"step", "hashes", "save", "unlink"} => marker[a] # NoMarker
  /\ task[a] = "unlink" => a \notin rows
  /\ task[a] = "hashes" => Step(a) = "cache"
  /\ task[a] = "save" => Step(a) # "cascade"
  /\ task[a] \in Driving /\ a \notin failed =>
       \A i \in 1..(at[a] - 1) : Order[i] \in mark[a].done

DriveInv ==
  \A a \in Accounts :
    DriveOK(a) /\ \A m \in Work(a) : "cascade" \notin m.done

(* Boot resumes markers that are there, one at a time, before the rest runs. *)
BootInv ==
  \A a \in Accounts :
    /\ a \in listed => system = "drain" /\ task[a] = "idle" /\ marker[a] # NoMarker
    /\ system = "down" => task[a] = "idle"
    /\ system # "up" => fetch[a] = "idle"

(* A step that is done has emptied its store for good: no run is under way *)
(* past the quiesce but those that escaped it.                              *)
StoreInv ==
  \A a \in Accounts \ escaped :
    /\ runner[a] = "running" => ~Quiesced(a)
    /\ \A m \in Work(a) : stores[a] \cap m.done = {}
    /\ task[a] = "save" => Step(a) \notin stores[a]

(* The prefetch and the attachment.fetch of an account that is being       *)
(* deleted, or is gone, write no reference that is not known to be late; nor *)
(* do those of a message a sync has removed.                                *)
FetchInv ==
  \A a \in Accounts :
    /\ task[a] \notin {"idle", "flag", "quiesce", "cancel"} =>
         system = "drain" \/ a \in cancelling
    /\ a \notin rows => fetch[a] = "idle" \/ a \in cancelling
    /\ (Marked(a) \/ a \notin rows) /\ fetch[a] = "update" => item[a] \in stray
    /\ a \in rows /\ fetch[a] # "idle" => item[a] \in atts[a] \cup stray

AskInv ==
  \A a \in Accounts :
    /\ (Marked(a) \/ a \notin rows) /\ ask[a] # "idle" => asked[a] \in stray
    /\ ask[a] # "idle" => asked[a] \in atts[a] \cup stray

(* Of two deletions under way, one has noted what they share. *)
SharedInv ==
  \A a, b \in Accounts : a # b /\ Marked(a) /\ Marked(b) => refs[a] \cap refs[b] \subseteq stray

(* A deletion tombstones what it refers to, or leaves it to a sharer. *)
GatherInv ==
  \A a \in Accounts : \A m \in Work(a) : \A h \in refs[a] \ (stray \cup m.hashes) :
    \E b \in Accounts \ {a} : h \in refs[b]

(* A hash the deletion is through with is not left live by the row's end. *)
Buried(a, h) ==
  h \in refs[a] \ stray /\ blob[h] = "live" =>
    \/ \E b \in Accounts \ {a} : h \in refs[b]
    \/ \E c \in Accounts : InFlight(c, h)

BuriedInv ==
  \A a \in Accounts :
    /\ \A m \in Work(a) : "cache" \in m.done => \A h \in m.hashes : Buried(a, h)
    /\ task[a] = "save" /\ Step(a) = "cache" => \A h \in mark[a].hashes : Buried(a, h)
    /\ task[a] = "hashes" => \A h \in mark[a].hashes \ left[a] : Buried(a, h)

DeleteInv ==
  /\ TypeOK /\ DriveInv /\ BootInv /\ StoreInv /\ FetchInv /\ AskInv
  /\ SharedInv /\ GatherInv /\ BuriedInv
  /\ CascadeIsLast /\ MarkerCoversDeletion /\ NoOrphanBlob

---------------------------------------------------------------------------
(* Facts about the steps of a deletion. *)

LEMMA OrderFacts ==
  /\ DOMAIN Order = 1..5 /\ Len(Order) = 5
  /\ Order[1] = "bodies" /\ Order[2] = "inline" /\ Order[3] = "cache"
  /\ Order[4] = "search" /\ Order[5] = "cascade"
BY DEF Order

LEMMA StepsFacts ==
  /\ Steps = {"bodies", "inline", "cache", "search", "cascade"}
  /\ \A i \in 1..5 : Order[i] \in Steps
<1>1. \A i \in 1..5 : Order[i] \in Steps
  BY OrderFacts DEF Steps
<1>2. \A s \in Steps : s \in {"bodies", "inline", "cache", "search", "cascade"}
  <2> SUFFICES ASSUME NEW i \in 1..5
               PROVE  Order[i] \in {"bodies", "inline", "cache", "search", "cascade"}
    BY OrderFacts DEF Steps
  <2>1. i = 1 \/ i = 2 \/ i = 3 \/ i = 4 \/ i = 5
    OBVIOUS
  <2> QED BY <2>1, OrderFacts
<1> QED BY <1>1, <1>2, OrderFacts

(* The loop of drive_steps finds a step, the cascade at the latest. *)
LEMMA NextStepFacts ==
  ASSUME NEW n \in 1..5, NEW m \in Marker, "cascade" \notin m.done
  PROVE  /\ NextStep(n, m) \in n..5 /\ NextStep(n, m) \in 1..5
         /\ \A j \in n..(NextStep(n, m) - 1) : Order[j] \in m.done
<1> DEFINE P(i) == Order[i] \notin m.done /\ \A j \in n..(i - 1) : Order[j] \in m.done
<1>1. \E i \in n..5 : P(i)
  <2>1. CASE \E i \in n..5 : i = n /\ Order[n] \notin m.done
    BY <2>1
  <2>2. CASE Order[n] \in m.done
    <3>1. n # 5
      BY <2>2, OrderFacts
    <3>2. CASE Order[n + 1] \notin m.done
      BY <2>2, <3>1, <3>2
    <3>3. CASE Order[n + 1] \in m.done
      <4>1. n + 1 # 5
        BY <3>3, OrderFacts
      <4>2. CASE Order[n + 2] \notin m.done
        BY <2>2, <3>1, <3>3, <4>1, <4>2
      <4>3. CASE Order[n + 2] \in m.done
        <5>1. n + 2 # 5
          BY <4>3, OrderFacts
        <5>2. CASE Order[n + 3] \notin m.done
          BY <2>2, <3>1, <3>3, <4>1, <4>3, <5>1, <5>2
        <5>3. CASE Order[n + 3] \in m.done
          <6>1. n = 1
            BY <3>1, <4>1, <5>1, <5>3, OrderFacts
          <6>2. Order[5] \notin m.done /\ \A j \in 1..4 : Order[j] \in m.done
            <7> SUFFICES ASSUME NEW j \in 1..4 PROVE Order[j] \in m.done
              BY OrderFacts
            <7>1. j = 1 \/ j = 2 \/ j = 3 \/ j = 4
              OBVIOUS
            <7> QED BY <7>1, <6>1, <2>2, <3>3, <4>3, <5>3
          <6> QED BY <6>1, <6>2
        <5> QED BY <5>2, <5>3
      <4> QED BY <4>2, <4>3
    <3> QED BY <3>2, <3>3
  <2> QED BY <2>1, <2>2
<1>2. NextStep(n, m) = CHOOSE i \in n..5 : P(i)
  BY OrderFacts DEF NextStep
<1>3. NextStep(n, m) \in n..5 /\ P(NextStep(n, m))
  <2> HIDE DEF P
  <2> QED BY <1>1, <1>2
<1> QED BY <1>3

(* Where the drive of an account is. *)
LEMMA StepFacts ==
  ASSUME TypeOK, NEW a \in Accounts
  PROVE  /\ at[a] \in 1..5 /\ Step(a) \in Steps
         /\ Step(a) # "cascade" <=> at[a] + 1 \in 1..5
         /\ Step(a) = "cascade" <=> at[a] = 5
         /\ Step(a) \in Stores => Step(a) # "cascade" /\ Step(a) # "cache"
<1>1. at[a] \in 1..5
  BY OrderFacts DEF TypeOK, DriveType
<1>2. at[a] = 1 \/ at[a] = 2 \/ at[a] = 3 \/ at[a] = 4 \/ at[a] = 5
  BY <1>1
<1> QED BY <1>1, <1>2, OrderFacts, StepsFacts DEF Step, Stores

LEMMA MarkerFacts ==
  /\ NoGather \in Marker /\ NoGather.done = {}
  /\ \A m \in Marker : /\ m # NoMarker
                       /\ \A s \in Steps : [m EXCEPT !.done = @ \cup {s}] \in Marker
<1>1. NoGather \in Marker /\ NoGather.done = {}
  BY DEF NoGather, Gathered, Marker
<1>2. \A m \in Marker : \A s \in Steps : [m EXCEPT !.done = @ \cup {s}] \in Marker
  BY DEF Marker
<1> QED BY <1>1, <1>2, NoMarkerAssumption

---------------------------------------------------------------------------
(* Which steps write which part of the state. *)

LEMMA Writers ==
  ASSUME [Next]_vars
  PROVE  /\ \/ UNCHANGED tables
            \/ \E a \in Accounts :
                 SetFlag(a) \/ Cascade(a) \/ FetchUpdate(a) \/ AskUpdate(a) \/ SyncWrite(a)
         /\ \/ UNCHANGED blob
            \/ \E a \in Accounts :
                 TombstoneHash(a) \/ FetchPut(a) \/ FetchBury(a) \/ AskPut(a)
            \/ EvictHash
         /\ \/ UNCHANGED stores
            \/ \E a \in Accounts : CleanStore(a) \/ SyncWrite(a)
         /\ \/ UNCHANGED marker
            \/ \E a \in Accounts : WriteMarker(a) \/ SaveStep(a) \/ UnlinkMarker(a)
         /\ \/ UNCHANGED <<system, listed>>
            \/ Crash \/ BootStep
         /\ \/ UNCHANGED drive
            \/ \E a \in Accounts : DeleteRequest(a) \/ TaskStep(a)
            \/ Crash \/ BootResume
         /\ \/ UNCHANGED prefetch
            \/ \E a \in Accounts : CancelPrefetch(a) \/ FetchStep(a)
            \/ Crash
         /\ \/ UNCHANGED asking
            \/ \E a \in Accounts : AskStep(a)
            \/ Crash
         /\ \/ UNCHANGED eviction
            \/ \E a \in Accounts : SyncEnd(a)
            \/ Crash \/ BootDone \/ EvictStep
         /\ \/ UNCHANGED <<runner, escaped>>
            \/ \E a \in Accounts : Quiesce(a) \/ SyncStep(a)
            \/ Crash
         /\ \/ UNCHANGED stray
            \/ \E a \in Accounts :
                 \/ Gather(a) \/ TombstoneHash(a) \/ FetchRecheck(a) \/ FetchBury(a)
                 \/ FetchUpdate(a) \/ AskFetch(a) \/ AskUpdate(a) \/ SyncWrite(a)
            \/ Crash
<1> USE DEF tables, disk, drive, prefetch, asking, eviction, around, ghosts, budget
<1>1. CASE UNCHANGED vars
  BY <1>1 DEF vars
<1>2. CASE \E a \in Accounts : DeleteRequest(a)
  BY <1>2 DEF DeleteRequest
<1>3. CASE \E a \in Accounts : TaskStep(a)
  BY <1>3 DEF TaskStep, SetFlag, Quiesce, CancelPrefetch, Gather, WriteMarker, CleanStore,
              CleanCache, TombstoneHash, SaveStep, Cascade, UnlinkMarker
<1>4. CASE \E a \in Accounts : FetchStep(a)
  BY <1>4 DEF FetchStep, FetchStart, FetchPut, FetchRecheck, FetchBury, FetchUpdate
<1>5. CASE \E a \in Accounts : SyncStep(a)
  BY <1>5 DEF SyncStep, SyncAdmit, SyncSpawn, SyncWrite, SyncEnd
<1>6. CASE \E a \in Accounts : AskStep(a)
  BY <1>6 DEF AskStep, AskFetch, AskPut, AskUpdate
<1>7. CASE EvictStep
  BY <1>7 DEF EvictStep, EvictQuery, EvictHash
<1>8. CASE BootStep
  BY <1>8 DEF BootStep, BootList, BootResume, BootDone
<1>9. CASE Crash
  BY <1>9 DEF Crash
<1> QED BY <1>1, <1>2, <1>3, <1>4, <1>5, <1>6, <1>7, <1>8, <1>9 DEF Next

---------------------------------------------------------------------------
(* Type correctness. *)

LEMMA TablesStep ==
  ASSUME TypeOK, [Next]_vars
  PROVE  TablesType'
<1> USE DEF TypeOK, TablesType, tables
<1>1. CASE UNCHANGED tables
  BY <1>1
<1>2. ASSUME NEW a \in Accounts, SetFlag(a) PROVE TablesType'
  BY <1>2 DEF SetFlag
<1>3. ASSUME NEW a \in Accounts, Cascade(a) PROVE TablesType'
  BY <1>3 DEF Cascade, DeleteRow
<1>4. ASSUME NEW a \in Accounts, FetchUpdate(a) \/ AskUpdate(a) PROVE TablesType'
  <2>1. PICK h \in Hashes : WriteRef(a, h)
    BY <1>4 DEF FetchUpdate, AskUpdate, PrefetchType, AroundType
  <2>2. UNCHANGED <<rows, flagged, atts>>
    BY <1>4 DEF FetchUpdate, AskUpdate
  <2> QED BY <2>1, <2>2 DEF WriteRef
<1>5. ASSUME NEW a \in Accounts, SyncWrite(a) PROVE TablesType'
  <2>1. PICK now \in SUBSET (IF a \in rows THEN Attached[a] ELSE {}) :
           atts' = [atts EXCEPT ![a] = now] /\ refs' = [refs EXCEPT ![a] = @ \cap now]
    BY <1>5 DEF SyncWrite
  <2>2. UNCHANGED <<rows, flagged>> /\ now \in SUBSET Hashes
    BY <1>5, DeleteAssumption DEF SyncWrite
  <2> QED BY <2>1, <2>2
<1> QED BY <1>1, <1>2, <1>3, <1>4, <1>5, Writers

LEMMA DiskStep ==
  ASSUME TypeOK, [Next]_vars
  PROVE  DiskType'
<1> USE DEF TypeOK, DiskType, DriveType, PrefetchType
<1>1. blob' \in [Hashes -> {"none", "live", "dead"}]
  <2>1. ASSUME NEW a \in Accounts,
               TombstoneHash(a) \/ FetchPut(a) \/ FetchBury(a) \/ AskPut(a)
        PROVE  blob' \in [Hashes -> {"none", "live", "dead"}]
    BY <2>1 DEF TombstoneHash, FetchPut, FetchBury, AskPut, Tombstoned, Revived
  <2>2. CASE EvictHash
    BY <2>2 DEF EvictHash, Tombstoned
  <2> QED BY <2>1, <2>2, Writers
<1>2. stores' \in [Accounts -> SUBSET Stores]
  <2>1. ASSUME NEW a \in Accounts, CleanStore(a) \/ SyncWrite(a)
        PROVE  stores' \in [Accounts -> SUBSET Stores]
    BY <2>1 DEF CleanStore, SyncWrite
  <2> QED BY <2>1, Writers
<1>3. marker' \in [Accounts -> Marker \cup {NoMarker}]
  <2>1. ASSUME NEW a \in Accounts, WriteMarker(a) \/ UnlinkMarker(a)
        PROVE  marker' \in [Accounts -> Marker \cup {NoMarker}]
    BY <2>1 DEF WriteMarker, UnlinkMarker
  <2>2. ASSUME NEW a \in Accounts, SaveStep(a)
        PROVE  marker' \in [Accounts -> Marker \cup {NoMarker}]
    <3>1. [mark[a] EXCEPT !.done = @ \cup {Step(a)}] \in Marker
      BY StepFacts, MarkerFacts
    <3> QED BY <2>2, <3>1 DEF SaveStep
  <2> QED BY <2>1, <2>2, Writers
<1> QED BY <1>1, <1>2, <1>3

(* The loop moves on to a step that exists. *)
LEMMA AdvanceFacts ==
  ASSUME TypeOK, DriveInv, NEW a \in Accounts, Advance(a), Step(a) # "cascade",
         task[a] \in Driving
  PROVE  \E n \in 1..5 :
           /\ at' = [at EXCEPT ![a] = n] /\ n > at[a]
           /\ \A i \in (at[a] + 1)..(n - 1) : Order[i] \in mark[a].done
<1>1. at[a] + 1 \in 1..5 /\ at[a] \in 1..5
  BY StepFacts
<1>2. "cascade" \notin mark[a].done /\ mark[a] \in Marker
  BY DEF TypeOK, DriveType, DriveInv, Work
<1> DEFINE n == NextStep(at[a] + 1, mark[a])
<1>3. /\ n \in (at[a] + 1)..5 /\ n \in 1..5
      /\ \A j \in (at[a] + 1)..(n - 1) : Order[j] \in mark[a].done
  BY <1>1, <1>2, NextStepFacts
<1>4. at' = [at EXCEPT ![a] = n]
  BY OrderFacts DEF Advance, TypeOK, DriveType
<1>5. n \in 1..5 /\ n > at[a]
  BY <1>1, <1>3
<1> HIDE DEF n
<1> QED BY <1>3, <1>4, <1>5

LEMMA FinishFacts ==
  ASSUME TypeOK, NEW a \in Accounts, Finish(a), UNCHANGED left
  PROVE  DriveType'
<1>1. 1 \in DOMAIN Order
  BY OrderFacts
<1>2. NoGather \in Marker
  BY MarkerFacts
<1> QED BY <1>1, <1>2 DEF Finish, Go, TypeOK, DriveType, TaskStates

LEMMA GatheredFacts ==
  ASSUME TypeOK, NEW a \in Accounts
  PROVE  Gathered(Unshared(a)) \in Marker
BY DEF TypeOK, TablesType, Gathered, Unshared, Marker

LEMMA TaskStepType ==
  ASSUME TypeOK, DriveInv, NEW a \in Accounts, TaskStep(a)
  PROVE  DriveType'
<1> USE DEF Go
<1>1. CASE SetFlag(a) \/ Quiesce(a) \/ CancelPrefetch(a)
  BY <1>1 DEF SetFlag, Quiesce, CancelPrefetch, TypeOK, DriveType, TaskStates, drive
<1>2. CASE Gather(a)
  BY <1>2, FinishFacts, GatheredFacts DEF Gather, TypeOK, DriveType, TaskStates
<1>3. CASE WriteMarker(a)
  BY <1>3, FinishFacts DEF WriteMarker, TypeOK, DriveType, TaskStates
<1>4. CASE CleanStore(a)
  <2>1. Step(a) # "cascade" /\ task[a] \in Driving
    BY <1>4, StepFacts DEF CleanStore, Driving
  <2>2. at' \in [Accounts -> DOMAIN Order]
    BY <1>4, <2>1, AdvanceFacts, OrderFacts DEF CleanStore, TypeOK, DriveType
  <2> QED BY <1>4, <2>2 DEF CleanStore, TypeOK, DriveType, TaskStates
<1>5. CASE CleanCache(a)
  <2>1. Step(a) # "cascade" /\ task[a] \in Driving
    BY <1>5, StepFacts DEF CleanCache, Driving
  <2>2. at' \in [Accounts -> DOMAIN Order]
    BY <1>5, <2>1, AdvanceFacts, OrderFacts DEF CleanCache, TypeOK, DriveType
  <2>3. left' \in [Accounts -> SUBSET Hashes]
    BY <1>5 DEF CleanCache, TypeOK, DriveType, Marker
  <2>4. task' \in [Accounts -> TaskStates]
    BY <1>5 DEF CleanCache, TypeOK, DriveType, TaskStates
  <2> QED BY <1>5, <2>2, <2>3, <2>4 DEF CleanCache, TypeOK, DriveType
<1>6. CASE TombstoneHash(a)
  <2>1. left' \in [Accounts -> SUBSET Hashes] /\ task' \in [Accounts -> TaskStates]
    BY <1>6 DEF TombstoneHash, TypeOK, DriveType, TaskStates
  <2> QED BY <1>6, <2>1 DEF TombstoneHash, TypeOK, DriveType
<1>7. CASE SaveStep(a)
  <2> DEFINE m == [mark[a] EXCEPT !.done = @ \cup {Step(a)}]
  <2>1. m \in Marker
    BY StepFacts, MarkerFacts DEF TypeOK, DriveType
  <2>2. CASE mark' = [mark EXCEPT ![a] = m] /\ Go(a, "step") /\ Advance(a) /\ UNCHANGED failed
    <3>1. at' \in [Accounts -> DOMAIN Order]
      BY <1>7, <2>2, AdvanceFacts, OrderFacts
         DEF SaveStep, TypeOK, DriveType, Driving, DriveInv, DriveOK
    <3> HIDE DEF m
    <3> QED BY <1>7, <2>1, <2>2, <3>1 DEF SaveStep, TypeOK, DriveType, TaskStates
  <2>3. CASE Finish(a)
    BY <1>7, <2>3, FinishFacts DEF SaveStep
  <2> QED BY <1>7, <2>2, <2>3 DEF SaveStep
<1>8. CASE Cascade(a)
  BY <1>8, FinishFacts DEF Cascade, TypeOK, DriveType, TaskStates
<1>9. CASE UnlinkMarker(a)
  BY <1>9, FinishFacts DEF UnlinkMarker
<1> QED BY <1>1, <1>2, <1>3, <1>4, <1>5, <1>6, <1>7, <1>8, <1>9 DEF TaskStep

(* Boot resumes a marker that is there, at a step that exists. *)
LEMMA ResumeFacts ==
  ASSUME TypeOK, DriveInv, BootInv, BootResume
  PROVE  \E a \in Accounts :
           /\ listed' = listed \ {a} /\ a \in listed
           /\ mark' = [mark EXCEPT ![a] = marker[a]] /\ task' = [task EXCEPT ![a] = "step"]
           /\ marker[a] \in Marker
           /\ \E n \in 1..5 : /\ at' = [at EXCEPT ![a] = n]
                              /\ \A i \in 1..(n - 1) : Order[i] \in marker[a].done
<1>1. PICK a \in listed :
         /\ listed' = listed \ {a}
         /\ mark' = [mark EXCEPT ![a] = marker[a]] /\ Go(a, "step")
         /\ at' = [at EXCEPT ![a] = NextStep(1, marker[a])]
  BY DEF BootResume
<1>2. a \in Accounts /\ marker[a] \in Marker /\ "cascade" \notin marker[a].done
  BY <1>1 DEF TypeOK, DiskType, BootInv, DriveInv, Work
<1> DEFINE n == NextStep(1, marker[a])
<1>3. n \in 1..5 /\ \A i \in 1..(n - 1) : Order[i] \in marker[a].done
  BY <1>2, NextStepFacts
<1>4. at' = [at EXCEPT ![a] = n]
  BY <1>1
<1> HIDE DEF n
<1> QED BY <1>1, <1>2, <1>3, <1>4 DEF Go

LEMMA DriveTypeStep ==
  ASSUME TypeOK, DriveInv, BootInv, [Next]_vars
  PROVE  DriveType'
<1>1. CASE UNCHANGED drive
  BY <1>1 DEF drive, TypeOK, DriveType
<1>2. ASSUME NEW a \in Accounts, DeleteRequest(a) PROVE DriveType'
  BY <1>2 DEF DeleteRequest, Go, TypeOK, DriveType, TaskStates
<1>3. ASSUME NEW a \in Accounts, TaskStep(a) PROVE DriveType'
  BY <1>3, TaskStepType
<1>4. CASE Crash
  <2>1. 1 \in DOMAIN Order /\ NoGather \in Marker
    BY OrderFacts, MarkerFacts
  <2> QED BY <1>4, <2>1 DEF Crash, DriveType, TaskStates
<1>5. CASE BootResume
  <2>1. PICK a \in Accounts :
           /\ mark' = [mark EXCEPT ![a] = marker[a]] /\ task' = [task EXCEPT ![a] = "step"]
           /\ marker[a] \in Marker
           /\ \E n \in 1..5 : at' = [at EXCEPT ![a] = n]
    BY <1>5, ResumeFacts
  <2>2. at' \in [Accounts -> DOMAIN Order]
    BY <2>1, OrderFacts DEF TypeOK, DriveType
  <2> QED BY <1>5, <2>1, <2>2 DEF BootResume, TypeOK, DriveType, TaskStates
<1> QED BY <1>1, <1>2, <1>3, <1>4, <1>5, Writers

LEMMA PrefetchTypeStep ==
  ASSUME TypeOK, [Next]_vars
  PROVE  PrefetchType'
<1> USE DEF TypeOK, PrefetchType, prefetch, FetchStates, Stored, To
<1>1. CASE UNCHANGED prefetch
  BY <1>1
<1>2. ASSUME NEW a \in Accounts, CancelPrefetch(a) PROVE PrefetchType'
  BY <1>2 DEF CancelPrefetch
<1>3. ASSUME NEW a \in Accounts, FetchStep(a) PROVE PrefetchType'
  BY <1>3, DeleteAssumption
     DEF FetchStep, FetchStart, FetchPut, FetchRecheck, FetchBury, FetchUpdate, TablesType
<1>4. CASE Crash
  BY <1>4 DEF Crash
<1> QED BY <1>1, <1>2, <1>3, <1>4, Writers

LEMMA AroundTypeStep ==
  ASSUME TypeOK, [Next]_vars
  PROVE  AroundType'
<1> USE DEF TypeOK, AroundType
<1>1. ask' \in [Accounts -> AskStates] /\ asked' \in [Accounts -> Hashes]
  <2>1. ASSUME NEW a \in Accounts, AskStep(a)
        PROVE  ask' \in [Accounts -> AskStates] /\ asked' \in [Accounts -> Hashes]
    BY <2>1 DEF AskStep, AskFetch, AskPut, AskUpdate, AskTo, AskStates, TablesType
  <2>2. CASE Crash
    BY <2>2 DEF Crash, AskStates
  <2> QED BY <2>1, <2>2, Writers DEF asking
<1>2. sweep' \in {"idle", "due", "walk"} /\ page' \subseteq Hashes
  <2>1. CASE EvictStep \/ Crash \/ BootDone \/ \E a \in Accounts : SyncEnd(a)
    BY <2>1 DEF EvictStep, EvictQuery, EvictHash, Evictable, Crash, BootDone, SyncEnd
  <2> QED BY <2>1, Writers DEF eviction
<1> QED BY <1>1, <1>2

LEMMA TypeStep ==
  ASSUME TypeOK, DriveInv, BootInv, [Next]_vars
  PROVE  TypeOK'
<1>1. TablesType' /\ DiskType' /\ DriveType' /\ PrefetchType' /\ AroundType'
  BY TablesStep, DiskStep, DriveTypeStep, PrefetchTypeStep, AroundTypeStep
<1>2. system' \in {"down", "drain", "up"} /\ listed' \subseteq Accounts
  <2>1. CASE Crash \/ BootStep
    BY <2>1 DEF Crash, BootStep, BootList, BootResume, BootDone, TypeOK
  <2> QED BY <2>1, Writers DEF TypeOK
<1>3. runner' \in [Accounts -> {"none", "admitted", "running"}] /\ escaped' \subseteq Accounts
  <2>1. ASSUME NEW a \in Accounts, Quiesce(a) \/ SyncStep(a)
        PROVE  /\ runner' \in [Accounts -> {"none", "admitted", "running"}]
               /\ escaped' \subseteq Accounts
    BY <2>1 DEF Quiesce, SyncStep, SyncAdmit, SyncSpawn, SyncWrite, SyncEnd, TypeOK, ghosts
  <2>2. CASE Crash
    BY <2>2 DEF Crash, TypeOK
  <2> QED BY <2>1, <2>2, Writers DEF TypeOK
<1>4. stray' \subseteq Hashes
  <2>1. ASSUME NEW a \in Accounts,
               \/ Gather(a) \/ FetchRecheck(a) \/ FetchBury(a) \/ FetchUpdate(a)
               \/ AskFetch(a) \/ AskUpdate(a) \/ SyncWrite(a)
        PROVE  stray' \subseteq Hashes
    BY <2>1 DEF Gather, FetchRecheck, FetchBury, FetchUpdate, AskFetch, AskUpdate, SyncWrite,
                WriteRef, TypeOK, TablesType, PrefetchType, AroundType
  <2>2. ASSUME NEW a \in Accounts, TombstoneHash(a) PROVE stray' \subseteq Hashes
    BY <2>2 DEF TombstoneHash, TypeOK, DriveType
  <2>3. CASE Crash
    BY <2>3 DEF Crash, TypeOK, PrefetchType
  <2> QED BY <2>1, <2>2, <2>3, Writers DEF TypeOK
<1> QED BY <1>1, <1>2, <1>3, <1>4 DEF TypeOK

---------------------------------------------------------------------------
(* What a step does to the deletion of one account. *)

Same(a) ==
  /\ task'[a] = task[a] /\ at'[a] = at[a] /\ mark'[a] = mark[a] /\ left'[a] = left[a]
  /\ marker'[a] = marker[a] /\ (a \in failed' <=> a \in failed)

Resumed(a) ==
  /\ a \in listed /\ task[a] = "idle" /\ task'[a] = "step" /\ left'[a] = left[a]
  /\ marker[a] \in Marker /\ marker'[a] = marker[a] /\ mark'[a] = marker[a]
  /\ at'[a] \in 1..5 /\ \A i \in 1..(at'[a] - 1) : Order[i] \in marker[a].done
  /\ (a \in failed' <=> a \in failed)

LEMMA Frame ==
  ASSUME TypeOK, DriveInv, BootInv, [Next]_vars, NEW a \in Accounts
  PROVE  \/ Same(a) \/ Crash
         \/ Resumed(a) /\ BootResume
         \/ DeleteRequest(a) \/ TaskStep(a)
<1> USE DEF TypeOK, DriveType, DiskType
<1>1. ASSUME NEW b \in Accounts, b # a, DeleteRequest(b) \/ TaskStep(b) PROVE Same(a)
  <2>1. CASE DeleteRequest(b)
    BY <1>1, <2>1 DEF Same, DeleteRequest, Go, disk
  <2>2. CASE SetFlag(b) \/ Quiesce(b) \/ CancelPrefetch(b)
    BY <1>1, <2>2 DEF Same, SetFlag, Quiesce, CancelPrefetch, Go, disk, drive
  <2>3. CASE Gather(b) \/ WriteMarker(b)
    BY <1>1, <2>3 DEF Same, Gather, WriteMarker, Go, Finish, disk
  <2>4. CASE CleanStore(b) \/ CleanCache(b)
    BY <1>1, <2>4 DEF Same, CleanStore, CleanCache, Advance, Go, disk
  <2>5. CASE TombstoneHash(b)
    BY <1>1, <2>5 DEF Same, TombstoneHash, Go
  <2>6. CASE SaveStep(b)
    BY <1>1, <2>6 DEF Same, SaveStep, Go, Finish, Advance
  <2>7. CASE Cascade(b) \/ UnlinkMarker(b)
    BY <1>1, <2>7 DEF Same, Cascade, UnlinkMarker, Go, Finish, disk
  <2> QED BY <1>1, <2>1, <2>2, <2>3, <2>4, <2>5, <2>6, <2>7 DEF TaskStep
<1>2. CASE BootResume
  <2>1. PICK b \in Accounts :
           /\ listed' = listed \ {b} /\ b \in listed
           /\ mark' = [mark EXCEPT ![b] = marker[b]] /\ task' = [task EXCEPT ![b] = "step"]
           /\ marker[b] \in Marker
           /\ \E n \in 1..5 : /\ at' = [at EXCEPT ![b] = n]
                              /\ \A i \in 1..(n - 1) : Order[i] \in marker[b].done
    BY <1>2, ResumeFacts
  <2>2. PICK n \in 1..5 : /\ at' = [at EXCEPT ![b] = n]
                          /\ \A i \in 1..(n - 1) : Order[i] \in marker[b].done
    BY <2>1
  <2>3. UNCHANGED <<marker, failed, left>>
    BY <1>2 DEF BootResume, disk
  <2>4. CASE b = a
    <3>1. at'[a] = n
      BY <2>2, <2>4
    <3> QED BY <1>2, <2>1, <2>2, <2>3, <2>4, <3>1 DEF Resumed, BootResume
  <2>5. CASE b # a
    BY <2>1, <2>2, <2>3, <2>5 DEF Same
  <2> QED BY <2>4, <2>5
<1>3. CASE UNCHANGED <<drive, marker>>
  BY <1>3 DEF Same, drive
<1>4. \/ UNCHANGED <<drive, marker>> \/ Crash \/ BootResume
      \/ \E b \in Accounts : DeleteRequest(b) \/ TaskStep(b)
  BY Writers DEF TaskStep, Crash, BootResume, disk
<1> QED BY <1>1, <1>2, <1>3, <1>4

(* What a deletion goes by is gathered, or carried on with one more step. *)
LEMMA WorkStep ==
  ASSUME TypeOK, DriveInv, BootInv, [Next]_vars, NEW a \in Accounts, NEW m \in Work(a)'
  PROVE  \/ m \in Work(a)
         \/ Gather(a) /\ task[a] = "gather" /\ m = Gathered(Unshared(a))
         \/ /\ SaveStep(a) /\ task[a] = "save" /\ mark[a] \in Work(a)
            /\ m = [mark[a] EXCEPT !.done = @ \cup {Step(a)}]
<1> USE DEF Work, Driving
<1>1. CASE Same(a)
  BY <1>1 DEF Same
<1>2. CASE Crash
  BY <1>2 DEF Crash, disk
<1>3. CASE Resumed(a)
  BY <1>3 DEF Resumed
<1>4. CASE DeleteRequest(a)
  BY <1>4 DEF DeleteRequest, Go, disk, TypeOK, DriveType
<1>5. CASE SetFlag(a) \/ Quiesce(a) \/ CancelPrefetch(a)
  BY <1>5 DEF SetFlag, Quiesce, CancelPrefetch, Go, disk, TypeOK, DriveType
<1>6. CASE Gather(a)
  BY <1>6 DEF Gather, Go, Finish, disk, TypeOK, DriveType
<1>7. CASE WriteMarker(a)
  BY <1>7 DEF WriteMarker, Go, Finish, TypeOK, DriveType, DiskType
<1>8. CASE CleanStore(a) \/ CleanCache(a) \/ TombstoneHash(a)
  BY <1>8 DEF CleanStore, CleanCache, TombstoneHash, Go, disk, TypeOK, DriveType
<1>9. CASE SaveStep(a)
  BY <1>9 DEF SaveStep, Go, Finish, TypeOK, DriveType, DiskType
<1>10. CASE Cascade(a)
  BY <1>10 DEF Cascade, Go, Finish, disk, TypeOK, DriveType
<1>11. CASE UnlinkMarker(a)
  BY <1>11, NoMarkerAssumption DEF UnlinkMarker, Go, Finish, TypeOK, DriveType, DiskType
<1> QED BY <1>1, <1>2, <1>3, <1>4, <1>5, <1>6, <1>7, <1>8, <1>9, <1>10, <1>11, Frame DEF TaskStep

---------------------------------------------------------------------------
(* The drive and the boot. *)

LEMMA RowsShrink ==
  ASSUME [Next]_vars
  PROVE  rows' \subseteq rows
BY Writers DEF tables, SetFlag, Cascade, FetchUpdate, AskUpdate, SyncWrite, DeleteRow

(* Only the cascade removes a row. *)
LEMMA RowRemoved ==
  ASSUME [Next]_vars, NEW a \in rows, a \notin rows'
  PROVE  Cascade(a) /\ a \notin failed /\ task[a] = "step"
BY Writers DEF tables, SetFlag, Cascade, FetchUpdate, AskUpdate, SyncWrite, DeleteRow

LEMMA FinishDriveOK ==
  ASSUME TypeOK, NEW a \in Accounts, Finish(a)
  PROVE  DriveOK(a)'
BY DEF Finish, Go, TypeOK, DriveType, DriveOK, Driving

(* The cascade is never noted as done: the marker goes with the row. *)
LEMMA CascadeNotDone ==
  ASSUME TypeOK, DriveInv, BootInv, [Next]_vars
  PROVE  \A a \in Accounts : \A m \in Work(a)' : "cascade" \notin m.done
<1> SUFFICES ASSUME NEW a \in Accounts, NEW m \in Work(a)' PROVE "cascade" \notin m.done
  OBVIOUS
<1>1. CASE m \in Work(a)
  BY <1>1 DEF DriveInv
<1>2. CASE m = Gathered(Unshared(a))
  BY <1>2 DEF Gathered
<1>3. CASE /\ task[a] = "save" /\ mark[a] \in Work(a)
           /\ m = [mark[a] EXCEPT !.done = @ \cup {Step(a)}]
  BY <1>3, StepFacts DEF DriveInv, DriveOK, TypeOK, DriveType, Marker
<1> QED BY <1>1, <1>2, <1>3, WorkStep

LEMMA DriveStep ==
  ASSUME TypeOK, DriveInv, BootInv, [Next]_vars
  PROVE  DriveInv'
<1> SUFFICES ASSUME NEW a \in Accounts
             PROVE  DriveOK(a)'
  BY CascadeNotDone DEF DriveInv
<1>0. DriveOK(a) /\ at[a] \in 1..5 /\ mark[a] \in Marker
  BY StepFacts DEF DriveInv, TypeOK, DriveType
<1>2. CASE Same(a)
  BY <1>0, <1>2, RowsShrink DEF Same, DriveOK, Step
<1>3. CASE Crash
  BY <1>3 DEF Crash, DriveOK, Driving
<1>4. CASE Resumed(a)
  BY <1>0, <1>4, NoMarkerAssumption DEF Resumed, DriveOK, Driving
<1> USE DEF Go, Driving
<1>5. CASE DeleteRequest(a)
  BY <1>0, <1>5 DEF DeleteRequest, DriveOK, TypeOK, DriveType
<1>6. CASE SetFlag(a) \/ Quiesce(a) \/ CancelPrefetch(a)
  BY <1>0, <1>6 DEF SetFlag, Quiesce, CancelPrefetch, DriveOK, TypeOK, DriveType
<1>7. CASE Gather(a)
  BY <1>0, <1>7, FinishDriveOK DEF Gather, DriveOK, TypeOK, DriveType
<1>8. CASE WriteMarker(a)
  BY <1>0, <1>8, FinishDriveOK, NoMarkerAssumption
     DEF WriteMarker, DriveOK, TypeOK, DriveType, DiskType
<1>9. CASE CleanStore(a)
  <2>1. Step(a) # "cascade" /\ task[a] = "step"
    BY <1>9, StepFacts DEF CleanStore
  <2>2. CASE UNCHANGED <<at, failed>> /\ Go(a, "save")
    BY <1>0, <1>9, <2>1, <2>2 DEF CleanStore, DriveOK, Step, TypeOK, DriveType, disk
  <2>3. CASE failed' = failed \cup {a} /\ UNCHANGED task
    BY <1>0, <1>9, <2>1, <2>3 DEF CleanStore, DriveOK, TypeOK, DriveType, disk
  <2> QED BY <1>9, <2>2, <2>3 DEF CleanStore
<1>10. CASE CleanCache(a)
  <2>1. Step(a) = "cache" /\ task[a] = "step" /\ UNCHANGED <<mark, marker>>
    BY <1>10 DEF CleanCache, disk
  <2>2. CASE UNCHANGED <<at, failed>> /\ task'[a] \in {"save", "hashes"}
    BY <1>0, <2>1, <2>2 DEF DriveOK, Step, TypeOK, DriveType
  <2>3. CASE failed' = failed \cup {a} /\ UNCHANGED task
    BY <1>0, <2>1, <2>3 DEF DriveOK, TypeOK, DriveType
  <2>4. \/ UNCHANGED <<at, failed>> /\ task'[a] \in {"save", "hashes"}
        \/ failed' = failed \cup {a} /\ UNCHANGED task
    BY <1>10 DEF CleanCache, TypeOK, DriveType
  <2> QED BY <2>2, <2>3, <2>4
<1>11. CASE TombstoneHash(a)
  <2>1. /\ task[a] = "hashes" /\ task'[a] \in {"save", "hashes"}
        /\ UNCHANGED <<at, failed, mark, marker>>
    BY <1>11 DEF TombstoneHash, TypeOK, DriveType
  <2> QED BY <1>0, <2>1 DEF DriveOK, Step
<1>12. CASE SaveStep(a)
  <2>1. CASE Finish(a)
    BY <2>1, FinishDriveOK
  <2> DEFINE k == [mark[a] EXCEPT !.done = @ \cup {Step(a)}]
  <2>2. CASE /\ mark' = [mark EXCEPT ![a] = k] /\ marker' = [marker EXCEPT ![a] = k]
             /\ Go(a, "step") /\ Advance(a) /\ UNCHANGED failed
    <3>1. Step(a) # "cascade" /\ task[a] = "save" /\ k \in Marker
      BY <1>0, <1>12, StepFacts, MarkerFacts DEF SaveStep, DriveOK
    <3>2. PICK n \in 1..5 : /\ at' = [at EXCEPT ![a] = n] /\ n > at[a]
                            /\ \A i \in (at[a] + 1)..(n - 1) : Order[i] \in mark[a].done
      BY <2>2, <3>1, AdvanceFacts
    <3>3. at'[a] = n /\ task'[a] = "step" /\ (a \in failed' <=> a \in failed)
      BY <2>2, <3>2 DEF TypeOK, DriveType
    <3>4. /\ k.done = mark[a].done \cup {Order[at[a]]}
          /\ mark'[a] = k /\ marker'[a] = k
      BY <1>0, <2>2 DEF Step, TypeOK, DriveType, DiskType, Marker
    <3>5. a \notin failed => \A i \in 1..(n - 1) : Order[i] \in k.done
      <4> SUFFICES ASSUME a \notin failed, NEW i \in 1..(n - 1) PROVE Order[i] \in k.done
        OBVIOUS
      <4>1. i \in 1..(at[a] - 1) \/ i = at[a] \/ i \in (at[a] + 1)..(n - 1)
        BY <1>0
      <4>2. i \in 1..(at[a] - 1) => Order[i] \in mark[a].done
        BY <1>0, <3>1 DEF DriveOK
      <4> HIDE DEF k
      <4> QED BY <4>1, <4>2, <3>2, <3>4
    <3> HIDE DEF k
    <3> QED BY <3>1, <3>3, <3>4, <3>5, NoMarkerAssumption DEF DriveOK
  <2> QED BY <1>12, <2>1, <2>2 DEF SaveStep
<1>13. CASE Cascade(a)
  <2>1. CASE Finish(a)
    BY <2>1, FinishDriveOK
  <2>2. CASE a \notin failed /\ DeleteRow(a) /\ Go(a, "unlink") /\ UNCHANGED <<at, mark, failed>>
    BY <1>0, <1>13, <2>2 DEF Cascade, DeleteRow, DriveOK, TypeOK, DriveType, disk
  <2> QED BY <1>13, <2>1, <2>2 DEF Cascade
<1>14. CASE UnlinkMarker(a)
  BY <1>14, FinishDriveOK DEF UnlinkMarker
<1> QED BY <1>2, <1>3, <1>4, <1>5, <1>6, <1>7, <1>8, <1>9, <1>10, <1>11, <1>12, <1>13, <1>14,
           Frame DEF TaskStep

(* A step of a deletion leaves an account that has none alone. *)
LEMMA TaskStepBusy ==
  ASSUME NEW a \in Accounts, TaskStep(a)
  PROVE  task[a] # "idle"
BY DEF TaskStep, SetFlag, Quiesce, CancelPrefetch, Gather, WriteMarker, CleanStore,
       CleanCache, TombstoneHash, SaveStep, Cascade, UnlinkMarker

LEMMA BootInvStep ==
  ASSUME TypeOK, DriveInv, BootInv, [Next]_vars
  PROVE  BootInv'
<1>1. ASSUME NEW a \in Accounts, a \in listed'
      PROVE  system' = "drain" /\ task'[a] = "idle" /\ marker'[a] # NoMarker
  <2>1. CASE Crash
    BY <1>1, <2>1 DEF Crash
  <2>2. CASE BootList
    BY <1>1, <2>2 DEF BootList, BootInv, disk, drive
  <2>3. CASE BootResume
    <3>1. a \in listed /\ system' = system /\ a \in Accounts
      BY <1>1, <2>3, ResumeFacts DEF BootResume
    <3>2. ~Resumed(a) => Same(a)
      BY <2>3, <3>1, Frame, TaskStepBusy
         DEF BootInv, Crash, BootResume, DeleteRequest, Up
    <3>3. ~Resumed(a)
      BY <1>1, <2>3, ResumeFacts DEF BootResume, Resumed, TypeOK, DriveType
    <3> QED BY <3>1, <3>2, <3>3 DEF Same, BootInv
  <2>4. CASE BootDone
    BY <1>1, <2>4 DEF BootDone
  <2>5. CASE UNCHANGED <<system, listed>>
    <3>1. a \in listed /\ system = "drain" /\ task[a] = "idle"
      BY <1>1, <2>5 DEF BootInv
    <3>2. ~TaskStep(a) /\ ~DeleteRequest(a)
      BY <3>1, TaskStepBusy DEF DeleteRequest, Up
    <3>3. ~Crash /\ ~BootResume
      BY <2>5, <3>1, ResumeFacts DEF Crash
    <3>4. Same(a)
      BY <3>2, <3>3, Frame
    <3> QED BY <2>5, <3>1, <3>4 DEF Same, BootInv
  <2> QED BY <2>1, <2>2, <2>3, <2>4, <2>5, Writers DEF BootStep
<1>2. ASSUME NEW a \in Accounts, system' = "down"
      PROVE  task'[a] = "idle"
  <2>1. CASE Crash
    BY <2>1 DEF Crash
  <2>2. CASE ~Crash
    <3>1. system = "down" /\ ~BootResume
      BY <1>2, <2>2, Writers DEF BootStep, BootList, BootResume, BootDone
    <3>2. Same(a)
      BY <2>2, <3>1, Frame, TaskStepBusy DEF BootInv, DeleteRequest, Up
    <3> QED BY <3>1, <3>2 DEF Same, BootInv
  <2> QED BY <2>1, <2>2
<1>3. ASSUME NEW a \in Accounts, system' # "up"
      PROVE  fetch'[a] = "idle"
  <2>1. CASE Crash
    BY <2>1 DEF Crash
  <2>2. CASE ~Crash
    <3>1. system # "up"
      BY <1>3, <2>2, Writers DEF BootStep, BootList, BootResume, BootDone, TypeOK
    <3>2. \A b \in Accounts : ~FetchStep(b)
      BY <3>1 DEF BootInv, FetchStep, FetchStart, FetchPut, FetchRecheck, FetchBury, FetchUpdate,
                  Up
    <3>3. UNCHANGED fetch
      BY <2>2, <3>2, Writers DEF CancelPrefetch, prefetch
    <3> QED BY <3>1, <3>3 DEF BootInv
  <2> QED BY <2>1, <2>2
<1> QED BY <1>1, <1>2, <1>3 DEF BootInv

---------------------------------------------------------------------------
(* The stores and the row. *)

(* A run past the quiesce has escaped it. *)
LEMMA EscapedStep ==
  ASSUME TypeOK, DriveInv, BootInv, StoreInv, [Next]_vars,
         NEW a \in Accounts \ escaped', runner'[a] = "running"
  PROVE  ~Quiesced(a)'
<1>0. a \in Accounts \ escaped
  BY Writers DEF Quiesce, SyncStep, SyncAdmit, SyncSpawn, SyncWrite, SyncEnd, ghosts, Crash
<1>1. CASE Crash
  BY <1>1 DEF Crash
<1>2. CASE runner[a] = "running" /\ Quiesced(a)
  BY <1>0, <1>2 DEF StoreInv
<1>3. CASE runner[a] # "running"
  <2>1. SyncSpawn(a)
    BY <1>1, <1>3, Writers
       DEF Quiesce, SyncStep, SyncAdmit, SyncSpawn, SyncWrite, SyncEnd, TypeOK, Crash
  <2> QED BY <1>0, <2>1 DEF SyncSpawn, Quiesced, drive, disk, tables
<1>4. CASE runner[a] = "running" /\ ~Quiesced(a) /\ ~Crash
  <2>1. task[a] \in {"idle", "flag", "quiesce"} /\ marker[a] = NoMarker /\ a \in rows
    BY <1>4 DEF Quiesced
  <2>2. a \in rows'
    <3>1. \A b \in Accounts : Cascade(b) => b # a
      BY <2>1 DEF Cascade
    <3> QED BY <2>1, <3>1, RowRemoved
  <2>3. ~Quiesce(a)
    BY <1>4 DEF Quiesce, TypeOK
  <2>4. CASE Same(a)
    BY <2>1, <2>2, <2>4 DEF Same, Quiesced
  <2>5. CASE DeleteRequest(a) \/ SetFlag(a)
    BY <2>1, <2>2, <2>5 DEF DeleteRequest, SetFlag, Go, Quiesced, TypeOK, DriveType, disk
  <2>6. ~TaskStep(a) \/ SetFlag(a)
    BY <2>1, <2>3 DEF TaskStep, CancelPrefetch, Gather, WriteMarker, CleanStore,
       CleanCache, TombstoneHash, SaveStep, Cascade, UnlinkMarker
  <2>7. ~Resumed(a)
    BY <2>1, NoMarkerAssumption DEF Resumed
  <2> QED BY <1>4, <2>4, <2>5, <2>6, <2>7, Frame
<1> QED BY <1>1, <1>2, <1>3, <1>4

(* A store that is clean stays clean. *)
LEMMA StoresShrink ==
  ASSUME TypeOK, [Next]_vars, NEW a \in Accounts
  PROVE  stores'[a] \subseteq stores[a] \/ (SyncWrite(a) /\ runner[a] = "running")
<1>1. ASSUME NEW b \in Accounts, CleanStore(b) PROVE stores'[a] \subseteq stores[a]
  BY <1>1 DEF CleanStore, TypeOK, DiskType
<1>2. ASSUME NEW b \in Accounts, SyncWrite(b)
      PROVE  stores'[a] \subseteq stores[a] \/ (SyncWrite(a) /\ runner[a] = "running")
  BY <1>2 DEF SyncWrite, TypeOK, DiskType
<1> QED BY <1>1, <1>2, Writers

LEMMA StoreStep ==
  ASSUME TypeOK, DriveInv, BootInv, StoreInv, [Next]_vars
  PROVE  StoreInv'
<1> SUFFICES ASSUME NEW a \in Accounts \ escaped'
             PROVE  /\ \A m \in Work(a)' : stores'[a] \cap m.done = {}
                    /\ task'[a] = "save" => Step(a)' \notin stores'[a]
  BY EscapedStep DEF StoreInv
<1>0. a \in Accounts \ escaped
  BY Writers DEF Quiesce, SyncStep, SyncAdmit, SyncSpawn, SyncWrite, SyncEnd, ghosts, Crash
<1>1. CASE SyncWrite(a) /\ runner[a] = "running"
  <2>1. ~Quiesced(a)
    BY <1>0, <1>1 DEF StoreInv
  <2>2. Same(a)
    BY <1>1 DEF SyncWrite, Same, drive
  <2>3. Work(a)' = {} /\ task'[a] # "save"
    BY <2>1, <2>2, NoMarkerAssumption DEF Same, Work, Quiesced, Driving
  <2> QED BY <2>3
<1>2. CASE stores'[a] \subseteq stores[a]
  <2>1. ASSUME NEW m \in Work(a)' PROVE stores'[a] \cap m.done = {}
    <3>1. CASE m \in Work(a)
      BY <1>0, <1>2, <3>1 DEF StoreInv
    <3>2. CASE m = Gathered(Unshared(a))
      BY <3>2 DEF Gathered
    <3>3. CASE /\ task[a] = "save" /\ mark[a] \in Work(a)
               /\ m = [mark[a] EXCEPT !.done = @ \cup {Step(a)}]
      <4>1. m.done = mark[a].done \cup {Step(a)}
        BY <1>0, <3>3 DEF TypeOK, DriveType, Marker
      <4>2. stores[a] \cap mark[a].done = {} /\ Step(a) \notin stores[a]
        BY <1>0, <3>3 DEF StoreInv
      <4> QED BY <1>2, <4>1, <4>2
    <3> QED BY <2>1, <3>1, <3>2, <3>3, WorkStep
  <2>2. ASSUME task'[a] = "save" PROVE Step(a)' \notin stores'[a]
    <3>1. CASE Same(a)
      BY <1>0, <1>2, <2>2, <3>1 DEF Same, StoreInv, Step
    <3>2. CASE CleanStore(a)
      <4>1. at' = at /\ stores' = [stores EXCEPT ![a] = @ \ {Step(a)}]
        BY <2>2, <3>2 DEF CleanStore, TypeOK, DriveType
      <4> QED BY <4>1 DEF Step, TypeOK, DiskType
    <3>3. CASE CleanCache(a) \/ TombstoneHash(a)
      <4>1. Step(a) = "cache" /\ UNCHANGED at
        BY <2>2, <3>3 DEF CleanCache, TombstoneHash, DriveInv, DriveOK, TypeOK, DriveType
      <4> QED BY <1>2, <4>1 DEF Step, TypeOK, DiskType, Stores
    <3>4. ~Crash /\ ~Resumed(a) /\ ~DeleteRequest(a)
      BY <2>2 DEF Crash, Resumed, DeleteRequest, Go, TypeOK, DriveType
    <3>5. ~TaskStep(a) \/ CleanStore(a) \/ CleanCache(a) \/ TombstoneHash(a)
      BY <2>2 DEF TaskStep, SetFlag, Quiesce, CancelPrefetch, Gather, WriteMarker,
         SaveStep, Cascade, UnlinkMarker, Go, Finish, TypeOK, DriveType
    <3> QED BY <3>1, <3>2, <3>3, <3>4, <3>5, Frame
  <2> QED BY <2>1, <2>2
<1> QED BY <1>1, <1>2, StoresShrink

LEMMA CascadeStep ==
  ASSUME TypeOK, DriveInv, BootInv, StoreInv, CascadeIsLast, [Next]_vars
  PROVE  CascadeIsLast'
<1> SUFFICES ASSUME NEW a \in Accounts, a \notin rows', a \notin escaped'
             PROVE  stores'[a] = {}
  BY DEF CascadeIsLast
<1>0. a \notin escaped
  BY Writers DEF Quiesce, SyncStep, SyncAdmit, SyncSpawn, SyncWrite, SyncEnd, ghosts, Crash
<1>1. CASE a \notin rows
  <2>1. stores[a] = {}
    BY <1>0, <1>1 DEF CascadeIsLast
  <2>2. runner[a] # "running"
    BY <1>0, <1>1 DEF StoreInv, Quiesced
  <2> QED BY <2>1, <2>2, StoresShrink
<1>2. CASE a \in rows
  <2>1. Cascade(a) /\ a \notin failed
    BY <1>2, RowRemoved
  <2>2. task[a] = "step" /\ at[a] = 5 /\ UNCHANGED stores /\ mark[a] \in Marker
    BY <2>1, StepFacts DEF Cascade, disk, TypeOK, DriveType
  <2>3. \A i \in 1..4 : Order[i] \in mark[a].done
    BY <2>1, <2>2 DEF DriveInv, DriveOK, Driving
  <2>4. {"bodies", "inline", "search"} \subseteq mark[a].done
    BY <2>3, OrderFacts
  <2>5. stores[a] \cap mark[a].done = {} /\ stores[a] \subseteq Stores
    BY <1>0, <2>2 DEF StoreInv, Work, Driving, TypeOK, DiskType
  <2> QED BY <2>2, <2>4, <2>5 DEF Stores
<1> QED BY <1>1, <1>2

LEMMA CoverStep ==
  ASSUME TypeOK, DriveInv, MarkerCoversDeletion, [Next]_vars
  PROVE  MarkerCoversDeletion'
<1> SUFFICES ASSUME NEW a \in rows', stores'[a] # Stores
             PROVE  marker'[a] # NoMarker
  BY DEF MarkerCoversDeletion
<1>0. a \in rows /\ a \in Accounts
  BY RowsShrink DEF TypeOK, TablesType
<1>1. marker[a] # NoMarker
  <2>1. CASE stores[a] # Stores
    BY <1>0, <2>1 DEF MarkerCoversDeletion
  <2>2. CASE stores[a] = Stores
    <3>1. CleanStore(a)
      BY <1>0, <2>2, Writers DEF CleanStore, SyncWrite, TypeOK, DiskType
    <3> QED BY <1>0, <3>1 DEF CleanStore, DriveInv, DriveOK
  <2> QED BY <2>1, <2>2
<1>2. ~UnlinkMarker(a)
  BY <1>0 DEF UnlinkMarker, DriveInv, DriveOK
<1>3. ASSUME NEW b \in Accounts, WriteMarker(b) \/ SaveStep(b) \/ UnlinkMarker(b)
      PROVE  marker'[a] # NoMarker
  <2>1. CASE b # a
    BY <1>0, <1>1, <1>3, <2>1 DEF WriteMarker, SaveStep, UnlinkMarker, TypeOK, DiskType
  <2>2. CASE b = a
    <3>1. mark[a] \in Marker /\ [mark[a] EXCEPT !.done = @ \cup {Step(a)}] \in Marker
      BY <1>0, StepFacts, MarkerFacts DEF TypeOK, DriveType
    <3> QED BY <1>0, <1>1, <1>2, <1>3, <2>2, <3>1, NoMarkerAssumption
            DEF WriteMarker, SaveStep, TypeOK, DiskType
  <2> QED BY <2>1, <2>2
<1> QED BY <1>1, <1>3, Writers

---------------------------------------------------------------------------
(* The blobs. *)

LEMMA StrayGrows ==
  ASSUME [Next]_vars
  PROVE  stray \subseteq stray'
BY Writers DEF Gather, TombstoneHash, FetchRecheck, FetchBury, FetchUpdate, AskFetch, AskUpdate,
               SyncWrite, WriteRef, Crash

(* A deletion comes to be marked by gathering. *)
LEMMA MarkedStep ==
  ASSUME TypeOK, DriveInv, BootInv, [Next]_vars, NEW a \in Accounts, Marked(a)'
  PROVE  \/ Marked(a)
         \/ Gather(a) /\ task[a] = "gather" /\ task'[a] = "write"
<1> USE DEF Marked, Driving
<1>1. CASE Same(a)
  BY <1>1 DEF Same
<1>2. CASE Crash
  BY <1>2 DEF Crash, disk
<1>3. CASE Resumed(a)
  BY <1>3, NoMarkerAssumption DEF Resumed
<1>4. CASE DeleteRequest(a) \/ SetFlag(a) \/ Quiesce(a) \/ CancelPrefetch(a)
  BY <1>4 DEF DeleteRequest, SetFlag, Quiesce, CancelPrefetch, Go, disk, TypeOK, DriveType
<1>5. CASE Gather(a)
  BY <1>5 DEF Gather, Go, Finish, disk, TypeOK, DriveType
<1>6. CASE /\ TaskStep(a)
           /\ ~(SetFlag(a) \/ Quiesce(a) \/ CancelPrefetch(a) \/ Gather(a))
  BY <1>6 DEF TaskStep, WriteMarker, CleanStore, CleanCache, TombstoneHash, SaveStep, Cascade,
              UnlinkMarker, DriveInv, DriveOK
<1> QED BY <1>1, <1>2, <1>3, <1>4, <1>5, <1>6, Frame

(* References are attachments rows, and those belong to an account. *)
LEMMA RowFacts ==
  ASSUME TypeOK, NEW a \in Accounts
  PROVE  /\ \A h \in refs[a] : h \in atts[a]
         /\ \A h \in atts[a] : a \in rows
<1>1. TablesType
  BY DEF TypeOK
<1>2. refs[a] \subseteq atts[a] /\ (a \notin rows => atts[a] = {})
  BY <1>1 DEF TablesType
<1> QED BY ONLY <1>2

(* A reference is added by a fetch, for a row that is there. *)
LEMMA RefsAdded ==
  ASSUME TypeOK, FetchInv, AskInv, [Next]_vars, NEW a \in Accounts,
         NEW h \in refs'[a], h \notin refs[a]
  PROVE  /\ \/ FetchUpdate(a) /\ fetch[a] = "update" /\ h = item[a]
            \/ AskUpdate(a) /\ ask[a] = "update" /\ h = asked[a]
         /\ UNCHANGED <<drive, marker>>
         /\ Marked(a) => h \in stray
<1> USE DEF TypeOK, TablesType
<1>1. ASSUME NEW b \in Accounts, Cascade(b) \/ SyncWrite(b) PROVE h \in refs[a]
  BY <1>1 DEF Cascade, DeleteRow, SyncWrite, tables
<1>2. ASSUME NEW b \in Accounts, FetchUpdate(b)
      PROVE  b = a /\ fetch[a] = "update" /\ h = item[a] /\ UNCHANGED <<drive, marker>>
  BY <1>2 DEF FetchUpdate, WriteRef, disk
<1>3. ASSUME NEW b \in Accounts, AskUpdate(b)
      PROVE  b = a /\ ask[a] = "update" /\ h = asked[a] /\ UNCHANGED <<drive, marker>>
  BY <1>3 DEF AskUpdate, WriteRef, disk
<1>4. (FetchUpdate(a) /\ fetch[a] = "update" /\ h = item[a]) /\ Marked(a) => h \in stray
  BY DEF FetchInv
<1>5. (AskUpdate(a) /\ ask[a] = "update" /\ h = asked[a]) /\ Marked(a) => h \in stray
  BY DEF AskInv
<1> QED BY <1>1, <1>2, <1>3, <1>4, <1>5, Writers DEF tables, SetFlag

(* It is removed by the cascade, or noted as a message a sync removed. *)
LEMMA RefsRemoved ==
  ASSUME TypeOK, DriveInv, [Next]_vars, NEW a \in Accounts, NEW h \in refs[a],
         h \notin refs'[a], h \notin stray'
  PROVE  /\ Cascade(a) /\ task[a] = "step" /\ a \notin failed /\ at[a] = 5
         /\ Marked(a) /\ mark[a] \in Work(a)
         /\ refs' = [refs EXCEPT ![a] = {}]
         /\ UNCHANGED <<blob, prefetch, asking, stray>>
<1>1. ~ \E b \in Accounts : FetchUpdate(b) \/ AskUpdate(b)
  BY DEF FetchUpdate, AskUpdate, WriteRef, TypeOK, TablesType
<1>2. ASSUME NEW b \in Accounts, SyncWrite(b) PROVE FALSE
  <2>1. PICK now \in SUBSET (IF b \in rows THEN Attached[b] ELSE {}) :
           refs' = [refs EXCEPT ![b] = @ \cap now] /\ stray' = stray \cup (atts[b] \ now)
    BY <1>2 DEF SyncWrite
  <2>2. b = a /\ h \notin now
    BY <2>1 DEF TypeOK, TablesType
  <2>3. h \in atts[a]
    BY RowFacts
  <2> QED BY <2>1, <2>2, <2>3
<1>3. PICK b \in Accounts : Cascade(b) /\ ~ UNCHANGED tables
  BY <1>1, <1>2, Writers DEF tables, SetFlag
<1>4. b = a /\ DeleteRow(a) /\ a \notin failed
  BY <1>3 DEF Cascade, DeleteRow, TypeOK, TablesType
<1>5. task[a] = "step" /\ at[a] = 5
  BY <1>3, <1>4, StepFacts DEF Cascade
<1> QED BY <1>3, <1>4, <1>5
        DEF Cascade, DeleteRow, Marked, Work, Driving, TypeOK, DriveType, disk, ghosts, around

(* An attachments row goes with its account, or is noted as removed. *)
LEMMA RowsKept ==
  ASSUME TypeOK, [Next]_vars, NEW a \in rows', NEW h \in atts[a]
  PROVE  h \in atts'[a] \cup stray'
<1>0. a \in Accounts
  BY RowsShrink DEF TypeOK, TablesType
<1>1. CASE UNCHANGED atts
  BY <1>1
<1>2. ASSUME NEW b \in Accounts, Cascade(b) PROVE h \in atts'[a]
  BY <1>0, <1>2 DEF Cascade, DeleteRow, tables, TypeOK, TablesType
<1>3. ASSUME NEW b \in Accounts, SyncWrite(b) PROVE h \in atts'[a] \cup stray'
  BY <1>0, <1>3 DEF SyncWrite, TypeOK, TablesType
<1> QED BY <1>1, <1>2, <1>3, Writers DEF tables, SetFlag, FetchUpdate, AskUpdate

(* A deletion that becomes marked has noted the fetches that are under way. *)
LEMMA GoneOrMarked ==
  ASSUME TypeOK, DriveInv, BootInv, [Next]_vars, NEW a \in Accounts, Marked(a)' \/ a \notin rows'
  PROVE  \/ Marked(a) \/ a \notin rows
         \/ Gather(a) /\ task[a] = "gather" /\ task'[a] = "write"
<1>1. CASE Marked(a)'
  BY <1>1, MarkedStep
<1>2. CASE a \notin rows' /\ a \in rows
  <2>1. task[a] = "step"
    BY <1>2, RowRemoved
  <2> QED BY <2>1 DEF Marked, Driving
<1> QED BY <1>1, <1>2

LEMMA FetchInvStep ==
  ASSUME TypeOK, DriveInv, BootInv, FetchInv, [Next]_vars
  PROVE  FetchInv'
<1> SUFFICES ASSUME NEW a \in Accounts
             PROVE  /\ task'[a] \notin {"idle", "flag", "quiesce", "cancel"} =>
                         system' = "drain" \/ a \in cancelling'
                    /\ a \notin rows' => fetch'[a] = "idle" \/ a \in cancelling'
                    /\ (Marked(a)' \/ a \notin rows') /\ fetch'[a] = "update" => item'[a] \in stray'
                    /\ a \in rows' /\ fetch'[a] # "idle" => item'[a] \in atts'[a] \cup stray'
  BY DEF FetchInv
<1>0. /\ task[a] \notin {"idle", "flag", "quiesce", "cancel"} => system = "drain" \/ a \in cancelling
      /\ a \notin rows => fetch[a] = "idle" \/ a \in cancelling
      /\ (Marked(a) \/ a \notin rows) /\ fetch[a] = "update" => item[a] \in stray
      /\ a \in rows /\ fetch[a] # "idle" => item[a] \in atts[a] \cup stray
  BY DEF FetchInv
<1>a. ASSUME ~Crash
      PROVE  /\ cancelling \subseteq cancelling'
             /\ fetch'[a] = "idle" \/ FetchStart(a) \/ (fetch[a] # "idle" /\ item'[a] = item[a])
  BY <1>a, Writers DEF CancelPrefetch, FetchStep, FetchStart, FetchPut, FetchRecheck, FetchBury,
                       FetchUpdate, To, prefetch, TypeOK, PrefetchType
<1>b. ASSUME FetchStart(a)
      PROVE  /\ a \in rows /\ UNCHANGED <<rows, atts>>
             /\ item'[a] \in atts[a] /\ fetch'[a] = "put"
  <2>1. PICK h \in atts[a] : item' = [item EXCEPT ![a] = h]
    BY <1>b DEF FetchStart
  <2>2. a \in rows
    BY <2>1, RowFacts
  <2> QED BY <1>b, <2>1, <2>2 DEF FetchStart, To, tables, TypeOK, PrefetchType
<1>1. CASE Crash
  BY <1>1 DEF Crash, Marked
<1>2. CASE ~Crash
  <2>1. ASSUME a \in rows', fetch'[a] # "idle" PROVE item'[a] \in atts'[a] \cup stray'
    <3>1. CASE FetchStart(a)
      BY <1>b, <3>1
    <3>2. CASE fetch[a] # "idle" /\ item'[a] = item[a]
      <4>1. item[a] \in atts[a] \cup stray
        BY <1>0, <2>1, <3>2, RowsShrink
      <4> QED BY <2>1, <3>2, <4>1, RowsKept, StrayGrows
    <3> QED BY <1>2, <1>a, <2>1, <3>1, <3>2
  <2>2. ASSUME task'[a] \notin {"idle", "flag", "quiesce", "cancel"}
        PROVE  system' = "drain" \/ a \in cancelling'
    <3>1. CASE task[a] \notin {"idle", "flag", "quiesce", "cancel"}
      <4>1. CASE a \in cancelling
        BY <1>2, <1>a, <4>1
      <4>2. CASE system = "drain"
        BY <1>2, <3>1, <4>2, Writers DEF BootStep, BootList, BootResume, BootDone
      <4> QED BY <1>0, <3>1, <4>1, <4>2
    <3>2. CASE task[a] \in {"idle", "flag", "quiesce", "cancel"}
      <4>1. CASE CancelPrefetch(a)
        BY <4>1 DEF CancelPrefetch
      <4>2. CASE BootResume
        BY <4>2 DEF BootResume
      <4>3. ~Same(a) /\ ~DeleteRequest(a) /\ ~SetFlag(a) /\ ~Quiesce(a)
        BY <2>2, <3>2 DEF Same, DeleteRequest, SetFlag, Quiesce, Go, TypeOK, DriveType
      <4>4. TaskStep(a) => CancelPrefetch(a)
        BY <3>2, <4>3 DEF TaskStep, Gather, WriteMarker, CleanStore, CleanCache, TombstoneHash,
                          SaveStep, Cascade, UnlinkMarker
      <4> QED BY <1>2, <4>1, <4>2, <4>3, <4>4, Frame
    <3> QED BY <3>1, <3>2
  <2>3. ASSUME a \notin rows'
        PROVE  fetch'[a] = "idle" \/ a \in cancelling'
    <3>1. CASE a \notin rows
      BY <1>0, <1>2, <1>a, <1>b, <3>1
    <3>2. CASE a \in rows
      <4>1. Cascade(a) /\ task[a] = "step"
        BY <2>3, <3>2, RowRemoved
      <4>2. UNCHANGED prefetch
        BY <4>1 DEF Cascade, around
      <4> QED BY <1>0, <4>1, <4>2 DEF prefetch, BootInv
    <3> QED BY <3>1, <3>2
  <2>4. ASSUME Marked(a)' \/ a \notin rows', fetch'[a] = "update"
        PROVE  item'[a] \in stray'
    <3>1. CASE fetch[a] = "update"
      <4>1. item'[a] = item[a]
        BY <1>2, <1>a, <1>b, <2>4, <3>1
      <4>2. CASE Gather(a) /\ task'[a] = "write"
        BY <3>1, <4>1, <4>2 DEF Gather, Finish, Go, TypeOK, DriveType
      <4>3. CASE Marked(a) \/ a \notin rows
        BY <1>0, <3>1, <4>1, <4>3, StrayGrows
      <4> QED BY <2>4, <4>2, <4>3, GoneOrMarked
    <3>2. CASE fetch[a] # "update"
      <4>1. FetchRecheck(a) /\ a \notin cancelling /\ fetch[a] = "recheck"
        BY <1>2, <2>4, <3>2, Writers
           DEF CancelPrefetch, FetchStep, FetchStart, FetchPut, FetchRecheck, FetchBury,
               FetchUpdate, To, prefetch, TypeOK, PrefetchType
      <4>2. UNCHANGED <<rows, marker, task, item>>
        BY <4>1 DEF FetchRecheck, tables, disk, drive
      <4>3. system = "up"
        BY <4>1 DEF BootInv
      <4>4. marker[a] # NoMarker
        BY <1>0, <2>4, <4>1, <4>2, <4>3 DEF Marked, Driving
      <4> QED BY <2>4, <4>1, <4>2, <4>4 DEF FetchRecheck, To, TypeOK, PrefetchType
    <3> QED BY <3>1, <3>2
  <2> QED BY <2>1, <2>2, <2>3, <2>4
<1> QED BY <1>1, <1>2

LEMMA AskInvStep ==
  ASSUME TypeOK, DriveInv, BootInv, AskInv, [Next]_vars
  PROVE  AskInv'
<1> SUFFICES ASSUME NEW a \in Accounts, ask'[a] # "idle"
             PROVE  /\ Marked(a)' \/ a \notin rows' => asked'[a] \in stray'
                    /\ asked'[a] \in atts'[a] \cup stray'
  BY DEF AskInv
<1>1. CASE AskFetch(a)
  <2>1. PICK h \in atts[a] : /\ asked' = [asked EXCEPT ![a] = h]
                             /\ stray' = IF Planned(a) THEN stray \cup {h} ELSE stray
    BY <1>1 DEF AskFetch
  <2>2. asked'[a] = h /\ UNCHANGED <<rows, atts, task, marker>>
    BY <1>1, <2>1 DEF AskFetch, tables, disk, drive, TypeOK, AroundType
  <2>3. a \in rows
    BY <2>1, RowFacts
  <2>4. Marked(a)' => Planned(a)
    BY <2>2 DEF Marked, Planned, Driving
  <2> QED BY <2>1, <2>2, <2>3, <2>4
<1>2. CASE ask[a] # "idle" /\ asked'[a] = asked[a]
  <2>1. ASSUME Marked(a)' \/ a \notin rows' PROVE asked[a] \in stray'
    <3>1. CASE Gather(a) /\ task'[a] = "write"
      BY <1>2, <3>1 DEF Gather, Finish, Go, TypeOK, DriveType
    <3>2. CASE Marked(a) \/ a \notin rows
      BY <1>2, <3>2, StrayGrows DEF AskInv
    <3> QED BY <2>1, <3>1, <3>2, GoneOrMarked
  <2>2. asked[a] \in atts'[a] \cup stray'
    <3>1. asked[a] \in atts[a] \cup stray
      BY <1>2 DEF AskInv
    <3> QED BY <2>1, <3>1, RowsKept, StrayGrows
  <2> QED BY <1>2, <2>1, <2>2
<1>3. AskFetch(a) \/ (ask[a] # "idle" /\ asked'[a] = asked[a])
  BY Writers DEF AskStep, AskFetch, AskPut, AskUpdate, AskTo, asking, Crash, TypeOK, AroundType
<1> QED BY <1>1, <1>2, <1>3

LEMMA SharedStep ==
  ASSUME TypeOK, DriveInv, BootInv, FetchInv, AskInv, SharedInv, [Next]_vars
  PROVE  SharedInv'
<1> SUFFICES ASSUME NEW a \in Accounts, NEW b \in Accounts, a # b, Marked(a)', Marked(b)',
                    NEW h \in refs'[a] \cap refs'[b]
             PROVE  h \in stray'
  BY DEF SharedInv
<1>1. ASSUME NEW c \in {a, b}, h \notin refs[c] PROVE h \in stray'
  <2>1. UNCHANGED <<drive, marker>> /\ (Marked(c) => h \in stray)
    BY <1>1, RefsAdded
  <2>2. Marked(c)
    BY <2>1 DEF Marked, drive
  <2> QED BY <2>1, <2>2, StrayGrows
<1>2. ASSUME NEW c \in {a, b}, NEW d \in {a, b}, c # d, h \in refs[c], h \in refs[d], ~Marked(c)
      PROVE  h \in stray'
  <2>1. Gather(c) /\ task'[c] = "write" /\ c \in Accounts /\ d \in Accounts
    BY <1>2, MarkedStep
  <2>2. ~Gather(d)
    BY <1>2, <2>1 DEF Gather, Go, Finish, TypeOK, DriveType
  <2>3. Marked(d)
    BY <1>2, <2>1, <2>2, MarkedStep
  <2>4. Deleting(d)
    BY <2>3 DEF Marked, Deleting, Driving
  <2> QED BY <1>2, <2>1, <2>4 DEF Gather, Finish, Go, TypeOK, DriveType
<1>3. CASE h \in refs[a] /\ h \in refs[b] /\ Marked(a) /\ Marked(b)
  BY <1>3, StrayGrows DEF SharedInv
<1> QED BY <1>1, <1>2, <1>3

LEMMA GatherStep ==
  ASSUME TypeOK, DriveInv, BootInv, FetchInv, AskInv, SharedInv, GatherInv, [Next]_vars
  PROVE  GatherInv'
<1> SUFFICES ASSUME NEW a \in Accounts, NEW m \in Work(a)', NEW h \in refs'[a],
                    h \notin stray', h \notin m.hashes
             PROVE  \E b \in Accounts \ {a} : h \in refs'[b]
  BY DEF GatherInv
<1>0. h \notin stray
  BY StrayGrows
<1>1. CASE Gather(a) /\ m = Gathered(Unshared(a))
  BY <1>1 DEF Gather, Gathered, Unshared, tables
<1>2. CASE ~(Gather(a) /\ m = Gathered(Unshared(a)))
  <2>1. PICK k \in Work(a) : k.hashes = m.hashes
    BY <1>2, WorkStep DEF Work, Marker
  <2>2. Marked(a)
    BY <2>1, NoMarkerAssumption DEF Work, Marked
  <2>3. h \in refs[a]
    BY <1>0, <2>2, RefsAdded
  <2>4. PICK b \in Accounts \ {a} : h \in refs[b]
    BY <1>0, <2>1, <2>3 DEF GatherInv
  <2>5. h \in refs'[b]
    <3>1. ASSUME h \notin refs'[b] PROVE FALSE
      <4>1. Marked(b)
        BY <2>4, <3>1, RefsRemoved
      <4> QED BY <1>0, <2>2, <2>3, <2>4, <4>1 DEF SharedInv
    <3> QED BY <3>1
  <2> QED BY <2>4, <2>5
<1> QED BY <1>1, <1>2

(* A blob comes to be live by a put, whose reference is still to come. *)
LEMMA LivePut ==
  ASSUME TypeOK, [Next]_vars, NEW h \in Hashes, blob[h] # "live", blob'[h] = "live"
  PROVE  \E c \in Accounts : InFlight(c, h)'
<1>1. \E c \in Accounts : (FetchPut(c) /\ item[c] = h) \/ (AskPut(c) /\ asked[c] = h)
  BY Writers DEF TombstoneHash, FetchPut, FetchBury, AskPut, EvictHash, Tombstoned, Revived,
                 TypeOK, DiskType
<1>2. PICK c \in Accounts : (FetchPut(c) /\ item[c] = h) \/ (AskPut(c) /\ asked[c] = h)
  BY <1>1
<1>3. CASE FetchPut(c) /\ item[c] = h
  BY <1>3 DEF FetchPut, To, Stored, InFlight, TypeOK, PrefetchType
<1>4. CASE AskPut(c) /\ asked[c] = h
  BY <1>4 DEF AskPut, AskTo, InFlight, TypeOK, AroundType
<1> QED BY <1>2, <1>3, <1>4

(* A fetch that has stored its bytes ends with a reference for an account  *)
(* that is not marked for deletion, with a tombstone, or in stray.          *)
LEMMA FlightEnds ==
  ASSUME TypeOK, BootInv, FetchInv, AskInv, [Next]_vars, NEW c \in Accounts, NEW h \in Hashes,
         InFlight(c, h), h \notin stray', blob'[h] = "live"
  PROVE  InFlight(c, h)' \/ (h \in refs'[c] /\ ~Marked(c))
<1>0. h \notin stray
  BY StrayGrows
<1>1. CASE Crash
  BY <1>1 DEF Crash
<1>2. CASE fetch[c] \in Stored /\ item[c] = h /\ ~Crash
  <2>1. CASE UNCHANGED <<fetch[c], item[c]>>
    BY <1>2, <2>1 DEF InFlight
  <2>2. CASE FetchRecheck(c)
    BY <1>2, <2>2 DEF FetchRecheck, To, Stored, InFlight, TypeOK, PrefetchType
  <2>3. CASE FetchBury(c)
    BY <1>2, <2>3 DEF FetchBury, Tombstoned, TypeOK, DiskType
  <2>4. CASE FetchUpdate(c)
    <3>1. c \in rows /\ ~Marked(c) /\ h \in atts[c]
      BY <1>0, <1>2, <2>4 DEF FetchUpdate, FetchInv
    <3>2. h \in refs'[c]
      BY <1>2, <2>4, <3>1 DEF FetchUpdate, WriteRef, TypeOK, TablesType
    <3> QED BY <3>1, <3>2
  <2>5. UNCHANGED <<fetch[c], item[c]>> \/ FetchRecheck(c) \/ FetchBury(c) \/ FetchUpdate(c)
    BY <1>2, Writers
       DEF CancelPrefetch, FetchStep, FetchStart, FetchPut, FetchRecheck, FetchBury,
           FetchUpdate, To, prefetch, Stored, TypeOK, PrefetchType
  <2> QED BY <2>1, <2>2, <2>3, <2>4, <2>5
<1>3. CASE ask[c] = "update" /\ asked[c] = h /\ ~Crash
  <2>1. CASE UNCHANGED <<ask[c], asked[c]>>
    BY <1>3, <2>1 DEF InFlight
  <2>2. CASE AskUpdate(c)
    <3>1. ~Marked(c) /\ h \in atts[c]
      BY <1>0, <1>3 DEF AskInv
    <3>2. h \in refs'[c]
      BY <1>3, <2>2, <3>1 DEF AskUpdate, WriteRef, TypeOK, TablesType
    <3> QED BY <3>1, <3>2
  <2>3. UNCHANGED <<ask[c], asked[c]>> \/ AskUpdate(c)
    BY <1>3, Writers
       DEF AskStep, AskFetch, AskPut, AskUpdate, AskTo, asking, TypeOK, AroundType
  <2> QED BY <2>1, <2>2, <2>3
<1> QED BY <1>1, <1>2, <1>3 DEF InFlight

(* What a deletion is through with stays buried while it is marked. *)
LEMMA BuriedStays ==
  ASSUME TypeOK, DriveInv, BootInv, FetchInv, AskInv, SharedInv, [Next]_vars,
         NEW a \in Accounts, NEW h \in Hashes, Marked(a), Buried(a, h)
  PROVE  Buried(a, h)'
<1> SUFFICES ASSUME h \in refs'[a], h \notin stray', blob'[h] = "live"
             PROVE  \/ \E b \in Accounts \ {a} : h \in refs'[b]
                    \/ \E c \in Accounts : InFlight(c, h)'
  BY DEF Buried
<1>0. h \notin stray
  BY StrayGrows
<1>1. h \in refs[a]
  BY <1>0, RefsAdded
<1>2. CASE blob[h] # "live"
  BY <1>2, LivePut
<1>3. ASSUME NEW b \in Accounts \ {a}, h \in refs[b] PROVE h \in refs'[b]
  <2>1. ASSUME h \notin refs'[b] PROVE FALSE
    <3>1. Marked(b)
      BY <1>3, <2>1, RefsRemoved
    <3> QED BY <1>0, <1>1, <1>3, <3>1 DEF SharedInv
  <2> QED BY <2>1
<1>4. ASSUME NEW c \in Accounts, InFlight(c, h)
      PROVE  InFlight(c, h)' \/ (c # a /\ h \in refs'[c])
  BY <1>4, FlightEnds
<1>5. CASE blob[h] = "live"
  <2>1. CASE \E b \in Accounts \ {a} : h \in refs[b]
    BY <1>3, <2>1
  <2>2. CASE \E c \in Accounts : InFlight(c, h)
    BY <1>4, <2>2
  <2> QED BY <1>0, <1>1, <1>5, <2>1, <2>2 DEF Buried
<1> QED BY <1>2, <1>5

(* The hash whose turn it is: tombstoned, or noted as left behind. *)
LEMMA TombstoneBuries ==
  ASSUME TypeOK, DriveInv, BootInv, FetchInv, AskInv, SharedInv, BuriedInv, [Next]_vars,
         NEW a \in Accounts, TombstoneHash(a)
  PROVE  \A h \in mark[a].hashes \ left'[a] : Buried(a, h)'
<1>1. PICK g \in left[a] :
         /\ left' = [left EXCEPT ![a] = @ \ {g}]
         /\ \/ blob' = Tombstoned(g) /\ UNCHANGED stray
            \/ stray' = stray \cup {g}
  BY DEF TombstoneHash
<1>2. task[a] = "hashes" /\ Marked(a) /\ mark[a] \in Marker
  BY DEF TombstoneHash, Marked, Driving, TypeOK, DriveType
<1> SUFFICES ASSUME NEW h \in mark[a].hashes, h \notin left'[a] PROVE Buried(a, h)'
  OBVIOUS
<1>3. h \in Hashes
  BY <1>2 DEF Marker
<1>4. CASE h = g
  <2>1. blob'[h] # "live" \/ h \in stray'
    BY <1>1, <1>3, <1>4 DEF Tombstoned, TypeOK, DiskType
  <2> QED BY <2>1 DEF Buried
<1>5. CASE h # g
  <2>1. h \notin left[a]
    BY <1>1, <1>5 DEF TypeOK, DriveType
  <2>2. Buried(a, h)
    BY <1>2, <2>1 DEF BuriedInv
  <2> QED BY <1>2, <1>3, <2>2, BuriedStays
<1> QED BY <1>4, <1>5

LEMMA BuriedStep ==
  ASSUME TypeOK, DriveInv, BootInv, FetchInv, AskInv, SharedInv, BuriedInv, [Next]_vars
  PROVE  BuriedInv'
<1> SUFFICES ASSUME NEW a \in Accounts
             PROVE  /\ \A m \in Work(a)' : "cache" \in m.done => \A h \in m.hashes : Buried(a, h)'
                    /\ task'[a] = "save" /\ Step(a)' = "cache" =>
                         \A h \in mark'[a].hashes : Buried(a, h)'
                    /\ task'[a] = "hashes" => \A h \in mark'[a].hashes \ left'[a] : Buried(a, h)'
  BY DEF BuriedInv
<1>0. mark[a] \in Marker
  BY DEF TypeOK, DriveType
<1>1. ASSUME NEW m \in Work(a)', "cache" \in m.done, NEW h \in m.hashes PROVE Buried(a, h)'
  <2>1. ASSUME NEW k \in Work(a), Buried(a, h), h \in k.hashes PROVE Buried(a, h)'
    <3>1. Marked(a) /\ h \in Hashes
      BY <2>1, NoMarkerAssumption DEF Work, Marked, Marker
    <3> QED BY <2>1, <3>1, BuriedStays
  <2>2. CASE m \in Work(a)
    BY <1>1, <2>1, <2>2 DEF BuriedInv
  <2>3. CASE m = Gathered(Unshared(a))
    BY <1>1, <2>3 DEF Gathered
  <2>4. CASE /\ task[a] = "save" /\ mark[a] \in Work(a)
             /\ m = [mark[a] EXCEPT !.done = @ \cup {Step(a)}]
    <3>1. h \in mark[a].hashes /\ ("cache" \in mark[a].done \/ Step(a) = "cache")
      BY <1>0, <1>1, <2>4 DEF Marker
    <3>2. Buried(a, h)
      BY <2>4, <3>1 DEF BuriedInv
    <3> QED BY <2>1, <2>4, <3>1, <3>2
  <2> QED BY <1>1, <2>2, <2>3, <2>4, WorkStep
<1>2. ASSUME task'[a] \in {"save", "hashes"}, Same(a) \/ TombstoneHash(a) \/ CleanCache(a) \/ CleanStore(a),
             task'[a] = "save" => Step(a)' = "cache", 
             NEW h \in mark'[a].hashes, task'[a] = "hashes" => h \notin left'[a]
      PROVE  Buried(a, h)'
  <2>1. CASE Same(a)
    <3>1. Buried(a, h) /\ h \in mark[a].hashes /\ task[a] \in {"save", "hashes"}
      BY <1>2, <2>1 DEF Same, BuriedInv, Step
    <3>2. Marked(a) /\ h \in Hashes
      BY <1>0, <3>1 DEF Marked, Driving, Marker
    <3> QED BY <3>1, <3>2, BuriedStays
  <2>2. CASE TombstoneHash(a)
    <3>1. UNCHANGED mark /\ h \notin left'[a]
      BY <1>2, <2>2 DEF TombstoneHash, Go, TypeOK, DriveType
    <3> QED BY <1>2, <2>2, <3>1, TombstoneBuries
  <2>3. CASE CleanCache(a)
    BY <1>2, <2>3 DEF CleanCache, Go, TypeOK, DriveType
  <2>4. CASE CleanStore(a)
    <3>1. task'[a] = "save" /\ UNCHANGED at
      BY <1>2, <2>4 DEF CleanStore, Go, TypeOK, DriveType
    <3> QED BY <1>2, <2>4, <3>1, StepFacts DEF CleanStore, Step
  <2> QED BY <1>2, <2>1, <2>2, <2>3, <2>4
<1>3. ASSUME task'[a] \in {"save", "hashes"}
      PROVE  Same(a) \/ TombstoneHash(a) \/ CleanCache(a) \/ CleanStore(a)
  <2>1. ~Crash /\ ~Resumed(a) /\ ~DeleteRequest(a)
    BY <1>3 DEF Crash, Resumed, DeleteRequest, Go, TypeOK, DriveType
  <2>2. ~TaskStep(a) \/ CleanCache(a) \/ TombstoneHash(a) \/ CleanStore(a)
    BY <1>3 DEF TaskStep, SetFlag, Quiesce, CancelPrefetch, Gather, WriteMarker,
                SaveStep, Cascade, UnlinkMarker, Go, Finish, TypeOK, DriveType
  <2> QED BY <2>1, <2>2, Frame
<1> QED BY <1>1, <1>2, <1>3

(* The row ends the references of the account last, when what it alone     *)
(* referred to is tombstoned.                                               *)
LEMMA OrphanStep ==
  ASSUME TypeOK, DriveInv, BootInv, FetchInv, AskInv, SharedInv, GatherInv, BuriedInv,
         NoOrphanBlob, [Next]_vars
  PROVE  NoOrphanBlob'
<1> SUFFICES ASSUME NEW h \in Hashes, h \notin stray', blob'[h] = "live"
             PROVE  \E a \in Accounts : h \in refs'[a] \/ InFlight(a, h)'
  BY DEF NoOrphanBlob
<1>0. h \notin stray
  BY StrayGrows
<1>1. CASE blob[h] # "live"
  BY <1>1, LivePut
<1>2. ASSUME NEW a \in Accounts, h \in refs[a], h \notin refs'[a], blob[h] = "live"
      PROVE  \E b \in Accounts : h \in refs'[b] \/ InFlight(b, h)'
  <2>1. /\ a \notin failed /\ at[a] = 5 /\ task[a] = "step" /\ mark[a] \in Work(a)
        /\ refs' = [refs EXCEPT ![a] = {}] /\ UNCHANGED <<prefetch, asking>>
    BY <1>2, RefsRemoved
  <2>2. 3 \in 1..(at[a] - 1)
    BY <2>1
  <2>3. "cache" \in mark[a].done
    BY <2>1, <2>2, OrderFacts DEF DriveInv, DriveOK, Driving
  <2>4. CASE h \in mark[a].hashes
    <3>1. Buried(a, h)
      BY <2>1, <2>3, <2>4 DEF BuriedInv
    <3>2. \/ \E b \in Accounts \ {a} : h \in refs[b]
          \/ \E c \in Accounts : InFlight(c, h)
      BY <1>0, <1>2, <3>1 DEF Buried
    <3>3. \A c \in Accounts : InFlight(c, h) => InFlight(c, h)'
      BY <2>1 DEF prefetch, asking, InFlight
    <3> QED BY <2>1, <3>2, <3>3 DEF TypeOK, TablesType
  <2>5. CASE h \notin mark[a].hashes
    <3>1. \E b \in Accounts \ {a} : h \in refs[b]
      BY <1>0, <1>2, <2>1, <2>5 DEF GatherInv
    <3> QED BY <2>1, <3>1 DEF TypeOK, TablesType
  <2> QED BY <2>4, <2>5
<1>3. CASE blob[h] = "live"
  <2>1. PICK a \in Accounts : h \in refs[a] \/ InFlight(a, h)
    BY <1>0, <1>3 DEF NoOrphanBlob
  <2>2. CASE h \in refs[a]
    BY <1>2, <1>3, <2>2
  <2>3. CASE InFlight(a, h)
    BY <2>3, FlightEnds
  <2> QED BY <2>1, <2>2, <2>3
<1> QED BY <1>1, <1>3

---------------------------------------------------------------------------
(* The results. *)

LEMMA DeleteInit == Init => DeleteInv
<1> SUFFICES ASSUME Init PROVE DeleteInv
  OBVIOUS
<1> USE DEF Init
<1>1. TypeOK
  <2>1. TablesType
    BY DeleteAssumption DEF TablesType
  <2>2. DiskType
    <3>1. blob \in [Hashes -> {"none", "live", "dead"}]
      OBVIOUS
    <3> QED BY <3>1 DEF DiskType
  <2>3. DriveType
    <3>1. 1 \in DOMAIN Order /\ NoGather \in Marker
      BY OrderFacts, MarkerFacts
    <3> QED BY <3>1 DEF DriveType, TaskStates
  <2>4. PrefetchType
    BY DeleteAssumption DEF PrefetchType, FetchStates
  <2>5. AroundType
    BY DeleteAssumption DEF AroundType, AskStates
  <2> QED BY <2>1, <2>2, <2>3, <2>4, <2>5 DEF TypeOK
<1>2. DriveInv
  BY NoMarkerAssumption DEF DriveInv, DriveOK, Work, Driving
<1>3. BootInv /\ FetchInv /\ AskInv
  BY DEF BootInv, FetchInv, AskInv, Marked, Driving
<1>4. StoreInv /\ SharedInv /\ GatherInv /\ BuriedInv
  BY NoMarkerAssumption
     DEF StoreInv, SharedInv, GatherInv, BuriedInv, Work, Marked, Driving
<1>5. CascadeIsLast /\ MarkerCoversDeletion /\ NoOrphanBlob
  BY DEF CascadeIsLast, MarkerCoversDeletion, NoOrphanBlob
<1> QED BY <1>1, <1>2, <1>3, <1>4, <1>5 DEF DeleteInv

LEMMA DeleteStep ==
  ASSUME DeleteInv, [Next]_vars
  PROVE  DeleteInv'
<1> USE DEF DeleteInv
<1>1. TypeOK' /\ DriveInv' /\ BootInv' /\ StoreInv'
  BY TypeStep, DriveStep, BootInvStep, StoreStep
<1>2. FetchInv' /\ AskInv' /\ SharedInv' /\ GatherInv' /\ BuriedInv'
  BY FetchInvStep, AskInvStep, SharedStep, GatherStep, BuriedStep
<1>3. CascadeIsLast' /\ MarkerCoversDeletion' /\ NoOrphanBlob'
  BY CascadeStep, CoverStep, OrphanStep
<1> QED BY <1>1, <1>2, <1>3

(* DeleteInv is an invariant of account.delete, of the boot that resumes   *)
(* it and of the fetches, sync runs and sweeps around it.                   *)
THEOREM DeleteInvariant == Spec => []DeleteInv
<1> QED BY DeleteInit, DeleteStep, PTL DEF Spec

(* Once the row of an account is gone (the cascade of drive_steps), no     *)
(* store holds anything of it, whatever failed, died or was resumed.        *)
THEOREM CascadeTheorem == Spec => []CascadeIsLast
<1>1. DeleteInv => CascadeIsLast
  BY DEF DeleteInv
<1> QED BY <1>1, DeleteInvariant, PTL

(* A deletion that has removed anything is resumed after a death: its       *)
(* marker is there until the row is gone.                                  *)
THEOREM CoverTheorem == Spec => []MarkerCoversDeletion
<1>1. DeleteInv => MarkerCoversDeletion
  BY DEF DeleteInv
<1> QED BY <1>1, DeleteInvariant, PTL

(* No live blob is without a reference but through the windows `stray'     *)
(* records: run_item_pipeline's second check does what it is there for.     *)
THEOREM OrphanTheorem == Spec => []NoOrphanBlob
<1>1. DeleteInv => NoOrphanBlob
  BY DEF DeleteInv
<1> QED BY <1>1, DeleteInvariant, PTL
=============================================================================
