------------------------ MODULE ActionPipelineProofs ------------------------
(***************************************************************************)
(* Proofs about a mail action end to end, for any plans, operations,       *)
(* deaths, faults and timeouts: what the UI concludes from messages that   *)
(* overtake each other, are lost with a generation or come too late agrees *)
(* with the journal (the inductive invariant is PipelineInv), and no plan  *)
(* it tracks is forgotten (PipelineInv with TrackInv).                     *)
(***************************************************************************)
EXTENDS ActionPipeline, ActionJournalProofs, SequenceTheorems

Statuses == {"terminal", "in_flight", "not_found"}
StatusFrames == {StatusFrame(p, s) : p \in Plans, s \in Statuses}
Responses == {AckFrame(p) : p \in Plans} \cup {ErrorFrame(p) : p \in Plans} \cup StatusFrames

(* The contents of the pipe, and the relation of generation and deaths.     *)
PipeType ==
  /\ wire \in Seq(Frames \cup Responses) /\ reads \subseteq StatusFrames
  /\ queue \in Seq([frame : Frames, gen : Nat])

GenerationInv == gen = crashes + (IF conn <=> Up THEN 0 ELSE IF conn THEN 0 - 1 ELSE 1)

(* A request lives in one place; nothing is in flight of a dead Service,   *)
(* and until a respawned one is asked about the plans left over, only      *)
(* plans dispatched to itself are in its inbox.                            *)
ProcessInv ==
  /\ ~conn => wire = <<>>
  /\ ~Up => inbox = {} /\ answering = {} /\ asking = {} /\ reads = {}
  /\ conn /\ bootReady => inbox \subseteq waiting

(* The Service has taken p from its inbox, and will not find it there again. *)
Sent(p) == ui[p] # "new" /\ p \notin inbox

(* The journal does not and will not hold p. *)
Gone(p) == Sent(p) /\ jobs[p] \in {"absent", "deleted"}

Unanswered(p) == p \notin asked /\ \A m \in replies : m.plan # p

RequestInv ==
  \A p \in Plans :
    /\ ui[p] = "new" => p \notin inbox
    /\ ui[p] = "new" \/ p \in inbox => jobs[p] = "absent"
    /\ ui[p] = "new" \/ p \in waiting => Unanswered(p)
    /\ p \in waiting => ui[p] \in {"pending", "completed"}
    /\ p \in handling \cup answering \cup asking \/ AckFrame(p) \in Range(wire) => Sent(p)

(* Whatever makes the UI roll p back is said of a plan that is gone. *)
RefusalInv ==
  \A p \in Plans :
    \/ ErrorFrame(p) \in Range(wire)
    \/ StatusFrame(p, "not_found") \in Range(wire) \cup reads
    \/ Dispatched(p, "failed") \in replies \/ Resolved(p, "not_found") \in replies
    \/ ui[p] = "reverted"
    => Gone(p)

(* An outcome on its way to the UI, or shown by it, is the stored one. *)
Stored(o, b) == outcome[o] = b \/ jobs[o[1]] = "deleted"

StoredInv ==
  \A o \in Op, b \in Blobs :
    \/ OutcomeFrame(o, b) \in Range(wire)
    \/ \E i \in DOMAIN queue : queue[i].frame = OutcomeFrame(o, b)
    \/ shown[o] = b
    => Stored(o, b)

(* The stream of the present generation: the queue's part, then the pipe.   *)
(* A completion in it comes after the outcome of each operation, unless     *)
(* that one is already shown or the plan settled.                           *)
Known(o) == shown[o] \in Blobs \/ ui[o[1]] \in Settled

InQueue(o, n) ==
  \E i \in DOMAIN queue, b \in Blobs :
    i < n /\ queue[i].gen = gen /\ queue[i].frame = OutcomeFrame(o, b)

InWire(o, n) ==
  \E i \in DOMAIN wire, b \in Blobs : i < n /\ wire[i] = OutcomeFrame(o, b)

QueuedAll(o) == InQueue(o, Len(queue) + 1)

Whole(p) == faults = 0 /\ jobs[p] # "deleted"

StreamOf(o) ==
  /\ \A i \in DOMAIN queue :
       queue[i].gen = gen /\ queue[i].frame = CompletedFrame(o[1]) => Known(o) \/ InQueue(o, i)
  /\ \A i \in DOMAIN wire :
       wire[i] = CompletedFrame(o[1]) => Known(o) \/ QueuedAll(o) \/ InWire(o, i)
  /\ conn /\ Up => \A b \in Blobs :
       OutcomeFrame(o, b) \in emitted =>
         Known(o) \/ QueuedAll(o) \/ InWire(o, Len(wire) + 1)

StreamInv ==
  /\ \A o \in Op : Whole(o[1]) => StreamOf(o)
  /\ \A o \in Op : shown[o] = "backfill" => ui[o[1]] \in Settled

PipelineInv ==
  /\ JournalInv /\ ContractInv /\ PipelineTypeOK /\ PipeType /\ GenerationInv
  /\ ProcessInv /\ RequestInv /\ RefusalInv /\ StoredInv /\ StreamInv /\ StreamedIsWhole

---------------------------------------------------------------------------
(* Sequences and messages. *)

LEMMA RangeOfLonger ==
  ASSUME NEW S, NEW s \in Seq(S), NEW e \in S
  PROVE  LET t == s \o <<e>>
         IN  /\ t \in Seq(S) /\ Len(t) = Len(s) + 1 /\ t[Len(s) + 1] = e
             /\ \A i \in 1 .. Len(s) : t[i] = s[i]
             /\ Range(t) \subseteq Range(s) \cup {e}
<1> DEFINE t == s \o <<e>>
<1>1. <<e>> \in Seq(S) /\ Len(<<e>>) = 1 /\ <<e>>[1] = e
  OBVIOUS
<1>2. /\ t \in Seq(S) /\ Len(t) = Len(s) + 1
      /\ \A i \in 1 .. Len(s) + 1 : t[i] = IF i <= Len(s) THEN s[i] ELSE <<e>>[i - Len(s)]
  BY <1>1, ConcatProperties
<1>3. Len(s) \in Nat /\ DOMAIN s = 1 .. Len(s) /\ DOMAIN t = 1 .. Len(t)
  BY <1>2, LenProperties
<1> HIDE DEF t
<1>4. t[Len(s) + 1] = e
  BY <1>1, <1>2, <1>3
<1>5. \A i \in 1 .. Len(s) : t[i] = s[i]
  BY <1>2, <1>3
<1>6. \A i \in DOMAIN t : i = Len(s) + 1 \/ i \in DOMAIN s
  BY <1>2, <1>3
<1>7. Range(t) \subseteq Range(s) \cup {e}
  BY <1>3, <1>4, <1>5, <1>6 DEF Range
<1> QED BY <1>2, <1>4, <1>5, <1>7 DEF t

LEMMA RangeOfTail ==
  ASSUME NEW S, NEW s \in Seq(S), s # <<>>
  PROVE  /\ Tail(s) \in Seq(S) /\ Len(Tail(s)) = Len(s) - 1 /\ Len(s) \in Nat \ {0}
         /\ \A i \in 1 .. Len(s) - 1 : Tail(s)[i] = s[i + 1]
         /\ Head(s) = s[1] /\ Head(s) \in S /\ Head(s) \in Range(s)
         /\ Range(Tail(s)) \subseteq Range(s)
<1>1. /\ Tail(s) \in Seq(S) /\ Len(Tail(s)) = Len(s) - 1
      /\ \A i \in 1 .. Len(s) - 1 : Tail(s)[i] = s[i + 1]
      /\ Len(s) \in Nat \ {0} /\ Head(s) \in S
  BY HeadTailProperties, EmptySeq
<1>2. DOMAIN s = 1 .. Len(s) /\ DOMAIN Tail(s) = 1 .. Len(Tail(s))
  BY <1>1, LenProperties
<1>3. Head(s) = s[1] /\ 1 \in DOMAIN s
  BY <1>1, <1>2
<1>4. \A i \in DOMAIN Tail(s) : Tail(s)[i] = s[i + 1] /\ i + 1 \in DOMAIN s
  BY <1>1, <1>2
<1> QED BY <1>1, <1>3, <1>4 DEF Range

(* A frame says what kind it is. *)
LEMMA FrameKinds ==
  ASSUME NEW p, NEW q, NEW o, NEW b, NEW s
  PROVE  /\ AckFrame(p).type = "ack" /\ AckFrame(p).plan = p
         /\ ErrorFrame(p).type = "error" /\ ErrorFrame(p).plan = p
         /\ StatusFrame(p, s).type = "status" /\ StatusFrame(p, s).plan = p
         /\ StatusFrame(p, s).status = s
         /\ OutcomeFrame(o, b).type = "outcome" /\ OutcomeFrame(o, b).op = o
         /\ OutcomeFrame(o, b).blob = b
         /\ CompletedFrame(p).type = "completed" /\ CompletedFrame(p).plan = p
         /\ Dispatched(p, s).type = "dispatched" /\ Dispatched(p, s).plan = p
         /\ Dispatched(p, s).result = s
         /\ Resolved(p, s).type = "resolved" /\ Resolved(p, s).plan = p
         /\ Resolved(p, s).result = s
BY DEF AckFrame, ErrorFrame, StatusFrame, OutcomeFrame, CompletedFrame, Dispatched, Resolved

LEMMA FrameCases ==
  ASSUME NEW f \in Frames \cup Responses
  PROVE  /\ f.type \in {"ack", "error", "status"} => f \in Responses /\ f.plan \in Plans
         /\ f.type = "ack" => f = AckFrame(f.plan)
         /\ f.type = "error" => f = ErrorFrame(f.plan)
         /\ f.type = "status" => f = StatusFrame(f.plan, f.status) /\ f.status \in Statuses
         /\ f.type = "outcome" => f \in Frames /\ f = OutcomeFrame(f.op, f.blob)
                                  /\ f.op \in Op /\ f.blob \in Blobs
         /\ f.type = "completed" => f \in Frames /\ f = CompletedFrame(f.plan) /\ f.plan \in Plans
         /\ f.type \in {"ack", "error", "status", "outcome", "completed"}
         /\ f \in Frames <=> f.type \in {"outcome", "completed"}
<1>1. CASE \E p \in Plans : f = AckFrame(p)
  BY <1>1, FrameKinds DEF Responses, Frames
<1>2. CASE \E p \in Plans : f = ErrorFrame(p)
  BY <1>2, FrameKinds DEF Responses, Frames
<1>3. CASE \E p \in Plans, s \in Statuses : f = StatusFrame(p, s)
  BY <1>3, FrameKinds DEF Responses, StatusFrames, Frames
<1>4. CASE \E o \in Op, b \in Blobs : f = OutcomeFrame(o, b)
  BY <1>4, FrameKinds DEF Frames
<1>5. CASE \E p \in Plans : f = CompletedFrame(p)
  BY <1>5, FrameKinds DEF Frames
<1> QED BY <1>1, <1>2, <1>3, <1>4, <1>5 DEF Frames, Responses, StatusFrames

(* What a worker step hands to the pipe is one new frame, or nothing. *)
LEMMA Emission ==
  ASSUME Work
  PROVE  \/ emitted' \subseteq emitted /\ wire' = wire
         \/ \E f \in emitted' \ emitted : Written(<<f>>)
<1> DEFINE new == emitted' \ emitted
<1>1. Written(IF new = {} THEN <<>> ELSE <<CHOOSE f \in new : TRUE>>)
  BY DEF Work
<1>2. CASE new = {}
  BY <1>1, <1>2 DEF Written
<1>3. CASE new # {}
  BY <1>1, <1>3
<1> QED BY <1>2, <1>3

(* Every step of the pipeline is one of the journal's, or leaves it alone. *)
LEMMA JournalPart ==
  ASSUME [PipelineNext]_pipelineVars
  PROVE  [Next]_vars
BY DEF PipelineNext, pipelineVars, UIStep, HandleRequest, Reconcile, ServiceNotification,
       ActionDispatched, JobStatusResolved, Accept, Reject, Notify, Ack, ReadStatus,
       AnswerStatus, Work, Administer, ReadResponse, ReadNotification, HandleCrash, Die,
       Respawn, Dispatch, Timeout, Next, HandlerStep

---------------------------------------------------------------------------
(* Types. *)

LEMMA TypeParts ==
  ASSUME PipelineInv
  PROVE  /\ ui \in [Plans -> {"new"} \cup PlanStates \cup Settled]
         /\ shown \in [Op -> Blobs \cup {"null", "backfill"}]
         /\ conn \in BOOLEAN /\ bootReady \in BOOLEAN /\ gen \in Nat /\ crashes \in 0..MaxCrashes
         /\ waiting \subseteq Plans /\ asked \subseteq Plans /\ replies \subseteq Messages
         /\ inbox \subseteq Plans /\ answering \subseteq Plans /\ asking \subseteq Plans
         /\ wire \in Seq(Frames \cup Responses) /\ reads \subseteq StatusFrames
         /\ queue \in Seq([frame : Frames, gen : Nat])
         /\ timeouts \in 0..MaxTimeouts /\ MaxTimeouts \in Nat /\ MaxCrashes \in Nat
         /\ emitted \subseteq Frames
         /\ \A i \in DOMAIN queue : queue[i].frame \in Frames /\ queue[i].gen \in 0..gen
BY BoundAssumption, TimeoutAssumption DEF PipelineInv, PipelineTypeOK, PipeType, JournalInv, TypeOK

LEMMA MessageFacts ==
  ASSUME NEW p \in Plans
  PROVE  /\ \A r \in {"acked", "unknown", "failed"} : Dispatched(p, r) \in Messages
         /\ \A r \in {"terminal", "in_flight", "not_found", "error"} : Resolved(p, r) \in Messages
         /\ CutOff = "unknown"
BY DEF Messages, CutOff

(* Settle writes a state of a tracked plan, and only that. *)
LEMMA SettleFacts ==
  ASSUME NEW p \in Plans, NEW s \in PlanStates \cup Settled, Settle(p, s),
         ui \in [Plans -> {"new"} \cup PlanStates \cup Settled]
  PROVE  /\ ui' \in [Plans -> {"new"} \cup PlanStates \cup Settled]
         /\ \A q \in Plans : ui'[q] = IF q = p /\ ui[p] \in PlanStates THEN s ELSE ui[q]
BY DEF Settle

LEMMA CompleteFacts ==
  ASSUME NEW p \in Plans, NEW s \in Settled, CompletePlan(p, s),
         ui \in [Plans -> {"new"} \cup PlanStates \cup Settled],
         shown \in [Op -> Blobs \cup {"null", "backfill"}]
  PROVE  /\ ui' \in [Plans -> {"new"} \cup PlanStates \cup Settled]
         /\ \A q \in Plans : ui'[q] = IF q = p /\ ui[p] \in PlanStates THEN s ELSE ui[q]
         /\ shown' \in [Op -> Blobs \cup {"null", "backfill"}]
         /\ \A o \in Op : shown'[o] = IF o[1] = p /\ ui[p] \in PlanStates /\ shown[o] = "null"
                                      THEN "backfill" ELSE shown[o]
<1>1. Settle(p, s)
  BY DEF CompletePlan
<1>2. shown' = [o \in Op |-> IF o[1] = p /\ ui[p] \in PlanStates /\ shown[o] = "null"
                             THEN "backfill" ELSE shown[o]]
  BY DEF CompletePlan
<1> QED BY <1>1, <1>2, SettleFacts

(* What the UI does with a message: which plan it concerns, and how the    *)
(* plan and the outcomes shown for it change.                              *)
Concludes(p, s) ==
  \A q \in Plans : ui'[q] = IF q = p /\ ui[p] \in PlanStates THEN s ELSE ui[q]

Backfills(p) ==
  \A o \in Op : shown'[o] = IF o[1] = p /\ ui[p] \in PlanStates /\ shown[o] = "null"
                            THEN "backfill" ELSE shown[o]

LEMMA DispatchedFacts ==
  ASSUME PipelineInv, NEW p \in Plans, ActionDispatched(p)
  PROVE  /\ ui' \in [Plans -> {"new"} \cup PlanStates \cup Settled] /\ UNCHANGED shown
         /\ \E r \in {"acked", "unknown", "failed"} :
              /\ Dispatched(p, r) \in replies /\ replies' = replies \ {Dispatched(p, r)}
              /\ Concludes(p, IF r = "failed" THEN "reverted" ELSE r)
<1>1. PICK r \in {"acked", "unknown", "failed"} :
         /\ Dispatched(p, r) \in replies /\ replies' = replies \ {Dispatched(p, r)}
         /\ Settle(p, IF r = "failed" THEN "reverted" ELSE r)
  BY DEF ActionDispatched
<1>2. (IF r = "failed" THEN "reverted" ELSE r) \in PlanStates \cup Settled
  BY DEF PlanStates, Settled
<1>3. UNCHANGED shown
  BY DEF ActionDispatched
<1>4. /\ ui' \in [Plans -> {"new"} \cup PlanStates \cup Settled]
      /\ Concludes(p, IF r = "failed" THEN "reverted" ELSE r)
  BY <1>1, <1>2, SettleFacts, TypeParts DEF Concludes
<1> QED BY <1>1, <1>3, <1>4

LEMMA ResolvedFacts ==
  ASSUME PipelineInv, NEW p \in Plans, JobStatusResolved(p)
  PROVE  /\ ui' \in [Plans -> {"new"} \cup PlanStates \cup Settled]
         /\ shown' \in [Op -> Blobs \cup {"null", "backfill"}]
         /\ \E r \in {"terminal", "in_flight", "not_found", "error"} :
              /\ Resolved(p, r) \in replies /\ replies' = replies \ {Resolved(p, r)}
              /\ \/ r = "terminal" /\ Concludes(p, "reconciled") /\ Backfills(p)
                 \/ r = "in_flight" /\ Concludes(p, "acked") /\ UNCHANGED shown
                 \/ r = "not_found" /\ Concludes(p, "reverted") /\ UNCHANGED shown
                 \/ r = "error" /\ UNCHANGED <<ui, shown>>
<1> USE TypeParts DEF Concludes
<1>1. PICK r \in {"terminal", "in_flight", "not_found", "error"} :
         /\ Resolved(p, r) \in replies /\ replies' = replies \ {Resolved(p, r)}
         /\ CASE r = "terminal" -> CompletePlan(p, "reconciled")
              [] r = "in_flight" -> Settle(p, "acked") /\ UNCHANGED shown
              [] r = "not_found" -> Settle(p, "reverted") /\ UNCHANGED shown
              [] r = "error" -> UNCHANGED tracked
  BY DEF JobStatusResolved
<1>2. CASE r = "terminal"
  <2>1. CompletePlan(p, "reconciled") /\ "reconciled" \in Settled
    BY <1>1, <1>2 DEF Settled
  <2> QED BY <1>1, <1>2, <2>1, CompleteFacts DEF Backfills
<1>3. CASE r = "in_flight"
  <2>1. Settle(p, "acked") /\ UNCHANGED shown /\ "acked" \in PlanStates
    BY <1>1, <1>3 DEF PlanStates
  <2> QED BY <1>1, <1>3, <2>1, SettleFacts
<1>4. CASE r = "not_found"
  <2>1. Settle(p, "reverted") /\ UNCHANGED shown /\ "reverted" \in Settled
    BY <1>1, <1>4 DEF Settled
  <2> QED BY <1>1, <1>4, <2>1, SettleFacts
<1>5. CASE r = "error"
  BY <1>1, <1>5 DEF tracked
<1> QED BY <1>1, <1>2, <1>3, <1>4, <1>5

(* A notification of the present generation is applied. *)
LEMMA NotificationFacts ==
  ASSUME PipelineInv, ServiceNotification
  PROVE  /\ ui' \in [Plans -> {"new"} \cup PlanStates \cup Settled]
         /\ shown' \in [Op -> Blobs \cup {"null", "backfill"}]
         /\ queue # <<>> /\ queue' = Tail(queue) /\ Head(queue).frame \in Frames
         /\ \/ Head(queue).gen # gen /\ UNCHANGED <<ui, shown>>
            \/ /\ Head(queue).gen = gen /\ UNCHANGED ui
               /\ \E o \in Op, b \in Blobs :
                    /\ Head(queue).frame = OutcomeFrame(o, b)
                    /\ shown' = IF ui[o[1]] \in PlanStates /\ shown[o] = "null"
                                THEN [shown EXCEPT ![o] = b] ELSE shown
            \/ /\ Head(queue).gen = gen
               /\ \E p \in Plans : /\ Head(queue).frame = CompletedFrame(p)
                                   /\ Concludes(p, "completed") /\ Backfills(p)
<1> DEFINE f == Head(queue).frame
<1>0. queue # <<>> /\ queue' = Tail(queue)
  BY DEF ServiceNotification
<1>1. f \in Frames
  BY <1>0, TypeParts, RangeOfTail
<1>2. CASE Head(queue).gen # gen
  BY <1>0, <1>1, <1>2, TypeParts DEF ServiceNotification, tracked
<1>3. CASE Head(queue).gen = gen /\ f.type = "outcome"
  <2>1. f = OutcomeFrame(f.op, f.blob) /\ f.op \in Op /\ f.blob \in Blobs
    BY <1>1, <1>3, FrameCases
  <2>2. /\ shown' = IF ui[f.op[1]] \in PlanStates /\ shown[f.op] = "null"
                    THEN [shown EXCEPT ![f.op] = f.blob] ELSE shown
        /\ UNCHANGED ui
    BY <1>3 DEF ServiceNotification
  <2>3. shown' \in [Op -> Blobs \cup {"null", "backfill"}]
    BY <2>1, <2>2, TypeParts
  <2> QED BY <1>0, <1>1, <1>3, <2>1, <2>2, <2>3, TypeParts
<1>4. CASE Head(queue).gen = gen /\ f.type = "completed"
  <2>1. f = CompletedFrame(f.plan) /\ f.plan \in Plans /\ "completed" \in Settled
    BY <1>1, <1>4, FrameCases DEF Settled
  <2>2. CompletePlan(f.plan, "completed")
    BY <1>4 DEF ServiceNotification
  <2> QED BY <1>0, <1>1, <1>4, <2>1, <2>2, TypeParts, CompleteFacts DEF Concludes, Backfills
<1> QED BY <1>1, <1>2, <1>3, <1>4, FrameCases

(* Writing one frame to the pipe. *)
LEMMA WriteFacts ==
  ASSUME PipelineInv, NEW f \in Frames \cup Responses, Written(<<f>>)
  PROVE  /\ wire' \in Seq(Frames \cup Responses) /\ Range(wire') \subseteq Range(wire) \cup {f}
         /\ ~conn => wire' = wire
         /\ conn => /\ Len(wire') = Len(wire) + 1 /\ wire'[Len(wire) + 1] = f
                    /\ \A i \in 1 .. Len(wire) : wire'[i] = wire[i]
<1>1. CASE conn
  BY <1>1, TypeParts, RangeOfLonger DEF Written
<1>2. CASE ~conn
  BY <1>2, TypeParts DEF Written
<1> QED BY <1>1, <1>2

LEMMA WorkFacts ==
  ASSUME PipelineInv, Work
  PROVE  \/ emitted' \subseteq emitted /\ wire' = wire
         \/ \E f \in Frames : f \in emitted' \ emitted /\ Written(<<f>>)
<1>1. [Next]_vars
  BY DEF Work, Next
<1>2. JournalInv'
  BY <1>1, JournalStep DEF PipelineInv
<1>3. emitted' \subseteq Frames
  BY <1>2 DEF JournalInv, TypeOK
<1> QED BY <1>3, Emission

(* The pipe and the queue hold frames. *)
LEMMA PipeStep ==
  ASSUME PipelineInv, [PipelineNext]_pipelineVars
  PROVE  PipeType'
<1> USE TypeParts DEF PipeType, client, handlers, tracked
<1>1. CASE UNCHANGED <<wire, queue, reads>>
  BY <1>1
<1>2. ASSUME NEW p \in Plans, Reject(p) \/ Ack(p) PROVE PipeType'
  <2>1. PICK f \in Responses : Written(<<f>>)
    BY <1>2 DEF Reject, Ack, Responses
  <2>2. wire' \in Seq(Frames \cup Responses)
    BY <2>1, WriteFacts
  <2> QED BY <1>2, <2>2 DEF Reject, Ack
<1>3. ASSUME NEW p \in Plans, ReadStatus(p) PROVE PipeType'
  <2>1. StatusFrame(p, JobStatusOf(p)) \in StatusFrames
    BY DEF JobStatusOf, StatusFrames, Statuses
  <2> QED BY <1>3, <2>1 DEF ReadStatus
<1>4. CASE AnswerStatus
  <2>1. PICK f \in reads : reads' = reads \ {f} /\ Written(<<f>>)
    BY <1>4 DEF AnswerStatus
  <2>2. f \in Frames \cup Responses
    BY DEF Responses
  <2>3. wire' \in Seq(Frames \cup Responses)
    BY <2>1, <2>2, WriteFacts
  <2> QED BY <1>4, <2>1, <2>3 DEF AnswerStatus
<1>5. CASE Work
  <2>1. wire' \in Seq(Frames \cup Responses)
    BY <1>5, WorkFacts, WriteFacts
  <2> QED BY <1>5, <2>1 DEF Work
<1>6. CASE ReadResponse
  BY <1>6, RangeOfTail DEF ReadResponse
<1>7. CASE ReadNotification
  <2>1. /\ wire # <<>> /\ wire' = Tail(wire) /\ UNCHANGED reads
        /\ queue' = Append(queue, [frame |-> Head(wire), gen |-> gen])
        /\ Head(wire).type \in {"outcome", "completed"}
    BY <1>7 DEF ReadNotification
  <2>2. Tail(wire) \in Seq(Frames \cup Responses) /\ Head(wire) \in Frames
    BY <2>1, RangeOfTail, FrameCases
  <2>3. [frame |-> Head(wire), gen |-> gen] \in [frame : Frames, gen : Nat]
    BY <2>2
  <2> QED BY <2>1, <2>2, <2>3, AppendProperties
<1>8. CASE HandleCrash
  <2>1. wire' \in Seq(Frames \cup Responses)
    BY <1>8, EmptySeq DEF HandleCrash
  <2> QED BY <1>8, <2>1 DEF HandleCrash
<1>9. CASE Die
  BY <1>9 DEF Die
<1>10. CASE ServiceNotification
  <2>0. queue # <<>> /\ queue' = Tail(queue)
    BY <1>10 DEF ServiceNotification
  <2>1. queue' \in Seq([frame : Frames, gen : Nat])
    BY <2>0, HeadTailProperties
  <2> QED BY <1>10, <2>1 DEF ServiceNotification
<1> QED BY <1>1, <1>2, <1>3, <1>4, <1>5, <1>6, <1>7, <1>8, <1>9, <1>10
        DEF PipelineNext, pipelineVars, UIStep, HandleRequest, Reconcile, ActionDispatched,
            JobStatusResolved, Accept, Notify, Administer, Respawn, Dispatch, Timeout

(* Deaths, generations, and what a dead Service still holds. *)
LEMMA DeathFacts ==
  ASSUME PipelineInv, [PipelineNext]_pipelineVars
  PROVE  \/ (Up' <=> Up) /\ crashes' = crashes /\ conn' = conn /\ gen' = gen
         \/ HandleCrash /\ (Up' <=> Up) /\ crashes' = crashes
         \/ Die /\ Up /\ ~Up' /\ crashes' = crashes + 1 /\ conn' = conn /\ gen' = gen
         \/ Respawn /\ ~conn /\ conn' /\ ~Up /\ Up' /\ crashes' = crashes /\ gen' = gen
<1> USE DEF Up, client, handlers, tracked
<1>1. ASSUME WorkerStep
      PROVE  pc # "down" /\ pc' # "down" /\ crashes' = crashes
  BY <1>1 DEF WorkerStep, ReplayRead, ReplayOne, ReplayDone, SweepRead, SweepOne, SweepDone,
       LeaseOp, LeaseNone, Execute, Persist, PersistFails, PersistFallback, FallbackFails,
       EmitOutcome, FinalizeSkips, FinalizeJob, EmitCompleted, LeaseQuietJob, LeaseQuietNone,
       RunQuietJob, FinalizeQuietJob, QuietFallback, EmitQuietCompleted, Wake, Return,
       DbError, budget
<1>2. CASE Respawn
  <2>1. Boot /\ ~conn /\ conn' = TRUE /\ gen' = gen
    BY <1>2 DEF Respawn
  <2>2. pc = "down" /\ pc' = "start" /\ crashes' = crashes
    BY <2>1 DEF Boot, DbError, budget
  <2> QED BY <1>2, <2>1, <2>2
<1>3. CASE Die
  BY <1>3 DEF Die, Crash
<1>4. CASE HandleCrash
  BY <1>4 DEF HandleCrash, vars, worker, budget
<1>5. CASE UNCHANGED vars /\ UNCHANGED <<conn, gen>>
  BY <1>5 DEF vars, worker, budget
<1>6. ASSUME NEW p \in Plans, Accept(p) \/ Notify(p)
      PROVE  UNCHANGED <<pc, crashes, conn, gen>>
  BY <1>6 DEF Accept, Notify, InsertPlan, NotifyWorker, worker, budget
<1>7. CASE Administer
  BY <1>7 DEF Administer, Kick, DeleteAccount, worker, budget
<1>8. CASE Work
  BY <1>1, <1>8 DEF Work
<1> QED BY <1>2, <1>3, <1>4, <1>5, <1>6, <1>7, <1>8
        DEF PipelineNext, pipelineVars, UIStep, HandleRequest, Reconcile, ServiceNotification,
            ActionDispatched, JobStatusResolved, Reject, Ack, ReadStatus, AnswerStatus,
            ReadResponse, ReadNotification, Dispatch, Timeout

LEMMA GenerationStep ==
  ASSUME PipelineInv, [PipelineNext]_pipelineVars
  PROVE  GenerationInv' /\ gen' \in Nat /\ gen' <= MaxCrashes + 1 /\ gen' >= gen
<1> USE TypeParts DEF GenerationInv
<1>0. GenerationInv /\ crashes \in Nat /\ crashes' \in 0..MaxCrashes
  <2>1. JournalInv'
    BY JournalPart, JournalStep DEF PipelineInv
  <2> QED BY <2>1 DEF PipelineInv, JournalInv, TypeOK
<1>1. CASE (Up' <=> Up) /\ crashes' = crashes /\ conn' = conn /\ gen' = gen
  BY <1>0, <1>1
<1>2. CASE HandleCrash /\ (Up' <=> Up) /\ crashes' = crashes
  BY <1>0, <1>2 DEF HandleCrash
<1>3. CASE Die /\ Up /\ ~Up' /\ crashes' = crashes + 1 /\ conn' = conn /\ gen' = gen
  BY <1>0, <1>3
<1>4. CASE Respawn /\ ~conn /\ conn' /\ ~Up /\ Up' /\ crashes' = crashes /\ gen' = gen
  BY <1>0, <1>4
<1> QED BY <1>1, <1>2, <1>3, <1>4, DeathFacts

(* A response resolves the request that waits for it. *)
LEMMA ResponseFacts ==
  ASSUME PipelineInv, ReadResponse
  PROVE  /\ wire # <<>> /\ wire' = Tail(wire) /\ conn /\ Range(wire') \subseteq Range(wire)
         /\ \E p \in Plans :
              \/ /\ p \in waiting /\ waiting' = waiting \ {p} /\ UNCHANGED asked
                 /\ \/ /\ Head(wire) = AckFrame(p) /\ AckFrame(p) \in Range(wire)
                       /\ replies' = replies \cup {Dispatched(p, "acked")}
                    \/ /\ Head(wire) = ErrorFrame(p) /\ ErrorFrame(p) \in Range(wire)
                       /\ replies' = replies \cup {Dispatched(p, "failed")}
              \/ /\ p \in asked /\ asked' = asked \ {p} /\ UNCHANGED waiting
                 /\ \E s \in Statuses :
                      /\ Head(wire) = StatusFrame(p, s) /\ StatusFrame(p, s) \in Range(wire)
                      /\ replies' = replies \cup {Resolved(p, s)}
              \/ Head(wire) \notin Frames /\ UNCHANGED <<waiting, asked, replies>>
<1> DEFINE f == Head(wire)  p == f.plan
<1>1. wire # <<>> /\ wire' = Tail(wire) /\ conn
  BY DEF ReadResponse
<1>2. f \in Frames \cup Responses /\ f \in Range(wire) /\ Range(wire') \subseteq Range(wire)
  BY <1>1, TypeParts, RangeOfTail
<1>3. CASE /\ f.type \in {"ack", "error"} /\ p \in waiting
           /\ waiting' = waiting \ {p} /\ UNCHANGED asked
           /\ replies' = replies \cup {Dispatched(p, IF f.type = "ack" THEN "acked" ELSE "failed")}
  <2>1. p \in Plans
    BY <1>2, <1>3, FrameCases
  <2>2. CASE f.type = "ack"
    BY <1>1, <1>2, <1>3, <2>1, <2>2, FrameCases
  <2>3. CASE f.type = "error"
    BY <1>1, <1>2, <1>3, <2>1, <2>3, FrameCases
  <2> QED BY <1>3, <2>2, <2>3
<1>4. CASE /\ f.type = "status" /\ p \in asked
           /\ asked' = asked \ {p} /\ UNCHANGED waiting
           /\ replies' = replies \cup {Resolved(p, f.status)}
  <2>1. p \in Plans /\ f.status \in Statuses /\ f = StatusFrame(p, f.status)
    BY <1>2, <1>4, FrameCases
  <2> QED BY <1>1, <1>2, <1>4, <2>1
<1>5. CASE /\ f.type \in {"ack", "error", "status"}
           /\ UNCHANGED <<waiting, asked, replies>>
  BY <1>1, <1>2, <1>5, FrameCases
<1> QED BY <1>3, <1>4, <1>5 DEF ReadResponse

(* The variables of the UI and of the client keep their types. *)
LEMMA PipelineTypeStep ==
  ASSUME PipelineInv, [PipelineNext]_pipelineVars
  PROVE  PipelineTypeOK'
<1> USE DEF client, handlers, tracked
<1>1. ui' \in [Plans -> {"new"} \cup PlanStates \cup Settled]
  <2>1. ASSUME NEW p \in Plans, Dispatch(p)
        PROVE  ui' \in [Plans -> {"new"} \cup PlanStates \cup Settled]
    BY <2>1, TypeParts DEF Dispatch, PlanStates
  <2>2. UNCHANGED ui => ui' \in [Plans -> {"new"} \cup PlanStates \cup Settled]
    BY TypeParts
  <2> QED BY <2>1, <2>2, DispatchedFacts, ResolvedFacts, NotificationFacts
          DEF PipelineNext, pipelineVars, UIStep, HandleRequest, Reconcile, Accept, Reject,
              Notify, Ack, ReadStatus, AnswerStatus, Work, Administer, ReadResponse,
              ReadNotification, HandleCrash, Die, Respawn, Timeout
<1>2. shown' \in [Op -> Blobs \cup {"null", "backfill"}]
  <2>1. UNCHANGED shown => shown' \in [Op -> Blobs \cup {"null", "backfill"}]
    BY TypeParts
  <2> QED BY <2>1, ResolvedFacts, NotificationFacts
          DEF PipelineNext, pipelineVars, UIStep, HandleRequest, Reconcile, Accept, Reject,
              ActionDispatched, Notify, Ack, ReadStatus, AnswerStatus, Work, Administer,
              ReadResponse, ReadNotification, HandleCrash, Die, Respawn, Dispatch, Timeout
<1>3. conn' \in BOOLEAN /\ bootReady' \in BOOLEAN
  <2>1. conn' = conn \/ conn' = TRUE \/ conn' = FALSE
    BY DEF PipelineNext, pipelineVars, UIStep, HandleRequest, Reconcile, Accept, Reject,
          ActionDispatched, JobStatusResolved, ServiceNotification, Notify, Ack, ReadStatus,
          AnswerStatus, Work, Administer, ReadResponse, ReadNotification, HandleCrash, Die, Respawn,
          Dispatch, Timeout
  <2>2. bootReady' = bootReady \/ bootReady' = (gen > 0) \/ bootReady' = FALSE
    BY DEF PipelineNext, pipelineVars, UIStep, HandleRequest, Reconcile, Accept, Reject,
          ActionDispatched, JobStatusResolved, ServiceNotification, Notify, Ack, ReadStatus,
          AnswerStatus, Work, Administer, ReadResponse, ReadNotification, HandleCrash, Die, Respawn,
          Dispatch, Timeout
  <2>3. (gen > 0) \in BOOLEAN
    OBVIOUS
  <2> QED BY <2>1, <2>2, <2>3, TypeParts
<1>4. inbox' \subseteq Plans /\ answering' \subseteq Plans /\ asking' \subseteq Plans
  <2>a. ASSUME NEW p \in Plans, Dispatch(p) PROVE inbox' \subseteq inbox \cup {p}
    BY <2>a DEF Dispatch
  <2>b. inbox' \subseteq inbox \/ \E p \in Plans : Dispatch(p)
    BY DEF PipelineNext, pipelineVars, UIStep, HandleRequest, Reconcile, Accept, Reject,
        ActionDispatched, JobStatusResolved, ServiceNotification, Notify, Ack, ReadStatus,
        AnswerStatus, Work, Administer, ReadResponse, ReadNotification, HandleCrash, Die, Respawn,
        Timeout
  <2>1. inbox' \subseteq Plans
    BY <2>a, <2>b, TypeParts
  <2>2. answering' \subseteq Plans
    BY TypeParts
    DEF PipelineNext, pipelineVars, UIStep, HandleRequest, Reconcile, Accept, Reject,
        ActionDispatched, JobStatusResolved, ServiceNotification, Notify, Ack, ReadStatus,
        AnswerStatus, Work, Administer, ReadResponse, ReadNotification, HandleCrash, Die, Respawn,
        Dispatch, Timeout, Unreconciled
  <2>3. asking' \subseteq Plans
    BY TypeParts
    DEF PipelineNext, pipelineVars, UIStep, HandleRequest, Reconcile, Accept, Reject,
        ActionDispatched, JobStatusResolved, ServiceNotification, Notify, Ack, ReadStatus,
        AnswerStatus, Work, Administer, ReadResponse, ReadNotification, HandleCrash, Die, Respawn,
        Dispatch, Timeout, Unreconciled
  <2> QED BY <2>1, <2>2, <2>3
<1>5. waiting' \subseteq Plans /\ asked' \subseteq Plans /\ replies' \subseteq Messages
  <2> DEFINE Goal == waiting' \subseteq Plans /\ asked' \subseteq Plans /\ replies' \subseteq Messages
  <2>1. CASE ReadResponse
    <3>1. \A p \in Plans, s \in Statuses : Resolved(p, s) \in Messages
      BY MessageFacts DEF Statuses
    <3> QED BY <2>1, <3>1, ResponseFacts, TypeParts, MessageFacts
  <2>2. CASE Reconcile
    <3>1. Unreconciled \subseteq Plans
      BY DEF Unreconciled
    <3> QED BY <2>2, <3>1, TypeParts, MessageFacts DEF Reconcile
  <2>3. CASE HandleCrash
    BY <2>3, TypeParts, MessageFacts DEF HandleCrash, CrashReplies
  <2>4. ASSUME NEW p \in Plans, Dispatch(p) \/ Timeout(p) PROVE Goal
    BY <2>4, TypeParts, MessageFacts DEF Dispatch, Timeout
  <2>5. ASSUME NEW p \in Plans, ActionDispatched(p) \/ JobStatusResolved(p) PROVE Goal
    BY <2>5, TypeParts DEF ActionDispatched, JobStatusResolved
  <2>6. CASE UNCHANGED <<waiting, asked, replies>>
    BY <2>6, TypeParts
  <2> QED BY <2>1, <2>2, <2>3, <2>4, <2>5, <2>6
          DEF PipelineNext, pipelineVars, UIStep, HandleRequest, Accept, Reject,
              ServiceNotification, Notify, Ack, ReadStatus, AnswerStatus, Work, Administer,
              ReadNotification, Die, Respawn
<1>6. timeouts' \in 0..MaxTimeouts
  <2>1. timeouts' = timeouts \/ (timeouts < MaxTimeouts /\ timeouts' = timeouts + 1)
    BY DEF PipelineNext, pipelineVars, UIStep, HandleRequest, Reconcile, Accept, Reject,
          ActionDispatched, JobStatusResolved, ServiceNotification, Notify, Ack, ReadStatus,
          AnswerStatus, Work, Administer, ReadResponse, ReadNotification, HandleCrash, Die, Respawn,
          Dispatch, Timeout
  <2> QED BY <2>1, TypeParts
<1>7. gen' \in 0..MaxCrashes + 1 /\ gen' \in Nat /\ gen' >= gen
  BY GenerationStep, TypeParts
<1>8. \A i \in DOMAIN queue' : queue'[i].frame \in Frames /\ queue'[i].gen \in 0..gen'
  <2>0. /\ \A i \in 1 .. Len(queue) : queue[i].frame \in Frames /\ queue[i].gen \in 0..gen'
        /\ DOMAIN queue = 1 .. Len(queue) /\ Len(queue) \in Nat
    <3>1. \A i \in DOMAIN queue : queue[i].frame \in Frames /\ queue[i].gen \in 0..gen
      BY TypeParts
    <3>2. DOMAIN queue = 1 .. Len(queue) /\ Len(queue) \in Nat
      BY TypeParts, LenProperties
    <3>3. gen \in Nat
      BY TypeParts
    <3> QED BY ONLY <1>7, <3>1, <3>2, <3>3
  <2>1. CASE UNCHANGED queue
    BY <2>0, <2>1
  <2>2. CASE ServiceNotification
    <3>1. queue # <<>> /\ queue' = Tail(queue)
      BY <2>2 DEF ServiceNotification
    <3>2. /\ queue' \in Seq([frame : Frames, gen : Nat]) /\ Len(queue') = Len(queue) - 1
          /\ \A i \in 1 .. Len(queue) - 1 : queue'[i] = queue[i + 1]
      BY <3>1, TypeParts, RangeOfTail
    <3>3. DOMAIN queue' = 1 .. Len(queue) - 1
      BY <3>2, LenProperties
    <3> QED BY <2>0, <3>2, <3>3
  <2>3. CASE ReadNotification
    <3> DEFINE e == [frame |-> Head(wire), gen |-> gen]
    <3>1. queue' = Append(queue, e) /\ gen' = gen /\ Head(wire) \in Frames
      BY <2>3, TypeParts, RangeOfTail, FrameCases DEF ReadNotification
    <3>2. e \in [frame : Frames, gen : Nat]
      BY <3>1, TypeParts
    <3>3. /\ queue' \in Seq([frame : Frames, gen : Nat]) /\ Len(queue') = Len(queue) + 1
          /\ \A i \in 1 .. Len(queue) : queue'[i] = queue[i]
          /\ queue'[Len(queue) + 1] = e
      BY <3>1, <3>2, TypeParts, AppendProperties
    <3>4. \A i \in DOMAIN queue' : i \in 1 .. Len(queue) \/ i = Len(queue) + 1
      BY <2>0, <3>3, LenProperties
    <3> QED BY <1>7, <2>0, <3>1, <3>3, <3>4, TypeParts
  <2> QED BY <2>1, <2>2, <2>3
          DEF PipelineNext, pipelineVars, UIStep, HandleRequest, Reconcile, Accept, Reject,
              ActionDispatched, JobStatusResolved, Notify, Ack, ReadStatus, AnswerStatus, Work,
              Administer, ReadResponse, HandleCrash, Die, Respawn, Dispatch, Timeout
<1> QED BY <1>1, <1>2, <1>3, <1>4, <1>5, <1>6, <1>7, <1>8 DEF PipelineTypeOK

---------------------------------------------------------------------------
(* What does not change any more. *)

LEMMA UiFacts ==
  ASSUME PipelineInv, [PipelineNext]_pipelineVars, NEW p \in Plans
  PROVE  \/ ui'[p] = ui[p]
         \/ Dispatch(p) /\ ui[p] = "new" /\ ui'[p] = "pending"
         \/ ui[p] \in PlanStates /\ ui'[p] \in PlanStates \cup Settled
<1> USE TypeParts DEF client, handlers, tracked
<1>1. ASSUME NEW q \in Plans, Dispatch(q)
      PROVE  (q = p /\ ui[p] = "new" /\ ui'[p] = "pending") \/ ui'[p] = ui[p]
  BY <1>1 DEF Dispatch
<1>2. ASSUME NEW q \in Plans, NEW s \in PlanStates \cup Settled, Concludes(q, s)
      PROVE  \/ ui'[p] = ui[p]
             \/ ui[p] \in PlanStates /\ ui'[p] \in PlanStates \cup Settled
  BY <1>2 DEF Concludes
<1>3. {"acked", "unknown", "completed", "reconciled", "reverted"} \subseteq PlanStates \cup Settled
  BY DEF PlanStates, Settled
<1>4. ASSUME NEW q \in Plans, ActionDispatched(q)
      PROVE  \E s \in PlanStates \cup Settled : Concludes(q, s)
  BY <1>3, <1>4, DispatchedFacts
<1>5. ASSUME NEW q \in Plans, JobStatusResolved(q)
      PROVE  UNCHANGED ui \/ \E s \in PlanStates \cup Settled : Concludes(q, s)
  BY <1>3, <1>5, ResolvedFacts
<1>6. CASE ServiceNotification
  BY <1>2, <1>3, <1>6, NotificationFacts
<1> QED BY <1>1, <1>2, <1>4, <1>5, <1>6
        DEF PipelineNext, pipelineVars, UIStep, HandleRequest, Reconcile, Accept, Reject,
            Notify, Ack, ReadStatus, AnswerStatus, Work, Administer, ReadResponse,
            ReadNotification, HandleCrash, Die, Respawn, Timeout

LEMMA JobsFacts ==
  ASSUME PipelineInv, [PipelineNext]_pipelineVars, NEW p \in Plans
  PROVE  \/ jobs'[p] = jobs[p]
         \/ Accept(p) /\ jobs[p] = "absent"
         \/ jobs[p] \notin {"absent", "deleted"} /\ jobs'[p] # "absent"
<1> USE DEF client, handlers, tracked, JobActive, JobTerminal
<1>0. jobs \in [Plans -> JobStates] /\ (pc = "finalize" => target \in Plans)
  BY DEF PipelineInv, JournalInv, TypeOK, HeldInv, Finalizing
<1>1. ASSUME NEW q \in Plans, Accept(q)
      PROVE  (q = p /\ jobs[p] = "absent") \/ jobs'[p] = jobs[p]
  BY <1>0, <1>1 DEF Accept, InsertPlan
<1>2. ASSUME WorkerStep
      PROVE  \/ UNCHANGED jobs
             \/ LeaseQuietJob \/ FinalizeJob \/ FinalizeQuietJob \/ QuietFallback
  BY <1>2 DEF WorkerStep, ReplayRead, ReplayOne, ReplayDone, SweepRead, SweepOne, SweepDone,
       LeaseOp, LeaseNone, Execute, Persist, PersistFails, PersistFallback, FallbackFails,
       EmitOutcome, FinalizeSkips, EmitCompleted, LeaseQuietNone, RunQuietJob,
       EmitQuietCompleted, Wake, db
<1>3. CASE LeaseQuietJob
  <2>1. PICK q \in Plans : jobs[q] = "queued" /\ jobs' = [jobs EXCEPT ![q] = "executing"]
    BY <1>3 DEF LeaseQuietJob, ReadyQuietJobs
  <2> QED BY <1>0, <2>1
<1>4. CASE FinalizeJob
  <2>1. FinalStatus(target) # "absent"
    BY FinalStatusFacts
  <2> QED BY <1>0, <1>4, <2>1 DEF FinalizeJob
<1>5. CASE FinalizeQuietJob
  BY <1>0, <1>5 DEF FinalizeQuietJob, SetJobStatus
<1>6. CASE QuietFallback
  BY <1>0, <1>6 DEF QuietFallback, SetJobStatus
<1>7. CASE Administer
  BY <1>0, <1>7 DEF Administer, Kick, DeleteAccount, db
<1>8. CASE Respawn
  BY <1>0, <1>8 DEF Respawn, Boot, JobsReset
<1>9. CASE Die
  BY <1>9 DEF Die, Crash, db
<1>10. ASSUME NEW q \in Plans, Notify(q) PROVE jobs' = jobs
  BY <1>10 DEF Notify, NotifyWorker, db
<1>11. CASE Work
  BY <1>2, <1>3, <1>4, <1>5, <1>6, <1>11 DEF Work
<1> QED BY <1>1, <1>7, <1>8, <1>9, <1>10, <1>11
        DEF PipelineNext, pipelineVars, vars, db, UIStep, HandleRequest, Reconcile, Reject,
            ActionDispatched, JobStatusResolved, ServiceNotification, Ack, ReadStatus,
            AnswerStatus, ReadResponse, ReadNotification, HandleCrash, Dispatch, Timeout

LEMMA InboxFacts ==
  ASSUME [PipelineNext]_pipelineVars, NEW p \in inbox'
  PROVE  \/ p \in inbox /\ ~Accept(p)
         \/ Dispatch(p) /\ conn /\ Up /\ p \in waiting'
<1> USE DEF client, handlers, tracked
<1>1. ASSUME NEW q \in Plans, Dispatch(q)
      PROVE  p \in inbox \/ (p = q /\ conn /\ Up /\ p \in waiting')
  BY <1>1 DEF Dispatch
<1>2. p \notin inbox => \E q \in Plans : Dispatch(q)
  BY DEF PipelineNext, pipelineVars, UIStep, HandleRequest, Reconcile, Accept, Reject,
      ActionDispatched, JobStatusResolved, ServiceNotification, Notify, Ack, ReadStatus,
      AnswerStatus, Work, Administer, ReadResponse, ReadNotification, HandleCrash, Die, Respawn,
      Timeout
<1>3. ~Accept(p)
  BY DEF Accept
<1> QED BY <1>1, <1>2, <1>3

(* A plan that was sent stays sent, and one that is gone stays gone. *)
LEMMA Stability ==
  ASSUME PipelineInv, [PipelineNext]_pipelineVars, NEW p \in Plans
  PROVE  /\ ui[p] # "new" => ui'[p] # "new"
         /\ Sent(p) => Sent(p)'
         /\ Gone(p) => Gone(p)'
         /\ ui[p] \in Settled => ui'[p] = ui[p]
         /\ jobs[p] = "deleted" => jobs'[p] = "deleted"
         /\ jobs[p] # "absent" => jobs'[p] # "absent"
<1>1. ui[p] # "new" => ui'[p] # "new"
  BY UiFacts DEF PlanStates, Settled
<1>2. ui[p] \in Settled => ui'[p] = ui[p]
  BY UiFacts DEF PlanStates, Settled
<1>3. ASSUME Sent(p) PROVE Sent(p)'
  BY <1>1, <1>3, InboxFacts DEF Sent, Dispatch
<1>4. ASSUME Gone(p) PROVE Gone(p)'
  <2>1. ~Accept(p)
    BY <1>4 DEF Gone, Sent, Accept
  <2> QED BY <1>3, <1>4, <2>1, JobsFacts DEF Gone
<1>5. /\ jobs[p] = "deleted" => jobs'[p] = "deleted"
      /\ jobs[p] # "absent" => jobs'[p] # "absent"
  BY JobsFacts
<1> QED BY <1>1, <1>2, <1>3, <1>4, <1>5

---------------------------------------------------------------------------
(* Requests, refusals and the inbox. *)

(* A plan leaves the set of pending requests answered, or cut off. *)
LEMMA WaitingFacts ==
  ASSUME PipelineInv, [PipelineNext]_pipelineVars, NEW p \in waiting, p \notin waiting'
  PROVE  \/ ReadResponse /\ (AckFrame(p) \in Range(wire) \/ ErrorFrame(p) \in Range(wire))
         \/ Timeout(p) \/ HandleCrash
<1> USE DEF client, handlers, tracked
<1>1. CASE ReadResponse
  BY <1>1, ResponseFacts
<1>2. ASSUME NEW q \in Plans, Timeout(q) PROVE Timeout(p)
  BY <1>2 DEF Timeout
<1>3. ~ReadResponse /\ ~HandleCrash => \E q \in Plans : Timeout(q)
  BY DEF PipelineNext, pipelineVars, UIStep, HandleRequest, Reconcile, Accept, Reject,
      ActionDispatched, JobStatusResolved, ServiceNotification, Notify, Ack, ReadStatus,
      AnswerStatus, Work, Administer, ReadNotification, Die, Respawn, Dispatch
<1> QED BY <1>1, <1>2, <1>3

LEMMA ProcessStep ==
  ASSUME PipelineInv, [PipelineNext]_pipelineVars
  PROVE  ProcessInv'
<1> USE DEF client, handlers, tracked
<1>0. ProcessInv
  BY DEF PipelineInv
<1>1. ASSUME ~conn' PROVE wire' = <<>>
  <2>1. CASE HandleCrash
    BY <2>1 DEF HandleCrash
  <2>2. CASE ~HandleCrash
    <3>1. ~conn
      BY <1>1, <2>2, DeathFacts
    <3>2. UNCHANGED wire
      BY <2>2, <3>1, WorkFacts
      DEF PipelineNext, pipelineVars, UIStep, HandleRequest, Reconcile, Accept, Reject,
          ActionDispatched, JobStatusResolved, ServiceNotification, Notify, Ack, ReadStatus,
          AnswerStatus, Administer, ReadResponse, ReadNotification, Die, Respawn, Dispatch,
          Timeout, Written
    <3> QED BY <1>0, <3>1, <3>2 DEF ProcessInv
  <2> QED BY <2>1, <2>2
<1>2. ASSUME ~Up' PROVE inbox' = {} /\ answering' = {} /\ asking' = {} /\ reads' = {}
  <2>1. CASE Die
    BY <2>1 DEF Die
  <2>2. CASE ~Die
    <3>1. ~Up
      BY <1>2, <2>2, DeathFacts
    <3>2. inbox = {} /\ answering = {} /\ asking = {} /\ reads = {}
      BY <1>0, <3>1 DEF ProcessInv
    <3> QED BY <2>2, <3>1, <3>2
        DEF PipelineNext, pipelineVars, UIStep, HandleRequest, Reconcile, Accept, Reject,
            ActionDispatched, JobStatusResolved, ServiceNotification, Notify, Ack, ReadStatus,
            AnswerStatus, Work, Administer, ReadResponse, ReadNotification, HandleCrash, Respawn,
            Dispatch, Timeout, InsertPlan, NotifyWorker
  <2> QED BY <2>1, <2>2
<1>3. ASSUME conn', bootReady', NEW p \in inbox' PROVE p \in waiting'
  <2>1. CASE Respawn
    <3>1. inbox = {} /\ inbox' = inbox
      BY <1>0, <2>1 DEF ProcessInv, Respawn, Boot, Up
    <3> QED BY <3>1
  <2>2. CASE ~Respawn
    <3>1. conn /\ ~HandleCrash
      BY <1>3, <2>2, DeathFacts DEF HandleCrash
    <3>2. bootReady /\ (\A q \in Plans : ~Timeout(q))
      BY <1>3, <2>2, <3>1
      DEF PipelineNext, pipelineVars, UIStep, HandleRequest, Reconcile, Accept, Reject,
          ActionDispatched, JobStatusResolved, ServiceNotification, Notify, Ack, ReadStatus,
          AnswerStatus, Work, Administer, ReadResponse, ReadNotification, Die,
          Dispatch, Timeout
    <3>3. p \in waiting' \/ (p \in inbox /\ p \in waiting)
      BY <1>0, <3>1, <3>2, InboxFacts DEF ProcessInv
    <3>4. p \in Plans
      BY <3>3, TypeParts, PipelineTypeStep DEF PipelineTypeOK
    <3>5. AckFrame(p) \in Range(wire) \/ ErrorFrame(p) \in Range(wire) => p \notin inbox
      BY <3>4 DEF PipelineInv, RequestInv, RefusalInv, Gone, Sent
    <3> QED BY <3>1, <3>2, <3>3, <3>4, <3>5, WaitingFacts
  <2> QED BY <2>1, <2>2
<1> QED BY <1>1, <1>2, <1>3 DEF ProcessInv

(* The plan a message is about. *)
LEMMA UnansweredStep ==
  ASSUME PipelineInv, [PipelineNext]_pipelineVars, NEW p \in Plans,
         Unanswered(p), p \notin waiting \/ p \in waiting', ui[p] \notin {"acked", "unknown"},
         ~(Dispatch(p) /\ ~conn)
  PROVE  Unanswered(p)'
<1> USE DEF client, handlers, tracked
<1>0. p \notin asked /\ (\A m \in replies : m.plan # p)
  BY DEF Unanswered
<1>1. CASE ReadResponse
  <2>1. PICK q \in Plans :
          /\ q # p \/ UNCHANGED <<asked, replies>>
          /\ asked' \subseteq asked
          /\ \/ UNCHANGED replies
             \/ \E s : replies' = replies \cup {Dispatched(q, s)}
             \/ \E s : replies' = replies \cup {Resolved(q, s)}
    BY <1>0, <1>1, ResponseFacts
  <2> QED BY <1>0, <2>1, FrameKinds DEF Unanswered
<1>2. ASSUME NEW q \in Plans, Timeout(q) PROVE Unanswered(p)'
  <2>1. /\ q # p /\ asked' \subseteq asked
        /\ \/ \E s : replies' = replies \cup {Dispatched(q, s)}
           \/ \E s : replies' = replies \cup {Resolved(q, s)}
    BY <1>0, <1>2 DEF Timeout
  <2> QED BY <1>0, <2>1, FrameKinds DEF Unanswered
<1>3. CASE HandleCrash
  <2>1. p \notin waiting /\ asked' = {} /\ replies' = replies \cup CrashReplies
    BY <1>3 DEF HandleCrash
  <2>2. ASSUME NEW m \in CrashReplies PROVE m.plan # p
    <3>1. CASE \E q \in waiting : m = Dispatched(q, CutOff)
      BY <2>1, <3>1, FrameKinds
    <3>2. CASE \E q \in asked : m = Resolved(q, "error")
      BY <1>0, <3>2, FrameKinds
    <3> QED BY <2>2, <3>1, <3>2 DEF CrashReplies
  <2> QED BY <1>0, <2>1, <2>2 DEF Unanswered
<1>4. CASE Reconcile
  <2>1. p \notin Unreconciled
    BY DEF Unreconciled
  <2>2. /\ asked' \subseteq asked \cup Unreconciled
        /\ replies' \subseteq replies \cup {Resolved(q, "error") : q \in Unreconciled}
    BY <1>4 DEF Reconcile
  <2> QED BY <1>0, <2>1, <2>2, FrameKinds DEF Unanswered
<1>5. ASSUME NEW q \in Plans, Dispatch(q) PROVE Unanswered(p)'
  <2>1. UNCHANGED asked /\ (UNCHANGED replies \/ (q # p /\ replies' = replies \cup {Dispatched(q, "failed")}))
    BY <1>5 DEF Dispatch
  <2> QED BY <1>0, <2>1, FrameKinds DEF Unanswered
<1>6. CASE UNCHANGED asked /\ replies' \subseteq replies
  BY <1>0, <1>6 DEF Unanswered
<1> QED BY <1>1, <1>2, <1>3, <1>4, <1>5, <1>6
        DEF PipelineNext, pipelineVars, UIStep, HandleRequest, Accept, Reject,
            ActionDispatched, JobStatusResolved, ServiceNotification, Notify, Ack, ReadStatus,
            AnswerStatus, Work, Administer, ReadNotification, Die, Respawn

(* Who wrote a frame. *)
LEMMA WireFacts ==
  ASSUME PipelineInv, [PipelineNext]_pipelineVars, NEW f \in Range(wire'), f \notin Range(wire)
  PROVE  \/ \E q \in Plans : Reject(q) /\ f = ErrorFrame(q)
         \/ \E q \in Plans : Ack(q) /\ f = AckFrame(q)
         \/ AnswerStatus /\ f \in reads
         \/ Work /\ f \in emitted' /\ f \notin emitted /\ f \in Frames
<1> USE DEF client, handlers, tracked
<1>1. ASSUME NEW g \in Frames \cup Responses, Written(<<g>>) PROVE f = g
  BY <1>1, WriteFacts
<1>2. ASSUME NEW q \in Plans, Reject(q) \/ Ack(q)
      PROVE  (Reject(q) /\ f = ErrorFrame(q)) \/ (Ack(q) /\ f = AckFrame(q))
  BY <1>1, <1>2 DEF Reject, Ack, Responses
<1>3. CASE AnswerStatus
  <2>1. PICK g \in reads : Written(<<g>>)
    BY <1>3 DEF AnswerStatus
  <2>2. g \in Frames \cup Responses
    BY TypeParts DEF Responses
  <2> QED BY <1>1, <1>3, <2>1, <2>2
<1>4. CASE Work
  BY <1>1, <1>4, WorkFacts
<1>5. CASE ReadResponse \/ ReadNotification
  <2>1. wire # <<>> /\ wire' = Tail(wire)
    BY <1>5 DEF ReadResponse, ReadNotification
  <2> QED BY <2>1, TypeParts, RangeOfTail
<1>6. CASE HandleCrash
  <2>1. wire' = <<>>
    BY <1>6 DEF HandleCrash
  <2> QED BY <2>1 DEF Range
<1> QED BY <1>2, <1>3, <1>4, <1>5, <1>6
    DEF PipelineNext, pipelineVars, UIStep, HandleRequest, Reconcile, Accept,
        ActionDispatched, JobStatusResolved, ServiceNotification, Notify, ReadStatus,
        Administer, Die, Respawn, Dispatch, Timeout

LEMMA KindOfResponse ==
  /\ \A f \in StatusFrames : f.type = "status"
  /\ \A f \in Frames : f.type \in {"outcome", "completed"}
<1>1. \A f \in Frames \cup Responses : f \in Frames <=> f.type \in {"outcome", "completed"}
  BY FrameCases
<1>2. ASSUME NEW f \in StatusFrames PROVE f.type = "status"
  <2>1. PICK p \in Plans, s \in Statuses : f = StatusFrame(p, s)
    BY DEF StatusFrames
  <2> QED BY <2>1, FrameKinds
<1> QED BY <1>1, <1>2

(* Only handlers touch the plans they handle. *)
LEMMA WorkerKeepsHandling ==
  ASSUME WorkerStep
  PROVE  handling' = handling
BY DEF WorkerStep, ReplayRead, ReplayOne, ReplayDone, SweepRead, SweepOne, SweepDone,
       LeaseOp, LeaseNone, Execute, Persist, PersistFails, PersistFallback, FallbackFails,
       EmitOutcome, FinalizeSkips, FinalizeJob, EmitCompleted, LeaseQuietJob, LeaseQuietNone,
       RunQuietJob, FinalizeQuietJob, QuietFallback, EmitQuietCompleted, Wake, signals

LEMMA RequestStep ==
  ASSUME PipelineInv, [PipelineNext]_pipelineVars
  PROVE  RequestInv'
<1> USE DEF client, handlers, tracked
<1> SUFFICES ASSUME NEW p \in Plans
             PROVE  /\ ui'[p] = "new" => p \notin inbox'
                    /\ ui'[p] = "new" \/ p \in inbox' => jobs'[p] = "absent"
                    /\ ui'[p] = "new" \/ p \in waiting' => Unanswered(p)'
                    /\ p \in waiting' => ui'[p] \in {"pending", "completed"}
                    /\ p \in handling' \cup answering' \cup asking' \/ AckFrame(p) \in Range(wire') => Sent(p)'
  BY DEF RequestInv
<1>0. /\ ui[p] = "new" => p \notin inbox
      /\ ui[p] = "new" \/ p \in inbox => jobs[p] = "absent"
      /\ ui[p] = "new" \/ p \in waiting => Unanswered(p)
      /\ p \in waiting => ui[p] \in {"pending", "completed"}
      /\ p \in handling \cup answering \cup asking \/ AckFrame(p) \in Range(wire) => Sent(p)
  BY DEF PipelineInv, RequestInv
<1>1. Dispatch(p) => ui[p] = "new" /\ ui'[p] = "pending" /\ jobs' = jobs
  BY TypeParts DEF Dispatch, vars, db
<1>2. ui'[p] = "new" => ui[p] = "new" /\ ~Dispatch(p)
  BY <1>1, Stability
<1>3. ui'[p] = "new" => p \notin inbox'
  BY <1>0, <1>2, InboxFacts
<1>4. ui'[p] = "new" \/ p \in inbox' => jobs'[p] = "absent"
  <2>1. Accept(p) => p \in inbox
    BY DEF Accept
  <2> QED BY <1>0, <1>1, <1>2, <2>1, InboxFacts, JobsFacts
<1>5. ASSUME p \in waiting', p \notin waiting PROVE Dispatch(p) /\ conn
  <2>1. ASSUME NEW q \in Plans, Dispatch(q) PROVE q = p /\ conn
    BY <1>5, <2>1 DEF Dispatch
  <2>2. CASE ReadResponse
    BY <1>5, <2>2, ResponseFacts
  <2>3. ~ReadResponse => \E q \in Plans : Dispatch(q)
    BY <1>5
    DEF PipelineNext, pipelineVars, UIStep, HandleRequest, Reconcile, Accept, Reject,
        ActionDispatched, JobStatusResolved, ServiceNotification, Notify, Ack, ReadStatus,
        AnswerStatus, Work, Administer, ReadNotification, HandleCrash, Die, Respawn, Timeout
  <2> QED BY <2>1, <2>2, <2>3
<1>6. ui'[p] = "new" \/ p \in waiting' => Unanswered(p)'
  BY <1>0, <1>1, <1>2, <1>5, UnansweredStep
<1>7. ASSUME p \in waiting' PROVE ui'[p] \in {"pending", "completed"}
  <2>1. CASE p \notin waiting
    BY <1>1, <1>5, <1>7, <2>1
  <2>2. CASE p \in waiting
    <3>1. ui[p] \in {"pending", "completed"} /\ (\A m \in replies : m.plan # p)
      BY <1>0, <2>2 DEF Unanswered
    <3>2. ASSUME NEW q \in Plans, ActionDispatched(q) \/ JobStatusResolved(q)
          PROVE  q # p
      <4>1. CASE ActionDispatched(q)
        <5>1. PICK r : Dispatched(q, r) \in replies
          BY <4>1 DEF ActionDispatched
        <5> QED BY <3>1, <5>1 DEF Dispatched
      <4>2. CASE JobStatusResolved(q)
        <5>1. PICK r : Resolved(q, r) \in replies
          BY <4>2 DEF JobStatusResolved
        <5> QED BY <3>1, <5>1 DEF Resolved
      <4> QED BY <3>2, <4>1, <4>2
    <3>3. ASSUME NEW q \in Plans, ActionDispatched(q) PROVE ui'[p] = ui[p]
      BY <3>2, <3>3, DispatchedFacts DEF Concludes
    <3>4. ASSUME NEW q \in Plans, JobStatusResolved(q) PROVE ui'[p] = ui[p]
      BY <3>2, <3>4, ResolvedFacts DEF Concludes
    <3>5. CASE ServiceNotification
      BY <3>1, <3>5, NotificationFacts DEF Concludes
    <3>6. ASSUME NEW q \in Plans, Dispatch(q) PROVE ui'[p] \in {"pending", "completed"}
      BY <3>1, <3>6, TypeParts DEF Dispatch
    <3>7. CASE UNCHANGED ui
      BY <3>1, <3>7
    <3> QED BY <3>1, <3>3, <3>4, <3>5, <3>6, <3>7
        DEF PipelineNext, pipelineVars, UIStep, HandleRequest, Reconcile, Accept, Reject,
            Notify, Ack, ReadStatus, AnswerStatus, Work, Administer, ReadResponse,
            ReadNotification, HandleCrash, Die, Respawn, Timeout
  <2> QED BY <2>1, <2>2
<1>8. ASSUME p \in handling' \cup answering' PROVE Sent(p)'
  <2>1. CASE p \in handling \cup answering
    BY <1>0, <2>1, Stability
  <2>2. CASE p \notin handling \cup answering
    <3>1. ASSUME NEW q \in Plans, Accept(q) PROVE Sent(p)'
      <4>1. p = q
        BY <1>8, <2>2, <3>1 DEF Accept, InsertPlan
      <4>2. p \in inbox /\ p \notin inbox' /\ ui' = ui
        BY <3>1, <4>1 DEF Accept
      <4> QED BY <1>0, <4>2 DEF Sent
    <3>2. ASSUME NEW q \in Plans, Notify(q) PROVE FALSE
      BY <1>8, <2>2, <3>2 DEF Notify, NotifyWorker
    <3>3. WorkerStep => handling' = handling
      BY WorkerKeepsHandling
    <3>4. \/ \E q \in Plans : Accept(q) \/ Notify(q)
          \/ handling' \subseteq handling /\ answering' \subseteq answering
      BY <3>3
      DEF PipelineNext, pipelineVars, vars, signals, UIStep, HandleRequest, Reconcile, Reject,
          ActionDispatched, JobStatusResolved, ServiceNotification, Ack, ReadStatus,
          AnswerStatus, Work, Administer, Kick, DeleteAccount, ReadResponse, ReadNotification,
          HandleCrash, Die, Crash, Respawn, Boot, Dispatch, Timeout
    <3> QED BY <1>8, <2>2, <3>1, <3>2, <3>4
  <2> QED BY <2>1, <2>2
<1>9. ASSUME p \in asking' PROVE Sent(p)'
  <2>1. CASE p \in asking
    BY <1>0, <2>1, Stability
  <2>2. CASE p \notin asking
    <3>1. Reconcile /\ conn /\ bootReady /\ p \in Unreconciled
      BY <1>9, <2>2
      DEF PipelineNext, pipelineVars, UIStep, HandleRequest, Reconcile, Accept, Reject,
          ActionDispatched, JobStatusResolved, ServiceNotification, Notify, Ack, ReadStatus,
          AnswerStatus, Work, Administer, ReadResponse, ReadNotification, HandleCrash, Die,
          Respawn, Dispatch, Timeout
    <3>2. ui[p] \in {"unknown", "acked"} /\ p \notin inbox
      BY <1>0, <3>1 DEF Unreconciled, PipelineInv, ProcessInv
    <3> QED BY <3>2, Stability DEF Sent
  <2> QED BY <2>1, <2>2
<1>10. ASSUME AckFrame(p) \in Range(wire') PROVE Sent(p)'
  <2>1. CASE AckFrame(p) \in Range(wire)
    BY <1>0, <2>1, Stability
  <2>2. CASE AckFrame(p) \notin Range(wire)
    <3>1. AckFrame(p) \notin Frames /\ AckFrame(p) \notin reads
      <4>1. AckFrame(p).type = "ack"
        BY FrameKinds
      <4> QED BY <4>1, KindOfResponse, TypeParts
    <3>a. \A q \in Plans : AckFrame(p) # ErrorFrame(q)
      BY FrameKinds
    <3>2. PICK q \in Plans : Ack(q) /\ AckFrame(p) = AckFrame(q)
      BY <1>10, <2>2, <3>1, <3>a, WireFacts
    <3>3. p \in answering
      BY <3>2, FrameKinds DEF Ack
    <3> QED BY <1>0, <3>3, Stability
  <2> QED BY <2>1, <2>2
<1> QED BY <1>3, <1>4, <1>6, <1>7, <1>8, <1>9, <1>10

(* A refusal reaches the UI only from the Service, or without a child. *)
LEMMA ReplyFacts ==
  ASSUME PipelineInv, [PipelineNext]_pipelineVars, NEW p \in Plans
  PROVE  /\ Dispatched(p, "failed") \in replies' =>
              \/ Dispatched(p, "failed") \in replies \/ ErrorFrame(p) \in Range(wire)
              \/ Dispatch(p) /\ ~conn
         /\ Resolved(p, "not_found") \in replies' =>
              \/ Resolved(p, "not_found") \in replies
              \/ StatusFrame(p, "not_found") \in Range(wire)
<1> USE DEF client, handlers, tracked
<1> DEFINE d == Dispatched(p, "failed")  r == Resolved(p, "not_found")
<1>0. /\ \A q, s : d = Dispatched(q, s) => q = p /\ s = "failed"
      /\ \A q, s : r = Resolved(q, s) => q = p /\ s = "not_found"
      /\ \A q, s : d # Resolved(q, s) /\ r # Dispatched(q, s)
  BY FrameKinds
<1>a. CutOff # "failed"
  BY DEF CutOff
<1> HIDE DEF d, r
<1>1. CASE ReadResponse
  BY <1>0, <1>1, ResponseFacts DEF d, r
<1>2. ASSUME NEW q \in Plans, Timeout(q)
      PROVE  (d \in replies' => d \in replies) /\ (r \in replies' => r \in replies)
  BY <1>0, <1>a, <1>2 DEF Timeout
<1>3. CASE HandleCrash
  <2>1. d \notin CrashReplies /\ r \notin CrashReplies
    BY <1>0, <1>a DEF CrashReplies
  <2> QED BY <1>3, <2>1 DEF HandleCrash, d, r
<1>4. CASE Reconcile
  <2>1. replies' \subseteq replies \cup {Resolved(q, "error") : q \in Unreconciled}
    BY <1>4 DEF Reconcile
  <2> QED BY <1>0, <2>1 DEF d, r
<1>5. ASSUME NEW q \in Plans, Dispatch(q)
      PROVE  /\ d \in replies' => d \in replies \/ (q = p /\ ~conn)
             /\ r \in replies' => r \in replies
  BY <1>0, <1>5 DEF Dispatch
<1>6. CASE replies' \subseteq replies
  BY <1>6 DEF d, r
<1> QED BY <1>1, <1>2, <1>3, <1>4, <1>5, <1>6
        DEF d, r, PipelineNext, pipelineVars, UIStep, HandleRequest, Accept, Reject,
            ActionDispatched, JobStatusResolved, ServiceNotification, Notify, Ack, ReadStatus,
            AnswerStatus, Work, Administer, ReadNotification, Die, Respawn

LEMMA RefusalStep ==
  ASSUME PipelineInv, [PipelineNext]_pipelineVars
  PROVE  RefusalInv'
<1> USE DEF client, handlers, tracked
<1> SUFFICES ASSUME NEW p \in Plans,
                    \/ ErrorFrame(p) \in Range(wire')
                    \/ StatusFrame(p, "not_found") \in Range(wire') \cup reads'
                    \/ Dispatched(p, "failed") \in replies' \/ Resolved(p, "not_found") \in replies'
                    \/ ui'[p] = "reverted"
             PROVE  Gone(p)'
  BY DEF RefusalInv
<1> DEFINE status == StatusFrame(p, "not_found")  error == ErrorFrame(p)
<1>0. /\ \/ error \in Range(wire) \/ status \in Range(wire) \cup reads
         \/ Dispatched(p, "failed") \in replies \/ Resolved(p, "not_found") \in replies
         \/ ui[p] = "reverted"
         => Gone(p)
      /\ p \in asking => Sent(p)
      /\ ui[p] = "new" => p \notin inbox /\ jobs[p] = "absent"
      /\ p \in inbox => jobs[p] = "absent"
  BY DEF PipelineInv, RefusalInv, RequestInv
<1>1. CASE Gone(p)
  BY <1>1, Stability
<1>2. CASE error \in Range(wire') /\ error \notin Range(wire)
  <2>1. error \notin Frames /\ error \notin reads
    <3>1. error.type = "error"
      BY FrameKinds
    <3> QED BY <3>1, KindOfResponse, TypeParts
  <2>2. \A q \in Plans : error # AckFrame(q)
    BY FrameKinds
  <2>3. PICK q \in Plans : Reject(q) /\ error = ErrorFrame(q)
    BY <1>2, <2>1, <2>2, WireFacts
  <2>4. q = p
    BY <2>3, FrameKinds
  <2>5. p \in inbox /\ p \notin inbox' /\ ui' = ui /\ jobs' = jobs
    BY <2>3, <2>4 DEF Reject, vars, db
  <2> QED BY <1>0, <2>5 DEF Gone, Sent
<1>3. CASE status \in Range(wire') /\ status \notin Range(wire)
  <2>1. status \notin Frames
    <3>1. status.type = "status"
      BY FrameKinds
    <3> QED BY <3>1, KindOfResponse
  <2>2. \A q \in Plans : status # AckFrame(q) /\ status # ErrorFrame(q)
    BY FrameKinds
  <2> QED BY <1>0, <1>1, <1>3, <2>1, <2>2, WireFacts
<1>4. CASE status \in reads' /\ status \notin reads
  <2>1. PICK q \in Plans : ReadStatus(q) /\ status = StatusFrame(q, JobStatusOf(q))
    BY <1>4
    DEF PipelineNext, pipelineVars, UIStep, HandleRequest, Reconcile, Accept, Reject,
        ActionDispatched, JobStatusResolved, ServiceNotification, Notify, Ack, ReadStatus,
        AnswerStatus, Work, Administer, ReadResponse, ReadNotification, HandleCrash, Die,
        Respawn, Dispatch, Timeout
  <2>2. q = p /\ JobStatusOf(p) = "not_found"
    BY <2>1, FrameKinds
  <2>3. jobs[p] \in {"absent", "deleted"} /\ p \in asking
    BY <2>1, <2>2 DEF JobStatusOf, ReadStatus
  <2> QED BY <1>0, <1>1, <2>3 DEF Gone
<1>5. CASE Dispatched(p, "failed") \in replies' \/ Resolved(p, "not_found") \in replies'
  <2>1. CASE Dispatch(p) /\ ~conn
    <3>1. ui[p] = "new" /\ ui'[p] = "pending" /\ inbox' = inbox /\ jobs' = jobs
      BY <2>1, TypeParts DEF Dispatch, vars, db
    <3> QED BY <1>0, <3>1 DEF Gone, Sent
  <2> QED BY <1>0, <1>1, <1>5, <2>1, ReplyFacts
<1>6. CASE ui'[p] = "reverted" /\ ui[p] # "reverted"
  <2>1. ASSUME NEW q \in Plans, ActionDispatched(q) PROVE Gone(p)
    BY <1>0, <1>6, <2>1, DispatchedFacts DEF Concludes
  <2>2. ASSUME NEW q \in Plans, JobStatusResolved(q) PROVE Gone(p)
    BY <1>0, <1>6, <2>2, ResolvedFacts DEF Concludes
  <2>3. CASE ServiceNotification
    BY <1>6, <2>3, NotificationFacts DEF Concludes
  <2>4. ASSUME NEW q \in Plans, Dispatch(q) PROVE FALSE
    BY <1>6, <2>4, TypeParts DEF Dispatch
  <2> QED BY <1>1, <1>6, <2>1, <2>2, <2>3, <2>4
      DEF PipelineNext, pipelineVars, UIStep, HandleRequest, Reconcile, Accept, Reject,
          Notify, Ack, ReadStatus, AnswerStatus, Work, Administer, ReadResponse,
          ReadNotification, HandleCrash, Die, Respawn, Timeout
<1> QED BY <1>0, <1>1, <1>2, <1>3, <1>4, <1>5, <1>6

---------------------------------------------------------------------------
(* Outcomes on their way to the UI. *)

(* A stored outcome stays, until the account goes. *)
LEMMA StoredStays ==
  ASSUME JournalInv, [Next]_vars, NEW o \in Op, NEW b \in Blobs, Stored(o, b)
  PROVE  Stored(o, b)'
<1> USE OpFacts DEF JournalInv, TypeOK, Stored, RowInv
<1>0. b # "null" /\ o[1] \in Plans
  BY ResultFacts
<1>1. ASSUME jobs[o[1]] = "deleted" PROVE jobs'[o[1]] = "deleted"
  <2>2. ASSUME NEW p \in Plans, InsertPlan(p) PROVE jobs'[o[1]] = "deleted"
    BY <1>0, <1>1, <2>2 DEF InsertPlan
  <2>3. ASSUME NEW a \in Accounts, DeleteAccount(a) PROVE jobs'[o[1]] = "deleted"
    BY <1>0, <1>1, <2>3 DEF DeleteAccount
  <2>4. CASE Boot
    BY <1>0, <1>1, <2>4 DEF Boot, JobsReset
  <2>5. CASE LeaseQuietJob
    BY <1>0, <1>1, <2>5 DEF LeaseQuietJob, ReadyQuietJobs
  <2>6. CASE FinalizeJob \/ FinalizeQuietJob \/ QuietFallback
    BY <1>0, <1>1, <2>6 DEF FinalizeJob, FinalizeQuietJob, QuietFallback, SetJobStatus
  <2>7. CASE UNCHANGED jobs
    BY <1>1, <2>7
  <2> QED BY <2>2, <2>3, <2>4, <2>5, <2>6, <2>7, DbWriters DEF LeaseOp, Persist, PersistFallback
<1>2. ASSUME outcome[o] = b PROVE outcome'[o] = b \/ jobs'[o[1]] = "deleted"
  <2>1. ASSUME NEW a \in Accounts, DeleteAccount(a) PROVE outcome'[o] = b \/ jobs'[o[1]] = "deleted"
    <3>1. jobs[o[1]] # "absent"
      BY <1>0, <1>2 DEF HasRow, OpTerminal
    <3> QED BY <1>0, <1>2, <2>1, <3>1 DEF DeleteAccount
  <2>2. CASE Persist \/ PersistFallback
    <3>1. cur \in Op /\ opStatus[cur] \in {"leased", "absent"}
      BY <2>2 DEF Persist, PersistFallback, HeldInv, Running
    <3>2. cur # o
      BY <1>0, <1>2, <3>1 DEF OpTerminal
    <3> QED BY <1>2, <2>2, <3>1, <3>2 DEF Persist, PersistFallback, MarkOpTerminal
  <2>3. CASE UNCHANGED outcome
    BY <1>2, <2>3
  <2> QED BY <2>1, <2>2, <2>3, DbWriters
      DEF InsertPlan, Boot, LeaseOp, FinalizeJob, LeaseQuietJob, FinalizeQuietJob, QuietFallback
<1> QED BY <1>1, <1>2

(* What the worker emits is stored: it persists first, and replays rows. *)
LEMMA EmittedIsStored ==
  ASSUME JournalInv, SayInv, WorkerStep, NEW o \in Op, NEW b \in Blobs,
         OutcomeFrame(o, b) \in emitted', OutcomeFrame(o, b) \notin emitted
  PROVE  Stored(o, b)'
<1> USE DEF Stored
<1>1. CASE ReplayOne
  <2>1. PICK q \in Op : emitted' \subseteq emitted \cup {OutcomeFrame(q, outcome[q])}
    BY <1>1 DEF ReplayOne, JournalInv, TypeOK
  <2>2. OutcomeFrame(o, b) = OutcomeFrame(q, outcome[q])
    BY <2>1
  <2>3. o = q /\ b = outcome[q]
    BY <2>2, FrameKinds
  <2> QED BY <1>1, <2>3 DEF ReplayOne, db
<1>2. CASE EmitOutcome
  <2>1. OutcomeFrame(o, b) = OutcomeFrame(cur, result)
    BY <1>2 DEF EmitOutcome
  <2>2. o = cur /\ b = result
    BY <2>1, FrameKinds
  <2> QED BY <1>2, <2>2 DEF EmitOutcome, SayInv, db
<1>3. CASE EmitCompleted \/ EmitQuietCompleted
  <2>1. OutcomeFrame(o, b) # CompletedFrame(target)
    BY FrameKinds
  <2> QED BY <1>3, <2>1 DEF EmitCompleted, EmitQuietCompleted
<1> QED BY <1>1, <1>2, <1>3
    DEF WorkerStep, ReplayRead, ReplayDone, SweepRead, SweepOne, SweepDone, LeaseOp, LeaseNone,
        Execute, Persist, PersistFails, PersistFallback, FallbackFails, FinalizeSkips,
        FinalizeJob, LeaseQuietJob, LeaseQuietNone, RunQuietJob, FinalizeQuietJob,
        QuietFallback, Wake, history

(* The queue is filled from the pipe, and what it holds is shown. *)
LEMMA QueueFacts ==
  ASSUME PipelineInv, [PipelineNext]_pipelineVars
  PROVE  \/ UNCHANGED queue
         \/ /\ ServiceNotification /\ Len(queue) \in Nat \ {0} /\ Len(queue') = Len(queue) - 1
            /\ DOMAIN queue' = 1 .. Len(queue) - 1
            /\ \A i \in 1 .. Len(queue) - 1 : queue'[i] = queue[i + 1]
            /\ Head(queue) = queue[1]
         \/ /\ ReadNotification /\ Len(queue') = Len(queue) + 1 /\ Len(wire) \in Nat \ {0}
            /\ DOMAIN queue' = 1 .. Len(queue) + 1
            /\ \A i \in 1 .. Len(queue) : queue'[i] = queue[i]
            /\ queue'[Len(queue) + 1] = [frame |-> wire[1], gen |-> gen]
            /\ Len(wire') = Len(wire) - 1
            /\ \A i \in 1 .. Len(wire) - 1 : wire'[i] = wire[i + 1]
<1> USE DEF client, handlers, tracked
<1>0. Len(queue) \in Nat /\ DOMAIN queue = 1 .. Len(queue) /\ Len(wire) \in Nat
  BY TypeParts, LenProperties
<1>1. CASE ServiceNotification
  <2>1. queue # <<>> /\ queue' = Tail(queue)
    BY <1>1 DEF ServiceNotification
  <2>2. /\ queue' \in Seq([frame : Frames, gen : Nat]) /\ Len(queue') = Len(queue) - 1
        /\ Len(queue) \in Nat \ {0} /\ Head(queue) = queue[1]
        /\ \A i \in 1 .. Len(queue) - 1 : queue'[i] = queue[i + 1]
    BY <2>1, TypeParts, RangeOfTail
  <2>3. DOMAIN queue' = 1 .. Len(queue) - 1
    BY <2>2, LenProperties
  <2> QED BY <1>1, <2>2, <2>3
<1>2. CASE ReadNotification
  <2> DEFINE e == [frame |-> Head(wire), gen |-> gen]
  <2>1. /\ queue' = Append(queue, e) /\ wire # <<>> /\ wire' = Tail(wire)
        /\ Head(wire).type \in {"outcome", "completed"}
    BY <1>2 DEF ReadNotification
  <2>2. /\ Head(wire) \in Frames \cup Responses /\ Head(wire) = wire[1] /\ Len(wire) \in Nat \ {0}
        /\ Len(wire') = Len(wire) - 1 /\ \A i \in 1 .. Len(wire) - 1 : wire'[i] = wire[i + 1]
    BY <2>1, TypeParts, RangeOfTail
  <2>3. e \in [frame : Frames, gen : Nat]
    BY <2>1, <2>2, TypeParts, FrameCases
  <2>4. /\ queue' \in Seq([frame : Frames, gen : Nat]) /\ Len(queue') = Len(queue) + 1
        /\ \A i \in 1 .. Len(queue) : queue'[i] = queue[i]
        /\ queue'[Len(queue) + 1] = e
    BY <2>1, <2>3, TypeParts, AppendProperties
  <2>5. DOMAIN queue' = 1 .. Len(queue) + 1
    BY <2>4, LenProperties
  <2> QED BY <1>2, <2>2, <2>4, <2>5
<1> QED BY <1>1, <1>2
    DEF PipelineNext, pipelineVars, UIStep, HandleRequest, Reconcile, Accept, Reject,
        ActionDispatched, JobStatusResolved, Notify, Ack, ReadStatus, AnswerStatus, Work,
        Administer, ReadResponse, HandleCrash, Die, Respawn, Dispatch, Timeout

(* How an outcome gets to be shown. *)
LEMMA ShownFacts ==
  ASSUME PipelineInv, [PipelineNext]_pipelineVars, NEW o \in Op
  PROVE  \/ shown'[o] = shown[o]
         \/ /\ shown[o] = "null" /\ shown'[o] = "backfill"
            /\ ui[o[1]] \in PlanStates /\ ui'[o[1]] \in {"completed", "reconciled"}
         \/ /\ shown[o] = "null" /\ ServiceNotification /\ ui' = ui
            /\ \E b \in Blobs : shown'[o] = b /\ queue[1].frame = OutcomeFrame(o, b) /\ 1 \in DOMAIN queue
<1> USE DEF client, handlers, tracked
<1>0. o[1] \in Plans
  BY OpFacts
<1>1. ASSUME NEW p \in Plans, JobStatusResolved(p)
      PROVE  \/ shown'[o] = shown[o]
             \/ /\ shown[o] = "null" /\ shown'[o] = "backfill"
                /\ ui[o[1]] \in PlanStates /\ ui'[o[1]] \in {"completed", "reconciled"}
  BY <1>0, <1>1, ResolvedFacts DEF Concludes, Backfills
<1>2. CASE ServiceNotification
  <2>1. Head(queue) = queue[1] /\ 1 \in DOMAIN queue
    <3>1. queue # <<>>
      BY <1>2 DEF ServiceNotification
    <3>2. Head(queue) = queue[1] /\ Len(queue) \in Nat \ {0}
      BY <3>1, TypeParts, RangeOfTail
    <3> QED BY <3>2, TypeParts, LenProperties
  <2>2. CASE UNCHANGED <<ui, shown>>
    BY <2>2
  <2>3. ASSUME NEW q \in Op, NEW b \in Blobs, UNCHANGED ui,
               Head(queue).frame = OutcomeFrame(q, b),
               shown' = IF ui[q[1]] \in PlanStates /\ shown[q] = "null"
                        THEN [shown EXCEPT ![q] = b] ELSE shown
        PROVE  \/ shown'[o] = shown[o]
               \/ /\ shown[o] = "null" /\ ui' = ui
                  /\ shown'[o] = b /\ queue[1].frame = OutcomeFrame(o, b)
    BY <2>1, <2>3, TypeParts
  <2>4. ASSUME NEW p \in Plans, Concludes(p, "completed"), Backfills(p)
        PROVE  \/ shown'[o] = shown[o]
               \/ /\ shown[o] = "null" /\ shown'[o] = "backfill"
                  /\ ui[o[1]] \in PlanStates /\ ui'[o[1]] \in {"completed", "reconciled"}
    BY <1>0, <2>4 DEF Concludes, Backfills
  <2> QED BY <1>2, <2>1, <2>2, <2>3, <2>4, NotificationFacts
<1>3. CASE UNCHANGED shown
  BY <1>3
<1> QED BY <1>1, <1>2, <1>3
    DEF PipelineNext, pipelineVars, UIStep, HandleRequest, Reconcile, Accept, Reject,
        ActionDispatched, Notify, Ack, ReadStatus, AnswerStatus, Work, Administer,
        ReadResponse, ReadNotification, HandleCrash, Die, Respawn, Dispatch, Timeout

LEMMA StoredStep ==
  ASSUME PipelineInv, [PipelineNext]_pipelineVars
  PROVE  StoredInv'
<1> SUFFICES ASSUME NEW o \in Op, NEW b \in Blobs,
                    \/ OutcomeFrame(o, b) \in Range(wire')
                    \/ \E i \in DOMAIN queue' : queue'[i].frame = OutcomeFrame(o, b)
                    \/ shown'[o] = b
             PROVE  Stored(o, b)'
  BY DEF StoredInv
<1>0. \/ OutcomeFrame(o, b) \in Range(wire)
      \/ \E i \in DOMAIN queue : queue[i].frame = OutcomeFrame(o, b)
      \/ shown[o] = b
      => Stored(o, b)
  BY DEF PipelineInv, StoredInv
<1>1. CASE Stored(o, b)
  BY <1>1, StoredStays, JournalPart DEF PipelineInv
<1>a. DOMAIN queue = 1 .. Len(queue) /\ Len(queue) \in Nat /\ DOMAIN wire = 1 .. Len(wire) /\ Len(wire) \in Nat
  BY TypeParts, LenProperties
<1>2. CASE OutcomeFrame(o, b) \in Range(wire') /\ OutcomeFrame(o, b) \notin Range(wire)
  <2> DEFINE f == OutcomeFrame(o, b)
  <2>1. f.type = "outcome"
    BY FrameKinds
  <2>2. f \notin reads
    BY <2>1, TypeParts, KindOfResponse
  <2>3. \A q \in Plans : f # AckFrame(q) /\ f # ErrorFrame(q)
    BY FrameKinds
  <2>4. Work /\ f \in emitted' /\ f \notin emitted
    BY <1>2, <2>2, <2>3, WireFacts
  <2> QED BY <2>4, EmittedIsStored DEF PipelineInv, ContractInv, Work
<1>3. ASSUME NEW i \in DOMAIN queue', queue'[i].frame = OutcomeFrame(o, b) PROVE Stored(o, b)
  <2>1. CASE UNCHANGED queue
    BY <1>0, <1>3, <2>1
  <2>2. CASE /\ DOMAIN queue' = 1 .. Len(queue) - 1
             /\ \A k \in 1 .. Len(queue) - 1 : queue'[k] = queue[k + 1]
    <3>1. i + 1 \in DOMAIN queue /\ queue'[i] = queue[i + 1]
      BY <1>3, <1>a, <2>2
    <3> QED BY <1>0, <1>3, <3>1
  <2>3. CASE /\ DOMAIN queue' = 1 .. Len(queue) + 1 /\ Len(wire) \in Nat \ {0}
             /\ \A k \in 1 .. Len(queue) : queue'[k] = queue[k]
             /\ queue'[Len(queue) + 1] = [frame |-> wire[1], gen |-> gen]
    <3>1. CASE i \in 1 .. Len(queue)
      BY <1>0, <1>3, <1>a, <2>3, <3>1
    <3>2. CASE i = Len(queue) + 1
      <4>1. wire[1] = OutcomeFrame(o, b) /\ 1 \in DOMAIN wire
        BY <1>3, <1>a, <2>3, <3>2
      <4> QED BY <1>0, <4>1 DEF Range
    <3> QED BY <1>3, <1>a, <2>3, <3>1, <3>2
  <2> QED BY <2>1, <2>2, <2>3, QueueFacts
<1>4. CASE shown'[o] = b /\ shown[o] # b
  <2>1. b # "null" /\ b # "backfill"
    BY DEF Blobs, MailBlobs, CalBlobs
  <2> QED BY <1>0, <1>1, <1>4, <2>1, ShownFacts
<1> QED BY <1>0, <1>1, <1>2, <1>3, <1>4


---------------------------------------------------------------------------
(* The stream of one generation. *)

(* A worker step emits at most one frame. *)
LEMMA OneFrame ==
  ASSUME WorkerStep
  PROVE  emitted' = emitted \/ \E f : emitted' = emitted \cup {f}
BY DEF WorkerStep, ReplayRead, ReplayOne, ReplayDone, SweepRead, SweepOne, SweepDone, LeaseOp,
       LeaseNone, Execute, Persist, PersistFails, PersistFallback, FallbackFails, EmitOutcome,
       FinalizeSkips, FinalizeJob, EmitCompleted, LeaseQuietJob, LeaseQuietNone, RunQuietJob,
       FinalizeQuietJob, QuietFallback, EmitQuietCompleted, Wake, history

(* Failures are counted, never forgotten. *)
LEMMA FaultsStay ==
  ASSUME JournalInv, [Next]_vars, faults' = 0
  PROVE  faults = 0
<1>1. faults \in Nat
  BY DEF JournalInv, TypeOK
<1>2. UNCHANGED faults \/ faults' = faults + 1
  BY DEF Next, vars, HandlerStep, InsertPlan, NotifyWorker, Kick, DeleteAccount, Boot, Crash,
         WorkerStep, ReplayRead, ReplayOne, ReplayDone, SweepRead, SweepOne, SweepDone, LeaseOp,
         LeaseNone, Execute, Persist, PersistFails, PersistFallback, FallbackFails, EmitOutcome,
         FinalizeSkips, FinalizeJob, EmitCompleted, LeaseQuietJob, LeaseQuietNone, RunQuietJob,
         FinalizeQuietJob, QuietFallback, EmitQuietCompleted, Wake, Return, DbError, budget
<1> QED BY <1>1, <1>2

LEMMA KnownStays ==
  ASSUME PipelineInv, [PipelineNext]_pipelineVars, NEW o \in Op, Known(o)
  PROVE  Known(o)'
<1>1. o[1] \in Plans /\ "null" \notin Blobs
  BY OpFacts DEF Blobs, MailBlobs, CalBlobs
<1>2. CASE ui[o[1]] \in Settled
  BY <1>1, <1>2, Stability DEF Known
<1>3. CASE shown[o] \in Blobs
  BY <1>1, <1>3, ShownFacts DEF Known
<1> QED BY <1>2, <1>3 DEF Known

(* How the stream may change in a step. *)
NewFrame(f) ==
  /\ conn /\ conn' /\ (Up' => Up) /\ UNCHANGED <<queue, gen>>
  /\ Len(wire') = Len(wire) + 1 /\ wire'[Len(wire) + 1] = f
  /\ \A i \in 1 .. Len(wire) : wire'[i] = wire[i]
  /\ \/ f \notin Frames /\ UNCHANGED emitted
     \/ Work /\ Up /\ f \in emitted' /\ emitted' \subseteq emitted \cup {f}

Quiet ==
  /\ UNCHANGED <<queue, gen, wire>>
  /\ conn' /\ Up' => emitted' = {} \/ (conn /\ Up /\ emitted' \subseteq emitted)

LEMMA StreamCases ==
  ASSUME PipelineInv, [PipelineNext]_pipelineVars
  PROVE  \/ Quiet \/ HandleCrash \/ ServiceNotification \/ ReadNotification \/ ReadResponse
         \/ \E f \in Frames \cup Responses : NewFrame(f)
<1> USE DEF client, handlers, tracked
<1>1. ASSUME NEW f \in Frames \cup Responses, Written(<<f>>), UNCHANGED <<queue, gen, conn, vars>>,
             f \notin Frames
      PROVE  Quiet \/ NewFrame(f)
  <2>1. UNCHANGED emitted /\ (Up' <=> Up)
    BY <1>1 DEF vars, history, worker, Up
  <2>2. CASE conn
    BY <1>1, <2>1, <2>2, WriteFacts DEF NewFrame
  <2>3. CASE ~conn
    BY <1>1, <2>1, <2>3, WriteFacts DEF Quiet
  <2> QED BY <2>2, <2>3
<1>2. ASSUME NEW p \in Plans, Reject(p) \/ Ack(p)
      PROVE  Quiet \/ \E f \in Frames \cup Responses : NewFrame(f)
  <2>1. AckFrame(p) \notin Frames /\ ErrorFrame(p) \notin Frames
    <3>1. AckFrame(p).type = "ack" /\ ErrorFrame(p).type = "error"
      BY FrameKinds
    <3> QED BY <3>1, KindOfResponse
  <2>2. AckFrame(p) \in Responses /\ ErrorFrame(p) \in Responses
    BY DEF Responses
  <2>3. CASE Reject(p)
    <3>1. Written(<<ErrorFrame(p)>>) /\ UNCHANGED <<queue, gen, conn, vars>>
      BY <2>3 DEF Reject
    <3> QED BY <1>1, <2>1, <2>2, <3>1
  <2>4. CASE Ack(p)
    <3>1. Written(<<AckFrame(p)>>) /\ UNCHANGED <<queue, gen, conn, vars>>
      BY <2>4 DEF Ack
    <3> QED BY <1>1, <2>1, <2>2, <3>1
  <2> QED BY <1>2, <2>3, <2>4
<1>3. CASE AnswerStatus
  <2>1. PICK f \in reads : Written(<<f>>) /\ UNCHANGED <<queue, gen, conn, vars>>
    BY <1>3 DEF AnswerStatus
  <2>2. f \in StatusFrames /\ f \in Frames \cup Responses
    BY TypeParts DEF Responses
  <2>3. f \notin Frames
    BY <2>2, KindOfResponse
  <2> QED BY <1>1, <2>1, <2>2, <2>3
<1>4. CASE Work
  <2>1. UNCHANGED <<queue, gen, conn>>
    BY <1>4 DEF Work
  <2>2. Up /\ Up'
    BY <1>4 DEF Work, WorkerStep, ReplayRead, ReplayOne, ReplayDone, SweepRead, SweepOne, SweepDone,
       LeaseOp, LeaseNone, Execute, Persist, PersistFails, PersistFallback, FallbackFails,
       EmitOutcome, FinalizeSkips, FinalizeJob, EmitCompleted, LeaseQuietJob, LeaseQuietNone,
       RunQuietJob, FinalizeQuietJob, QuietFallback, EmitQuietCompleted, Wake, Return, Up
  <2>3. CASE emitted' \subseteq emitted /\ wire' = wire
    BY <2>1, <2>2, <2>3 DEF Quiet
  <2>4. ASSUME NEW f \in Frames, f \in emitted' \ emitted, Written(<<f>>)
        PROVE  Quiet \/ NewFrame(f)
    <3>1. emitted' \subseteq emitted \cup {f}
      BY <1>4, <2>4, OneFrame DEF Work
    <3>2. CASE conn
      BY <1>4, <2>1, <2>2, <2>4, <3>1, <3>2, WriteFacts DEF NewFrame
    <3>3. CASE ~conn
      BY <2>1, <2>4, <3>3, WriteFacts DEF Quiet
    <3> QED BY <3>2, <3>3
  <2> QED BY <1>4, <2>3, <2>4, WorkFacts
<1>5. CASE Die
  <2>1. UNCHANGED <<queue, gen, wire>> /\ emitted' = {}
    BY <1>5 DEF Die, Crash
  <2> QED BY <2>1 DEF Quiet
<1>6. CASE Respawn
  <2>1. UNCHANGED <<queue, gen, wire, emitted>> /\ pc = "down"
    BY <1>6 DEF Respawn, Boot, history
  <2>2. emitted = {}
    BY <2>1 DEF PipelineInv, JournalInv, RanInv
  <2> QED BY <2>1, <2>2 DEF Quiet
<1>7. ASSUME NEW p \in Plans, Accept(p) \/ Notify(p) PROVE Quiet
  BY <1>7 DEF Accept, Notify, InsertPlan, NotifyWorker, history, worker, Up, Quiet
<1>8. CASE Administer
  BY <1>8 DEF Administer, Kick, DeleteAccount, history, worker, Up, Quiet
<1>9. CASE UNCHANGED <<queue, gen, wire, conn, vars>>
  BY <1>9 DEF vars, history, worker, Up, Quiet
<1> QED BY <1>2, <1>3, <1>4, <1>5, <1>6, <1>7, <1>8, <1>9
    DEF PipelineNext, pipelineVars, UIStep, HandleRequest, Reconcile, ActionDispatched,
        JobStatusResolved, ReadStatus, Dispatch, Timeout


(* A notification of an operation's outcome makes it known. *)
LEMMA OutcomeIsKnown ==
  ASSUME PipelineInv, ServiceNotification, NEW o \in Op, NEW b \in Blobs,
         queue[1].gen = gen, queue[1].frame = OutcomeFrame(o, b)
  PROVE  Known(o)'
<1>0. o[1] \in Plans /\ "null" \notin Blobs
  BY OpFacts DEF Blobs, MailBlobs, CalBlobs
<1>1. queue # <<>> /\ Head(queue) = queue[1] /\ 1 \in DOMAIN queue
  <2>1. queue # <<>>
    BY DEF ServiceNotification
  <2>2. Head(queue) = queue[1] /\ Len(queue) \in Nat \ {0}
    BY <2>1, TypeParts, RangeOfTail
  <2> QED BY <2>1, <2>2, TypeParts, LenProperties
<1>2. ui[o[1]] # "new"
  <2>1. Stored(o, b)
    BY <1>1 DEF PipelineInv, StoredInv
  <2>2. jobs[o[1]] # "absent"
    <3>1. outcome[o] = b => opStatus[o] # "absent" /\ opStatus[o] \notin {"pending", "leased"}
      BY <1>0 DEF PipelineInv, JournalInv, RowInv, OpTerminal
    <3> QED BY <1>0, <2>1, <3>1, ResultFacts DEF Stored, PipelineInv, JournalInv, TypeOK, RowInv, HasRow, OpTerminal
  <2> QED BY <1>0, <2>2 DEF PipelineInv, RequestInv
<1>3. \A p : OutcomeFrame(o, b) # CompletedFrame(p)
  BY FrameKinds
<1>4. PICK q \in Op, c \in Blobs :
        /\ UNCHANGED ui /\ Head(queue).frame = OutcomeFrame(q, c)
        /\ shown' = IF ui[q[1]] \in PlanStates /\ shown[q] = "null"
                    THEN [shown EXCEPT ![q] = c] ELSE shown
  BY <1>1, <1>3, NotificationFacts
<1>5. q = o /\ c = b
  <2>1. OutcomeFrame(q, c) = OutcomeFrame(o, b)
    BY <1>1, <1>4
  <2> QED BY <2>1, FrameKinds
<1>6. ui[o[1]] \in PlanStates \cup Settled
  BY <1>0, <1>2, TypeParts
<1>7. shown[o] = "backfill" => ui[o[1]] \in Settled
  BY DEF PipelineInv, StreamInv
<1>8. shown[o] \in Blobs \cup {"null", "backfill"}
  BY TypeParts
<1>9. CASE ui[o[1]] \in Settled \/ shown[o] \in Blobs
  BY <1>0, <1>4, <1>5, <1>9 DEF Known
<1>10. CASE ui[o[1]] \in PlanStates /\ shown[o] = "null"
  BY <1>4, <1>5, <1>10, TypeParts DEF Known
<1> QED BY <1>6, <1>7, <1>8, <1>9, <1>10

LEMMA StreamOfStep ==
  ASSUME PipelineInv, [PipelineNext]_pipelineVars, NEW o \in Op, Whole(o[1])'
  PROVE  StreamOf(o)'
<1>0. o[1] \in Plans
  BY OpFacts
<1>1. Whole(o[1])
  BY <1>0, FaultsStay, JournalPart, Stability DEF Whole, PipelineInv
<1>2. StreamOf(o)
  BY <1>1 DEF PipelineInv, StreamInv
<1>3. Known(o) => Known(o)'
  BY KnownStays
<1>4. /\ Len(queue) \in Nat /\ DOMAIN queue = 1 .. Len(queue)
      /\ Len(wire) \in Nat /\ DOMAIN wire = 1 .. Len(wire)
      /\ DOMAIN queue' = 1 .. Len(queue') /\ DOMAIN wire' = 1 .. Len(wire')
      /\ Len(queue') \in Nat /\ Len(wire') \in Nat
  BY TypeParts, PipeStep, LenProperties DEF PipeType
<1>5. CASE Quiet
  <2>1. /\ \A n : InQueue(o, n) => InQueue(o, n)'
        /\ \A n : InWire(o, n) => InWire(o, n)'
        /\ QueuedAll(o) => QueuedAll(o)'
    BY <1>5 DEF Quiet, InQueue, InWire, QueuedAll
  <2> QED BY <1>2, <1>3, <1>5, <2>1 DEF Quiet, StreamOf
<1>6. CASE HandleCrash
  <2>1. UNCHANGED queue /\ gen' = gen + 1 /\ ~conn' /\ wire' = <<>>
    BY <1>6 DEF HandleCrash
  <2>2. \A i \in DOMAIN queue : queue[i].gen # gen'
    BY <2>1, TypeParts
  <2> QED BY <2>1, <2>2 DEF StreamOf
<1>7. CASE ServiceNotification
  <2>1. /\ Len(queue) \in Nat \ {0} /\ Len(queue') = Len(queue) - 1
        /\ \A i \in 1 .. Len(queue) - 1 : queue'[i] = queue[i + 1]
        /\ UNCHANGED <<gen, wire, conn, emitted>> /\ (Up' <=> Up)
    <3>1. queue' = Tail(queue) /\ queue # <<>> /\ UNCHANGED <<gen, wire, conn, vars>>
      BY <1>7 DEF ServiceNotification
    <3>2. UNCHANGED emitted /\ (Up' <=> Up)
      BY <3>1 DEF vars, history, worker, Up
    <3> QED BY <3>1, <3>2, TypeParts, RangeOfTail
  <2>2. ASSUME NEW n \in Nat, InQueue(o, n + 1) PROVE Known(o)' \/ InQueue(o, n)'
    <3>1. PICK i \in DOMAIN queue, b \in Blobs :
            i < n + 1 /\ queue[i].gen = gen /\ queue[i].frame = OutcomeFrame(o, b)
      BY <2>2 DEF InQueue
    <3>2. CASE i = 1
      BY <1>7, <3>1, <3>2, OutcomeIsKnown
    <3>3. CASE i # 1
      <4>1. i - 1 \in DOMAIN queue' /\ i - 1 < n /\ queue'[i - 1] = queue[i]
        BY <1>4, <2>1, <3>1, <3>3
      <4> QED BY <2>1, <3>1, <4>1 DEF InQueue
    <3> QED BY <3>2, <3>3
  <2>3. QueuedAll(o) => Known(o)' \/ QueuedAll(o)'
    BY <1>4, <2>1, <2>2 DEF QueuedAll
  <2>4. \A n : InWire(o, n) => InWire(o, n)'
    BY <2>1 DEF InWire
  <2>5. ASSUME NEW i \in DOMAIN queue', queue'[i].gen = gen', queue'[i].frame = CompletedFrame(o[1])
        PROVE  Known(o)' \/ InQueue(o, i)'
    <3>1. i \in Nat /\ i + 1 \in DOMAIN queue /\ queue'[i] = queue[i + 1]
      BY <1>4, <2>1
    <3>2. Known(o) \/ InQueue(o, i + 1)
      BY <1>2, <2>1, <2>5, <3>1 DEF StreamOf
    <3> QED BY <1>3, <2>2, <3>1, <3>2
  <2> QED BY <1>2, <1>3, <2>1, <2>3, <2>4, <2>5 DEF StreamOf
<1>8. CASE ReadNotification \/ ReadResponse
  <2>1. /\ Len(wire) \in Nat \ {0} /\ Len(wire') = Len(wire) - 1
        /\ \A i \in 1 .. Len(wire) - 1 : wire'[i] = wire[i + 1]
        /\ UNCHANGED <<gen, conn, emitted>> /\ (Up' <=> Up)
    <3>1. wire' = Tail(wire) /\ wire # <<>> /\ UNCHANGED <<gen, conn, vars>>
      BY <1>8 DEF ReadNotification, ReadResponse
    <3>2. UNCHANGED emitted /\ (Up' <=> Up)
      BY <3>1 DEF vars, history, worker, Up
    <3> QED BY <3>1, <3>2, TypeParts, RangeOfTail
  <2>2. \/ UNCHANGED queue /\ wire[1] \notin Frames
        \/ /\ Len(queue') = Len(queue) + 1 /\ \A i \in 1 .. Len(queue) : queue'[i] = queue[i]
           /\ queue'[Len(queue) + 1] = [frame |-> wire[1], gen |-> gen]
    <3>1. CASE ReadNotification
      <4> DEFINE e == [frame |-> Head(wire), gen |-> gen]
      <4>1. /\ queue' = Append(queue, e) /\ wire # <<>>
            /\ Head(wire).type \in {"outcome", "completed"}
        BY <3>1 DEF ReadNotification
      <4>2. Head(wire) \in Frames \cup Responses /\ Head(wire) = wire[1]
        BY <4>1, TypeParts, RangeOfTail
      <4>3. e \in [frame : Frames, gen : Nat]
        BY <4>1, <4>2, TypeParts, FrameCases
      <4> QED BY <4>1, <4>2, <4>3, TypeParts, AppendProperties
    <3>2. CASE ReadResponse
      <4>1. Head(wire) = wire[1] /\ wire # <<>> /\ Head(wire) \in Frames \cup Responses
        BY <2>1, <3>2, TypeParts, RangeOfTail DEF ReadResponse
      <4>2. Head(wire).type \in {"ack", "error", "status"}
        BY <3>2 DEF ReadResponse
      <4>3. Head(wire) \notin Frames
        BY <4>1, <4>2, FrameCases
      <4> QED BY <3>2, <4>1, <4>3 DEF ReadResponse
    <3> QED BY <1>8, <3>1, <3>2
  <2>a. /\ \A i \in DOMAIN queue : i \in DOMAIN queue' /\ queue'[i] = queue[i] /\ i < Len(queue') + 1
        /\ \A i \in DOMAIN queue' :
             \/ i \in DOMAIN queue /\ queue'[i] = queue[i]
             \/ i = Len(queue) + 1 /\ queue'[i] = [frame |-> wire[1], gen |-> gen]
    <3>1. CASE UNCHANGED queue
      BY <1>4, <3>1
    <3>2. CASE /\ Len(queue') = Len(queue) + 1 /\ \A i \in 1 .. Len(queue) : queue'[i] = queue[i]
               /\ queue'[Len(queue) + 1] = [frame |-> wire[1], gen |-> gen]
      BY <1>4, <3>2
    <3> QED BY <2>2, <3>1, <3>2
  <2>3. ASSUME NEW n \in 0 .. Len(queue) + 1, InQueue(o, n) PROVE InQueue(o, n)'
    <3>1. PICK i \in DOMAIN queue, b \in Blobs :
            i < n /\ queue[i].gen = gen /\ queue[i].frame = OutcomeFrame(o, b)
      BY <2>3 DEF InQueue
    <3> QED BY <2>1, <2>a, <3>1 DEF InQueue
  <2>4. QueuedAll(o) => QueuedAll(o)'
    BY <2>1, <2>a DEF QueuedAll, InQueue
  <2>5. ASSUME NEW b \in Blobs, wire[1] = OutcomeFrame(o, b) PROVE QueuedAll(o)'
    <3>1. wire[1] \in Frames
      BY <2>5 DEF Frames
    <3>2. Len(queue') = Len(queue) + 1 /\ queue'[Len(queue) + 1] = [frame |-> wire[1], gen |-> gen]
      BY <2>2, <3>1
    <3>3. Len(queue) + 1 \in DOMAIN queue' /\ Len(queue) + 1 < Len(queue') + 1
      BY <1>4, <3>2
    <3> QED BY <2>1, <2>5, <3>2, <3>3 DEF QueuedAll, InQueue
  <2>6. ASSUME NEW n \in Nat, InWire(o, n + 1) PROVE QueuedAll(o)' \/ InWire(o, n)'
    <3>1. PICK i \in DOMAIN wire, b \in Blobs : i < n + 1 /\ wire[i] = OutcomeFrame(o, b)
      BY <2>6 DEF InWire
    <3>2. CASE i = 1
      BY <2>5, <3>1, <3>2
    <3>3. CASE i # 1
      <4>1. i - 1 \in DOMAIN wire' /\ i - 1 < n /\ wire'[i - 1] = wire[i]
        BY <1>4, <2>1, <3>1, <3>3
      <4> QED BY <3>1, <4>1 DEF InWire
    <3> QED BY <3>2, <3>3
  <2>7. ASSUME NEW i \in DOMAIN queue', queue'[i].gen = gen', queue'[i].frame = CompletedFrame(o[1])
        PROVE  Known(o)' \/ InQueue(o, i)'
    <3>1. CASE i \in DOMAIN queue /\ queue'[i] = queue[i]
      <4>1. Known(o) \/ InQueue(o, i)
        BY <1>2, <2>1, <2>7, <3>1 DEF StreamOf
      <4> QED BY <1>3, <1>4, <2>3, <3>1, <4>1
    <3>2. CASE i = Len(queue) + 1 /\ queue'[i] = [frame |-> wire[1], gen |-> gen]
      <4>1. wire[1] = CompletedFrame(o[1]) /\ 1 \in DOMAIN wire
        BY <1>4, <2>1, <2>7, <3>2
      <4>2. ~InWire(o, 1)
        BY <1>4 DEF InWire
      <4>3. Known(o) \/ InQueue(o, Len(queue) + 1)
        BY <1>2, <4>1, <4>2 DEF StreamOf, QueuedAll
      <4>4. InQueue(o, i) => InQueue(o, i)'
        BY <1>4, <2>3, <3>2
      <4> QED BY <1>3, <3>2, <4>3, <4>4
    <3> QED BY <2>a, <3>1, <3>2
  <2>8. ASSUME NEW i \in DOMAIN wire', wire'[i] = CompletedFrame(o[1])
        PROVE  Known(o)' \/ QueuedAll(o)' \/ InWire(o, i)'
    <3>1. i \in Nat /\ i + 1 \in DOMAIN wire /\ wire'[i] = wire[i + 1]
      BY <1>4, <2>1
    <3>2. Known(o) \/ QueuedAll(o) \/ InWire(o, i + 1)
      BY <1>2, <2>8, <3>1 DEF StreamOf
    <3> QED BY <1>3, <2>4, <2>6, <3>1, <3>2
  <2>9. ASSUME conn', Up', NEW b \in Blobs, OutcomeFrame(o, b) \in emitted'
        PROVE  Known(o)' \/ QueuedAll(o)' \/ InWire(o, Len(wire) + 1)'
    <3>1. Known(o) \/ QueuedAll(o) \/ InWire(o, Len(wire) + 1)
      BY <1>2, <2>1, <2>9 DEF StreamOf
    <3>2. InWire(o, Len(wire) + 1) => QueuedAll(o)' \/ InWire(o, Len(wire) + 1)'
      <4>1. InWire(o, Len(wire) + 1) => QueuedAll(o)' \/ \E i \in DOMAIN wire', b1 \in Blobs : wire'[i] = OutcomeFrame(o, b1)
        BY <1>4, <2>6 DEF InWire
      <4>2. \A i \in DOMAIN wire' : i < Len(wire') + 1
        BY <1>4
      <4> QED BY <4>1, <4>2 DEF InWire
    <3> QED BY <1>3, <2>4, <3>1, <3>2
  <2> QED BY <2>7, <2>8, <2>9 DEF StreamOf
<1>9. ASSUME NEW f \in Frames \cup Responses, NewFrame(f) PROVE StreamOf(o)'
  <2>1. /\ conn /\ (Up' => Up) /\ UNCHANGED <<queue, gen>>
        /\ Len(wire') = Len(wire) + 1 /\ wire'[Len(wire) + 1] = f
        /\ \A i \in 1 .. Len(wire) : wire'[i] = wire[i]
    BY <1>9 DEF NewFrame
  <2>2. /\ \A n : InQueue(o, n) => InQueue(o, n)'
        /\ QueuedAll(o) => QueuedAll(o)'
    BY <2>1 DEF InQueue, QueuedAll
  <2>3. ASSUME NEW n, InWire(o, n) PROVE InWire(o, n)'
    BY <1>4, <2>1, <2>3 DEF InWire
  <2>4. ASSUME InWire(o, Len(wire) + 1) PROVE InWire(o, Len(wire) + 1)'
    <3>1. PICK i \in DOMAIN wire, b \in Blobs : wire[i] = OutcomeFrame(o, b)
      BY <2>4 DEF InWire
    <3>2. i \in DOMAIN wire' /\ i < Len(wire') + 1 /\ wire'[i] = wire[i]
      BY <1>4, <2>1, <3>1
    <3> QED BY <3>1, <3>2 DEF InWire
  <2>5. ASSUME NEW i \in DOMAIN wire', wire'[i] = CompletedFrame(o[1])
        PROVE  Known(o)' \/ QueuedAll(o)' \/ InWire(o, i)'
    <3>1. CASE i \in DOMAIN wire
      <4>1. wire'[i] = wire[i]
        BY <1>4, <2>1, <3>1
      <4> QED BY <1>2, <1>3, <2>2, <2>3, <2>5, <3>1, <4>1 DEF StreamOf
    <3>2. CASE i = Len(wire) + 1
      <4>1. f = CompletedFrame(o[1]) /\ f \in Frames
        BY <1>0, <2>1, <2>5, <3>2 DEF Frames
      <4>2. Work /\ Up /\ f \in emitted' /\ emitted' \subseteq emitted \cup {f}
        BY <1>9, <4>1 DEF NewFrame
      <4>3. PICK b \in Blobs : OutcomeFrame(o, b) \in emitted'
        <5>1. JournalInv'
          BY JournalPart, JournalStep DEF PipelineInv
        <5>2. CompletedLast' /\ jobs'[o[1]] # "deleted"
          BY <5>1 DEF JournalInv, FrameInv, Whole
        <5>3. OutcomeEmitted(o)'
          BY <1>0, <4>1, <4>2, <5>2 DEF CompletedLast, OpsOf
        <5>4. outcome'[o] # "null" /\ outcome'[o] \in Blobs
          BY <1>0, <4>1, <4>2, <5>1, <5>2 DEF CompletedLast, OpsOf, JournalInv, TypeOK
        <5> QED BY <5>3, <5>4 DEF OutcomeEmitted
      <4>4. OutcomeFrame(o, b) # f
        BY <4>1, FrameKinds
      <4>5. Known(o) \/ QueuedAll(o) \/ InWire(o, Len(wire) + 1)
        BY <1>2, <2>1, <4>2, <4>3, <4>4 DEF StreamOf
      <4>6. InWire(o, i) => InWire(o, i)'
        BY <2>3
      <4> QED BY <1>3, <2>2, <3>2, <4>5, <4>6
    <3> QED BY <1>4, <2>1, <3>1, <3>2
  <2>6. ASSUME conn', Up', NEW b \in Blobs, OutcomeFrame(o, b) \in emitted'
        PROVE  Known(o)' \/ QueuedAll(o)' \/ InWire(o, Len(wire) + 1)'
    <3>1. CASE OutcomeFrame(o, b) \in emitted
      <4>1. Known(o) \/ QueuedAll(o) \/ InWire(o, Len(wire) + 1)
        BY <1>2, <2>1, <2>6, <3>1 DEF StreamOf
      <4> QED BY <1>3, <2>2, <2>4, <4>1
    <3>2. CASE OutcomeFrame(o, b) = f
      <4>1. Len(wire) + 1 \in DOMAIN wire' /\ Len(wire) + 1 < Len(wire') + 1
        BY <1>4, <2>1
      <4> QED BY <2>1, <3>2, <4>1 DEF InWire
    <3> QED BY <1>9, <2>6, <3>1, <3>2 DEF NewFrame
  <2>7. ASSUME NEW i \in DOMAIN queue', queue'[i].gen = gen', queue'[i].frame = CompletedFrame(o[1])
        PROVE  Known(o)' \/ InQueue(o, i)'
    BY <1>2, <1>3, <2>1, <2>2, <2>7 DEF StreamOf
  <2> QED BY <2>5, <2>6, <2>7 DEF StreamOf
<1> QED BY <1>5, <1>6, <1>7, <1>8, <1>9, StreamCases


LEMMA StreamStep ==
  ASSUME PipelineInv, [PipelineNext]_pipelineVars
  PROVE  StreamInv'
<1>1. ASSUME NEW o \in Op, shown'[o] = "backfill" PROVE ui'[o[1]] \in Settled
  <2>1. o[1] \in Plans /\ "backfill" \notin Blobs
    BY OpFacts DEF Blobs, MailBlobs, CalBlobs
  <2>2. shown[o] = "backfill" => ui[o[1]] \in Settled
    BY DEF PipelineInv, StreamInv
  <2> QED BY <1>1, <2>1, <2>2, ShownFacts, Stability DEF Settled
<1> QED BY <1>1, StreamOfStep DEF StreamInv

(* A completion finds the outcomes it follows. *)
LEMMA StreamedStep ==
  ASSUME PipelineInv, [PipelineNext]_pipelineVars
  PROVE  StreamedIsWhole'
<1> SUFFICES ASSUME faults' = 0, NEW p \in Plans, ui'[p] = "completed", jobs'[p] # "deleted",
                    NEW o \in OpsOf(p)
             PROVE  shown'[o] \in Blobs
  BY DEF StreamedIsWhole, OpsOf
<1>0. o \in Op /\ o[1] = p /\ "null" \notin Blobs
  BY DEF OpsOf, Blobs, MailBlobs, CalBlobs
<1>1. Whole(p)
  BY FaultsStay, JournalPart, Stability DEF Whole, PipelineInv
<1>2. shown[o] \in Blobs => shown'[o] \in Blobs
  BY <1>0, ShownFacts
<1>3. CASE ui[p] = "completed"
  BY <1>1, <1>2, <1>3 DEF PipelineInv, StreamedIsWhole, Whole
<1>4. CASE ui[p] # "completed"
  <2>1. ASSUME NEW q \in Plans, ActionDispatched(q) PROVE FALSE
    BY <1>4, <2>1, DispatchedFacts DEF Concludes
  <2>2. ASSUME NEW q \in Plans, JobStatusResolved(q) PROVE FALSE
    BY <1>4, <2>2, ResolvedFacts DEF Concludes
  <2>3. ASSUME NEW q \in Plans, Dispatch(q) PROVE FALSE
    BY <1>4, <2>3, TypeParts DEF Dispatch
  <2>4. ServiceNotification
    BY <1>4, <2>1, <2>2, <2>3
    DEF PipelineNext, pipelineVars, UIStep, HandleRequest, Reconcile, Accept, Reject,
        Notify, Ack, ReadStatus, AnswerStatus, Work, Administer, ReadResponse,
        ReadNotification, HandleCrash, Die, Respawn, Timeout, client, handlers, tracked
  <2>5. PICK q \in Plans : /\ Head(queue).gen = gen /\ Head(queue).frame = CompletedFrame(q)
                           /\ Concludes(q, "completed")
    BY <1>4, <2>4, NotificationFacts
  <2>6. q = p /\ ui[p] \in PlanStates
    BY <1>4, <2>5 DEF Concludes
  <2>7. Head(queue) = queue[1] /\ 1 \in DOMAIN queue
    <3>1. queue # <<>>
      BY <2>4 DEF ServiceNotification
    <3>2. Head(queue) = queue[1] /\ Len(queue) \in Nat \ {0}
      BY <3>1, TypeParts, RangeOfTail
    <3> QED BY <3>2, TypeParts, LenProperties
  <2>8. Known(o) \/ InQueue(o, 1)
    BY <1>0, <1>1, <2>5, <2>6, <2>7 DEF PipelineInv, StreamInv, StreamOf
  <2>9. ~InQueue(o, 1)
    <3>1. Len(queue) \in Nat /\ DOMAIN queue = 1 .. Len(queue)
      BY TypeParts, LenProperties
    <3> QED BY <3>1 DEF InQueue
  <2> QED BY <1>0, <1>2, <2>6, <2>8, <2>9 DEF Known, PlanStates, Settled
<1> QED BY <1>3, <1>4

---------------------------------------------------------------------------
(* The inductive invariant and the properties it carries. *)

LEMMA PipelineStart ==
  ASSUME PipelineInit
  PROVE  PipelineInv
<1> USE DEF PipelineInit
<1>1. JournalInv
  BY JournalStart
<1>2. ContractInv
  BY DEF Init, ContractInv, StatusInv, SayInv, QuietRunning
<1>3. PipelineTypeOK
  <2>1. DOMAIN queue = {}
    BY EmptySeq
  <2>2. /\ ui \in [Plans -> {"new"} \cup PlanStates \cup Settled]
        /\ shown \in [Op -> Blobs \cup {"null", "backfill"}]
    OBVIOUS
  <2>3. gen \in 0..MaxCrashes + 1 /\ timeouts \in 0..MaxTimeouts
    BY BoundAssumption, TimeoutAssumption
  <2>4. /\ conn \in BOOLEAN /\ bootReady \in BOOLEAN
        /\ waiting \subseteq Plans /\ asked \subseteq Plans /\ replies \subseteq Messages
        /\ inbox \subseteq Plans /\ answering \subseteq Plans /\ asking \subseteq Plans
    OBVIOUS
  <2> HIDE DEF PipelineInit
  <2> QED BY <2>1, <2>2, <2>3, <2>4 DEF PipelineTypeOK
<1>4. PipeType
  BY EmptySeq DEF PipeType
<1>5. GenerationInv /\ ProcessInv
  BY DEF GenerationInv, ProcessInv, Init, Up
<1>6. Range(wire) = {} /\ DOMAIN queue = {} /\ DOMAIN wire = {}
  BY EmptySeq DEF Range
<1>7. RequestInv
  BY <1>6 DEF RequestInv, Unanswered, Init
<1>8. RefusalInv
  BY <1>6 DEF RefusalInv
<1>9. "null" \notin Blobs
  BY DEF Blobs, MailBlobs, CalBlobs
<1>10. StoredInv
  BY <1>6, <1>9 DEF StoredInv
<1>11. StreamInv
  BY <1>6 DEF StreamInv, StreamOf
<1>12. StreamedIsWhole
  BY DEF StreamedIsWhole
<1> QED BY <1>1, <1>2, <1>3, <1>4, <1>5, <1>7, <1>8, <1>10, <1>11, <1>12 DEF PipelineInv

LEMMA PipelineStep ==
  ASSUME PipelineInv, [PipelineNext]_pipelineVars
  PROVE  PipelineInv'
<1>1. JournalInv'
  BY JournalPart, JournalStep DEF PipelineInv
<1>2. ContractInv'
  BY JournalPart, StatusStep, SayStep DEF PipelineInv, ContractInv
<1> QED BY <1>1, <1>2, PipelineTypeStep, PipeStep, GenerationStep, ProcessStep, RequestStep,
           RefusalStep, StoredStep, StreamStep, StreamedStep DEF PipelineInv

(* The UI, the client, the pipe, the handlers and the journal agree, in    *)
(* every state: the invariant the theorems below follow from.              *)
THEOREM PipelineInvariant == PipelineSpec => []PipelineInv
<1>1. PipelineInit => PipelineInv
  BY PipelineStart
<1>2. PipelineInv /\ [PipelineNext]_pipelineVars => PipelineInv'
  BY PipelineStep
<1> QED BY <1>1, <1>2, PTL DEF PipelineSpec

(* The UI rolls back only plans the journal does not and will not hold:    *)
(* every refusal on its way to handle_action_dispatched or                 *)
(* handle_job_status_resolved is about such a plan.                        *)
THEOREM RollbackTheorem == PipelineSpec => []NoFalseRollback
<1>1. PipelineInv => NoFalseRollback
  BY DEF PipelineInv, RefusalInv, Gone, Sent, NoFalseRollback
<1> QED BY <1>1, PipelineInvariant, PTL

(* The outcome the UI shows for an operation is the one the journal keeps, *)
(* whatever died and was executed again in between.                        *)
THEOREM ShownTheorem == PipelineSpec => []ShownIsStored
<1>1. PipelineInv => ShownIsStored
  BY DEF PipelineInv, StoredInv, Stored, ShownIsStored
<1> QED BY <1>1, PipelineInvariant, PTL

(* A completion shown from the notification stream comes after the outcome *)
(* of every operation of its plan, unless a database call failed.          *)
THEOREM StreamedTheorem == PipelineSpec => []StreamedIsWhole
<1>1. PipelineInv => StreamedIsWhole
  BY DEF PipelineInv
<1> QED BY <1>1, PipelineInvariant, PTL
---------------------------------------------------------------------------
(* No tracked plan is forgotten.  Beside PipelineInv this needs to know    *)
(* what the worker has announced, and where a job_status answer may be.    *)

(* A completion is emitted of a finished job, and of one only once. *)
DoneInv ==
  \A p \in Plans :
    jobs[p] # "deleted" /\ CompletedFrame(p) \in emitted =>
      jobs[p] \in JobTerminal /\ ~(pc \in Announcing /\ target = p)

LiveInv ==
  /\ \A p \in Plans : jobs[p] = "deleted" => AccountOf[p] \notin accounts
  /\ pc = "quiet_fallback" => faults # 0

LEMMA LiveStep ==
  ASSUME JournalInv, LiveInv, [Next]_vars
  PROVE  LiveInv' /\ accounts' \subseteq accounts
<1> USE DEF JournalInv, TypeOK, LiveInv
<1>1. ASSUME NEW a \in Accounts, DeleteAccount(a) PROVE LiveInv' /\ accounts' \subseteq accounts
  BY <1>1 DEF DeleteAccount, worker, budget
<1>2. ASSUME NEW p \in Plans, InsertPlan(p) PROVE LiveInv' /\ accounts' = accounts
  BY <1>2 DEF InsertPlan, worker, budget
<1>3. ASSUME \A p \in Plans : jobs'[p] = "deleted" => jobs[p] = "deleted",
             accounts' = accounts, pc' # "quiet_fallback" \/ (pc' = pc /\ faults' = faults)
      PROVE  LiveInv'
  BY <1>3
<1>4. CASE Boot
  <2>1. accounts' = accounts /\ pc' = "start" /\ jobs' \in {jobs, JobsReset}
    BY <1>4 DEF Boot
  <2> QED BY <1>3, <2>1 DEF JobsReset
<1>5. CASE FinalizeJob
  <2>1. accounts' = accounts /\ pc' # "quiet_fallback" /\ target \in Plans
    BY <1>5 DEF FinalizeJob, Return, HeldInv, Finalizing
  <2>2. FinalStatus(target) # "deleted"
    BY FinalStatusFacts DEF JobTerminal
  <2> QED BY <1>3, <1>5, <2>1, <2>2 DEF FinalizeJob
<1>6. CASE LeaseQuietJob
  BY <1>3, <1>6 DEF LeaseQuietJob
<1>7. CASE FinalizeQuietJob
  <2>1. accounts' = accounts /\ \A p \in Plans : jobs'[p] = "deleted" => jobs[p] = "deleted"
    BY <1>7 DEF FinalizeQuietJob, SetJobStatus
  <2>2. pc' = "quiet_fallback" => faults' # 0
    BY <1>7 DEF FinalizeQuietJob, DbError
  <2> QED BY <2>1, <2>2
<1>8. CASE QuietFallback
  BY <1>3, <1>8 DEF QuietFallback, SetJobStatus
<1>9. CASE UNCHANGED <<jobs, accounts>> /\ (pc' # "quiet_fallback" \/ UNCHANGED <<pc, faults>>)
  BY <1>3, <1>9
<1> QED BY <1>1, <1>2, <1>4, <1>5, <1>6, <1>7, <1>8, <1>9
    DEF Next, WorkerStep, HandlerStep, vars, db, worker, budget, NotifyWorker, Kick, Crash,
        ReplayRead, ReplayOne, ReplayDone, SweepRead, SweepOne, SweepDone, LeaseOp, LeaseNone,
        Execute, Persist, PersistFails, PersistFallback, FallbackFails, EmitOutcome,
        FinalizeSkips, EmitCompleted, LeaseQuietNone, RunQuietJob, EmitQuietCompleted, Wake,
        Return, Boot, FinalizeJob, LeaseQuietJob, FinalizeQuietJob, QuietFallback

(* The worker announces a job it has just finished. *)
LEMMA AnnounceFacts ==
  ASSUME JournalInv, [Next]_vars, NEW p \in Plans, pc \in Announcing, target = p
  PROVE  \/ UNCHANGED <<pc, target>> /\ emitted' = emitted
         \/ WorkerStep /\ emitted' = emitted \cup {CompletedFrame(p)} /\ pc' \notin Announcing
         \/ Crash
BY DEF Announcing, Next, WorkerStep, HandlerStep, vars, worker, held, history, InsertPlan,
       NotifyWorker, Kick, DeleteAccount, Boot, ReplayRead, ReplayOne, ReplayDone, SweepRead,
       SweepOne, SweepDone, LeaseOp, LeaseNone, Execute, Persist, PersistFails, PersistFallback,
       FallbackFails, EmitOutcome, FinalizeSkips, FinalizeJob, EmitCompleted, LeaseQuietJob,
       LeaseQuietNone, RunQuietJob, FinalizeQuietJob, QuietFallback, EmitQuietCompleted, Wake,
       Return

(* Who starts to announce a job, and who emits its completion. *)
LEMMA AnnouncedBy ==
  ASSUME JournalInv, ContractInv, [Next]_vars, NEW p \in Plans
  PROVE  /\ pc' \in Announcing /\ target' = p =>
              (pc \in Announcing /\ target = p) \/ jobs[p] \in JobActive \cup {"deleted"}
         /\ CompletedFrame(p) \in emitted' =>
              CompletedFrame(p) \in emitted \/ (pc \in Announcing /\ target = p /\ pc' \notin Announcing)
<1>1. ASSUME pc' \in Announcing, target' = p
      PROVE  (pc \in Announcing /\ target = p) \/ jobs[p] \in JobActive \cup {"deleted"}
  <2>1. \/ UNCHANGED <<pc, target>>
        \/ pc = "finalize" /\ target' = target
        \/ pc = "quiet_finalize" /\ target' = target
    BY <1>1
    DEF Announcing, Next, WorkerStep, HandlerStep, vars, worker, held, InsertPlan,
       NotifyWorker, Kick, DeleteAccount, Boot, Crash, ReplayRead, ReplayOne, ReplayDone, SweepRead,
       SweepOne, SweepDone, LeaseOp, LeaseNone, Execute, Persist, PersistFails, PersistFallback,
       FallbackFails, EmitOutcome, FinalizeSkips, FinalizeJob, EmitCompleted, LeaseQuietJob,
       LeaseQuietNone, RunQuietJob, FinalizeQuietJob, QuietFallback, EmitQuietCompleted, Wake,
       Return
  <2>2. pc \in {"finalize", "quiet_finalize"} => Unfinished(target)
    BY DEF JournalInv, HeldInv, ContractInv, SayInv, QuietRunning
  <2> QED BY <1>1, <2>1, <2>2 DEF Unfinished
<1>2. ASSUME CompletedFrame(p) \in emitted', CompletedFrame(p) \notin emitted
      PROVE  pc \in Announcing /\ target = p /\ pc' \notin Announcing
  <2>1. ASSUME NEW o, NEW b PROVE CompletedFrame(p) # OutcomeFrame(o, b)
    BY FrameFacts
  <2>2. ~ReplayOne /\ ~EmitOutcome
    BY <1>2, <2>1 DEF ReplayOne, EmitOutcome
  <2>3. EmitCompleted \/ EmitQuietCompleted
    BY <1>2, <2>2
    DEF Next, WorkerStep, HandlerStep, vars, history, InsertPlan,
       NotifyWorker, Kick, DeleteAccount, Boot, Crash, ReplayRead, ReplayDone, SweepRead,
       SweepOne, SweepDone, LeaseOp, LeaseNone, Execute, Persist, PersistFails, PersistFallback,
       FallbackFails, FinalizeSkips, FinalizeJob, LeaseQuietJob,
       LeaseQuietNone, RunQuietJob, FinalizeQuietJob, QuietFallback, Wake
  <2>4. emitted' = emitted \cup {CompletedFrame(target)} /\ pc \in Announcing /\ pc' \notin Announcing
    BY <2>3 DEF EmitCompleted, EmitQuietCompleted, Return, Announcing
  <2>5. CompletedFrame(p) = CompletedFrame(target)
    BY <1>2, <2>4
  <2> QED BY <2>4, <2>5, FrameFacts
<1> QED BY <1>1, <1>2

LEMMA DeletedStays ==
  ASSUME JournalInv, [Next]_vars, NEW p \in Plans, jobs[p] = "deleted"
  PROVE  jobs'[p] = "deleted"
<1>0. jobs \in [Plans -> JobStates]
  BY DEF JournalInv, TypeOK
<1>1. ASSUME NEW q \in Plans, InsertPlan(q) PROVE jobs'[p] = jobs[p]
  BY <1>0, <1>1 DEF InsertPlan
<1>2. ASSUME NEW a \in Accounts, DeleteAccount(a) PROVE jobs'[p] = "deleted"
  BY <1>0, <1>2 DEF DeleteAccount
<1>3. CASE Boot
  BY <1>0, <1>3 DEF Boot, JobsReset
<1>4. CASE FinalizeJob
  BY <1>0, <1>4 DEF FinalizeJob
<1>5. CASE LeaseQuietJob
  BY <1>0, <1>5 DEF LeaseQuietJob, ReadyQuietJobs
<1>6. CASE FinalizeQuietJob \/ QuietFallback
  BY <1>0, <1>6 DEF FinalizeQuietJob, QuietFallback, SetJobStatus
<1>7. CASE UNCHANGED jobs
  BY <1>7
<1> QED BY <1>1, <1>2, <1>3, <1>4, <1>5, <1>6, <1>7, DbWriters DEF LeaseOp, Persist, PersistFallback

(* A job is finished by the step that begins to announce it, or forgotten  *)
(* with its account, or by the failing write of a quiet or calendar job.   *)
LEMMA FinishFacts ==
  ASSUME JournalInv, LiveInv, ContractInv, [Next]_vars, NEW p \in Plans, jobs[p] \in JobActive,
         AccountOf[p] \in accounts', faults' = 0 \/ KindOf[p] = "mail_plan"
  PROVE  jobs'[p] \in JobActive \/ (pc' \in Announcing /\ target' = p)
<1> USE DEF JobActive
<1>0. jobs \in [Plans -> JobStates] /\ (faults' = 0 => faults = 0)
  BY FaultsStay DEF JournalInv, TypeOK
<1>1. ASSUME NEW q \in Plans, InsertPlan(q) PROVE jobs'[p] \in JobActive
  BY <1>0, <1>1 DEF InsertPlan
<1>2. ASSUME NEW a \in Accounts, DeleteAccount(a) PROVE jobs'[p] = jobs[p]
  BY <1>0, <1>2 DEF DeleteAccount
<1>3. CASE Boot
  BY <1>0, <1>3 DEF Boot, JobsReset
<1>4. CASE FinalizeJob
  <2>1. target \in Plans
    BY <1>4 DEF FinalizeJob, JournalInv, HeldInv, Finalizing
  <2>2. CASE target # p
    BY <1>0, <1>4, <2>1, <2>2 DEF FinalizeJob
  <2>3. CASE target = p
    <3>1. ASSUME KindOf[p] = "calendar_plan", NEW o \in OpsOf(p), outcome[o] # "null"
          PROVE  outcome[o] \in CalBlobs
      <4>1. faults = 0 /\ o \in Op /\ o[1] = p
        BY <1>0, <3>1 DEF OpsOf
      <4>2. outcome[o] \in ResultsOf(p)
        BY <3>1, <4>1 DEF JournalInv, FrameInv, Decodable
      <4> QED BY <3>1, <4>2 DEF ResultsOf
    <3>2. CompletionBuilds(p)
      BY <3>1 DEF CompletionBuilds
    <3> QED BY <1>4, <2>3, <3>2 DEF FinalizeJob, held, Announcing
  <2> QED BY <2>2, <2>3
<1>5. CASE LeaseQuietJob
  BY <1>0, <1>5 DEF LeaseQuietJob, ReadyQuietJobs
<1>6. CASE FinalizeQuietJob
  BY <1>0, <1>6 DEF FinalizeQuietJob, SetJobStatus, held, Announcing
<1>7. CASE QuietFallback
  <2>1. faults # 0 /\ KindOf[target] = "mark_chat_read"
    BY <1>7 DEF QuietFallback, LiveInv, JournalInv, HeldInv, QuietRunning
  <2>2. target # p
    BY <1>0, <2>1
  <2> QED BY <1>0, <1>7, <2>2 DEF QuietFallback, SetJobStatus
<1>8. CASE UNCHANGED jobs
  BY <1>8
<1> QED BY <1>1, <1>2, <1>3, <1>4, <1>5, <1>6, <1>7, <1>8, DbWriters DEF LeaseOp, Persist, PersistFallback

LEMMA DoneStep ==
  ASSUME JournalInv, ContractInv, DoneInv, [Next]_vars
  PROVE  DoneInv'
<1> SUFFICES ASSUME NEW p \in Plans, jobs'[p] # "deleted", CompletedFrame(p) \in emitted'
             PROVE  jobs'[p] \in JobTerminal /\ ~(pc' \in Announcing /\ target' = p)
  BY DEF DoneInv
<1>0. jobs \in [Plans -> JobStates] /\ jobs' \in [Plans -> JobStates]
  BY JournalStep DEF JournalInv, TypeOK
<1>1. ASSUME jobs[p] \in JobTerminal PROVE jobs'[p] \in JobTerminal
  <2>1. ASSUME NEW q \in Plans, InsertPlan(q) PROVE jobs'[p] = jobs[p]
    BY <1>0, <1>1, <2>1 DEF InsertPlan, JobTerminal
  <2>2. ASSUME NEW a \in Accounts, DeleteAccount(a) PROVE jobs'[p] = jobs[p]
    BY <1>0, <2>2 DEF DeleteAccount
  <2>3. CASE Boot
    BY <1>0, <1>1, <2>3 DEF Boot, JobsReset, JobTerminal
  <2>4. CASE FinalizeJob
    BY <1>0, <1>1, <2>4, FinalStatusFacts DEF FinalizeJob
  <2>5. CASE LeaseQuietJob
    BY <1>0, <1>1, <2>5 DEF LeaseQuietJob, ReadyQuietJobs, JobTerminal
  <2>6. CASE FinalizeQuietJob
    BY <1>0, <1>1, <2>6 DEF FinalizeQuietJob, SetJobStatus, JobTerminal
  <2>7. CASE QuietFallback
    BY <1>0, <1>1, <2>7 DEF QuietFallback, SetJobStatus, JobTerminal
  <2>8. CASE UNCHANGED jobs
    BY <1>1, <2>8
  <2> QED BY <1>1, <2>1, <2>2, <2>3, <2>4, <2>5, <2>6, <2>7, <2>8, DbWriters DEF LeaseOp, Persist, PersistFallback
<1>2. jobs[p] # "deleted"
  BY DeletedStays
<1>3. CASE CompletedFrame(p) \in emitted
  <2>1. jobs[p] \in JobTerminal /\ ~(pc \in Announcing /\ target = p)
    BY <1>2, <1>3 DEF DoneInv
  <2>2. ~(pc' \in Announcing /\ target' = p)
    BY <1>2, <2>1, AnnouncedBy DEF JobTerminal, JobActive
  <2> QED BY <1>1, <2>1, <2>2
<1>4. CASE CompletedFrame(p) \notin emitted
  <2>1. pc \in Announcing /\ target = p /\ pc' \notin Announcing
    BY <1>4, AnnouncedBy
  <2>2. jobs[p] \in JobTerminal
    BY <1>2, <2>1 DEF ContractInv, SayInv, Announcing
  <2> QED BY <1>1, <2>1, <2>2
<1> QED BY <1>3, <1>4

---------------------------------------------------------------------------
(* Where the answers to the UI's requests may be. *)

Stated(p, s) == StatusFrame(p, s) \in reads \cup Range(wire)

(* Requests end with their child.  A plan is asked about after the respawn *)
(* that made it necessary, and its status is stated once.                  *)
AskInv ==
  /\ ~conn => waiting = {} /\ asked = {}
  /\ bootReady => asking = {}
  /\ \A p \in Plans, s \in Statuses :
       Stated(p, s) => /\ p \notin asking /\ ~bootReady
                       /\ \A t \in Statuses : Stated(p, t) => s = t

(* Whatever makes the UI hold p for accepted is said of a journaled plan. *)
AckInv ==
  \A p \in Plans :
    \/ p \in handling \cup answering \/ AckFrame(p) \in Range(wire)
    \/ Dispatched(p, "acked") \in replies
    \/ Stated(p, "in_flight") \/ Resolved(p, "in_flight") \in replies
    => jobs[p] # "absent"

(* Without a timeout only a death cuts a dispatch off, and no child is     *)
(* installed before the UI knows; before the first child nothing is acked. *)
CutInv == timeouts = 0 /\ conn => \A p \in Plans : Dispatched(p, "unknown") \notin replies

FreshInv ==
  gen = 0 /\ ~conn =>
    \A p \in Plans :
      /\ ui[p] \notin {"acked", "unknown"}
      /\ Dispatched(p, "acked") \notin replies /\ Dispatched(p, "unknown") \notin replies
      /\ Resolved(p, "in_flight") \notin replies

(* A plan whose ack is still to come is served as well. *)
ServedInv ==
  \A p \in Plans :
    Covered(p) /\ ui[p] = "pending" /\ jobs[p] # "absent" /\ conn /\ Up => Served(p)

TrackInv ==
  /\ DoneInv /\ LiveInv /\ AskInv /\ AckInv /\ CutInv /\ FreshInv /\ ServedInv /\ NotForgotten

LEMMA WireIsRange ==
  ASSUME NEW f
  PROVE  (OnWire(f) <=> f \in Range(wire)) /\ (OnWire(f)' <=> f \in Range(wire'))
BY DEF OnWire, Range

(* A frame leaves the pipe when it is read, or lost with the child. *)
LEMMA WireKeeps ==
  ASSUME PipelineInv, [PipelineNext]_pipelineVars, NEW f \in Range(wire), f \notin Range(wire')
  PROVE  HandleCrash \/ ((ReadResponse \/ ReadNotification) /\ wire # <<>> /\ f = Head(wire))
<1>1. Len(wire) \in Nat /\ DOMAIN wire = 1 .. Len(wire)
  BY TypeParts, LenProperties
<1>2. PICK i \in 1 .. Len(wire) : wire[i] = f
  BY <1>1 DEF Range
<1>3. CASE ReadResponse \/ ReadNotification
  <2>1. wire # <<>> /\ wire' = Tail(wire)
    BY <1>3 DEF ReadResponse, ReadNotification
  <2>2. /\ wire' \in Seq(Frames \cup Responses) /\ Len(wire') = Len(wire) - 1
        /\ \A j \in 1 .. Len(wire) - 1 : wire'[j] = wire[j + 1]
        /\ Head(wire) = wire[1]
    BY <2>1, TypeParts, RangeOfTail
  <2>3. DOMAIN wire' = 1 .. Len(wire) - 1
    BY <2>2, LenProperties
  <2>4. CASE i = 1
    BY <1>2, <1>3, <2>1, <2>2, <2>4
  <2>5. CASE i # 1
    <3>1. i - 1 \in 1 .. Len(wire) - 1 /\ (i - 1) + 1 = i
      BY <1>1, <1>2, <2>5
    <3>2. wire'[i - 1] = f /\ i - 1 \in DOMAIN wire'
      BY <1>2, <2>2, <2>3, <3>1
    <3> QED BY <3>2 DEF Range
  <2> QED BY <2>4, <2>5
<1>4. CASE \E g \in Frames \cup Responses : NewFrame(g)
  <2>1. Len(wire') = Len(wire) + 1 /\ wire'[i] = f
    BY <1>2, <1>4 DEF NewFrame
  <2>2. i \in DOMAIN wire'
    <3>1. wire' \in Seq(Frames \cup Responses)
      BY PipeStep DEF PipeType
    <3> QED BY <1>1, <2>1, <3>1, LenProperties
  <2> QED BY <2>1, <2>2 DEF Range
<1>5. CASE Quiet \/ ServiceNotification
  BY <1>5 DEF Quiet, ServiceNotification
<1> QED BY <1>3, <1>4, <1>5, StreamCases

LEMMA FrameIsWritten ==
  ASSUME PipelineInv, NEW f \in Frames \cup Responses, Written(<<f>>), conn
  PROVE  f \in Range(wire')
<1>1. /\ wire' \in Seq(Frames \cup Responses) /\ Len(wire') = Len(wire) + 1
      /\ wire'[Len(wire) + 1] = f
  BY WriteFacts
<1>2. Len(wire) \in Nat /\ DOMAIN wire' = 1 .. Len(wire')
  BY <1>1, TypeParts, LenProperties
<1>3. Len(wire) + 1 \in DOMAIN wire'
  BY <1>1, <1>2
<1> QED BY <1>1, <1>3 DEF Range

(* What the reader task does with the response a request waits for. *)
LEMMA ResponseIsTaken ==
  ASSUME PipelineInv, ReadResponse, NEW p \in Plans
  PROVE  /\ Head(wire) \in {AckFrame(p), ErrorFrame(p)} => p \notin waiting'
         /\ \A s \in Statuses : Head(wire) = StatusFrame(p, s) /\ p \in asked =>
              Resolved(p, s) \in replies'
         /\ \A f \in Frames : Head(wire) # f
         /\ p \in waiting \ waiting' =>
              Dispatched(p, "acked") \in replies' \/ Dispatched(p, "failed") \in replies'
         /\ p \in asked \ asked' =>
              \E s \in Statuses : StatusFrame(p, s) \in Range(wire) /\ Resolved(p, s) \in replies'
<1> DEFINE f == Head(wire)
<1>1. ASSUME f \in {AckFrame(p), ErrorFrame(p)} PROVE p \notin waiting'
  <2>1. f.type \in {"ack", "error"} /\ f.plan = p
    BY <1>1, FrameKinds
  <2> QED BY <2>1 DEF ReadResponse
<1>2. ASSUME NEW s \in Statuses, f = StatusFrame(p, s), p \in asked
      PROVE  Resolved(p, s) \in replies'
  <2>1. f.type = "status" /\ f.plan = p /\ f.status = s
    BY <1>2, FrameKinds
  <2> QED BY <1>2, <2>1 DEF ReadResponse
<1>3. f.type \in {"ack", "error", "status"}
  BY DEF ReadResponse
<1>4. \A g \in Frames : f # g
  BY <1>3, KindOfResponse
<1>5. p \in waiting \ waiting' =>
        Dispatched(p, "acked") \in replies' \/ Dispatched(p, "failed") \in replies'
  BY ResponseFacts
<1>6. p \in asked \ asked' =>
        \E s \in Statuses : StatusFrame(p, s) \in Range(wire) /\ Resolved(p, s) \in replies'
  BY ResponseFacts
<1> QED BY <1>1, <1>2, <1>4, <1>5, <1>6

(* A message leaves when the UI has handled it. *)
LEMMA ReplyKeeps ==
  ASSUME PipelineInv, [PipelineNext]_pipelineVars, NEW m \in replies, m \notin replies'
  PROVE  \/ \E q \in Plans, r \in {"acked", "unknown", "failed"} :
              /\ m = Dispatched(q, r) /\ ActionDispatched(q)
              /\ Concludes(q, IF r = "failed" THEN "reverted" ELSE r)
         \/ \E q \in Plans, r \in {"terminal", "in_flight", "not_found", "error"} :
              /\ m = Resolved(q, r) /\ JobStatusResolved(q)
              /\ \/ r = "terminal" /\ Concludes(q, "reconciled")
                 \/ r = "in_flight" /\ Concludes(q, "acked")
                 \/ r = "not_found" /\ Concludes(q, "reverted")
                 \/ r = "error" /\ UNCHANGED ui
<1> USE DEF client, handlers, tracked
<1>1. \E q \in Plans : ActionDispatched(q) \/ JobStatusResolved(q)
  BY DEF PipelineNext, pipelineVars, UIStep, HandleRequest, Reconcile, Accept, Reject,
      ServiceNotification, Notify, Ack, ReadStatus, AnswerStatus, Work, Administer,
      ReadResponse, ReadNotification, HandleCrash, Die, Respawn, Dispatch, Timeout
<1>2. PICK q \in Plans : ActionDispatched(q) \/ JobStatusResolved(q)
  BY <1>1
<1>3. CASE ActionDispatched(q)
  BY <1>3, DispatchedFacts
<1>4. CASE JobStatusResolved(q)
  BY <1>4, ResolvedFacts
<1> QED BY <1>2, <1>3, <1>4

(* A request ends answered, timed out or with its child. *)
LEMMA WaitingAnswered ==
  ASSUME PipelineInv, [PipelineNext]_pipelineVars, NEW p \in waiting, p \notin waiting'
  PROVE  \E r \in {"acked", "unknown", "failed"} : Dispatched(p, r) \in replies'
<1>0. p \in Plans
  BY TypeParts
<1>1. CASE ReadResponse
  BY <1>0, <1>1, ResponseIsTaken
<1>2. CASE Timeout(p)
  BY <1>2 DEF Timeout, CutOff
<1>3. CASE HandleCrash
  BY <1>3 DEF HandleCrash, CrashReplies, CutOff
<1> QED BY <1>1, <1>2, <1>3, WaitingFacts

LEMMA AskedAnswered ==
  ASSUME PipelineInv, [PipelineNext]_pipelineVars, NEW p \in asked, p \notin asked',
         conn', timeouts' = timeouts
  PROVE  \E s \in Statuses : StatusFrame(p, s) \in Range(wire) /\ Resolved(p, s) \in replies'
<1> USE DEF client, handlers, tracked
<1>0. p \in Plans /\ timeouts \in Nat
  BY TypeParts
<1>1. ~HandleCrash
  BY DEF HandleCrash
<1>a. ASSUME NEW q \in Plans, Timeout(q) PROVE FALSE
  <2>1. timeouts' = timeouts + 1
    BY <1>a DEF Timeout
  <2> QED BY <1>0, <2>1
<1>2. ReadResponse
  BY <1>1, <1>a
  DEF PipelineNext, pipelineVars, UIStep, HandleRequest, Reconcile, Accept, Reject,
      ActionDispatched, JobStatusResolved, ServiceNotification, Notify, Ack, ReadStatus,
      AnswerStatus, Work, Administer, ReadNotification, Die, Respawn, Dispatch
<1> QED BY <1>0, <1>2, ResponseIsTaken

LEMMA MessagesDiffer ==
  ASSUME NEW p, NEW q, NEW r, NEW s
  PROVE  /\ Dispatched(p, r) = Dispatched(q, s) => p = q /\ r = s
         /\ Resolved(p, r) = Resolved(q, s) => p = q /\ r = s
         /\ Dispatched(p, r) # Resolved(q, s)
<1>1. Dispatched(p, r).type # Resolved(q, s).type
  BY DEF Dispatched, Resolved
<1>2. Dispatched(p, r) = Dispatched(q, s) => p = q /\ r = s
  BY DEF Dispatched
<1>3. Resolved(p, r) = Resolved(q, s) => p = q /\ r = s
  BY DEF Resolved
<1> QED BY <1>1, <1>2, <1>3

(* The UI hears of an ack or of a job in flight from the Service, and of   *)
(* an unanswered dispatch from a timeout or a death.                       *)
LEMMA MessageSource ==
  ASSUME PipelineInv, [PipelineNext]_pipelineVars, NEW p \in Plans
  PROVE  /\ Dispatched(p, "acked") \in replies' =>
              Dispatched(p, "acked") \in replies \/ AckFrame(p) \in Range(wire)
         /\ Dispatched(p, "unknown") \in replies' =>
              Dispatched(p, "unknown") \in replies \/ (p \in waiting /\ (Timeout(p) \/ HandleCrash))
         /\ Resolved(p, "in_flight") \in replies' =>
              \/ Resolved(p, "in_flight") \in replies
              \/ StatusFrame(p, "in_flight") \in Range(wire)
<1> USE DEF client, handlers, tracked
<1> DEFINE a == Dispatched(p, "acked")  u == Dispatched(p, "unknown")  r == Resolved(p, "in_flight")
<1>0. /\ \A q, s : a = Dispatched(q, s) => q = p /\ s = "acked"
      /\ \A q, s : u = Dispatched(q, s) => q = p /\ s = "unknown"
      /\ \A q, s : r = Resolved(q, s) => q = p /\ s = "in_flight"
      /\ \A q, s : a # Resolved(q, s) /\ u # Resolved(q, s) /\ r # Dispatched(q, s)
  BY MessagesDiffer
<1>a. CutOff = "unknown"
  BY DEF CutOff
<1> HIDE DEF a, u, r
<1>1. CASE ReadResponse
  BY <1>0, <1>1, ResponseFacts DEF a, u, r
<1>2. ASSUME NEW q \in Plans, Timeout(q)
      PROVE  /\ a \in replies' => a \in replies
             /\ u \in replies' => u \in replies \/ (q = p /\ p \in waiting)
             /\ r \in replies' => r \in replies
  BY <1>0, <1>a, <1>2 DEF Timeout
<1>3. CASE HandleCrash
  <2>1. a \notin CrashReplies /\ r \notin CrashReplies /\ (u \in CrashReplies => p \in waiting)
    BY <1>0, <1>a DEF CrashReplies
  <2> QED BY <1>3, <2>1 DEF HandleCrash, a, u, r
<1>4. CASE Reconcile
  <2>1. replies' \subseteq replies \cup {Resolved(q, "error") : q \in Unreconciled}
    BY <1>4 DEF Reconcile
  <2> QED BY <1>0, <2>1 DEF a, u, r
<1>5. ASSUME NEW q \in Plans, Dispatch(q)
      PROVE  /\ a \in replies' => a \in replies
             /\ u \in replies' => u \in replies
             /\ r \in replies' => r \in replies
  BY <1>0, <1>5 DEF Dispatch
<1>6. CASE replies' \subseteq replies
  BY <1>6 DEF a, u, r
<1> QED BY <1>1, <1>2, <1>3, <1>4, <1>5, <1>6
        DEF a, u, r, PipelineNext, pipelineVars, UIStep, HandleRequest, Accept, Reject,
            ActionDispatched, JobStatusResolved, ServiceNotification, Notify, Ack, ReadStatus,
            AnswerStatus, Work, Administer, ReadNotification, Die, Respawn

(* Without a child nothing is waited for, nor anything read. *)
LEMMA ConnStep ==
  ASSUME PipelineInv, AskInv, [PipelineNext]_pipelineVars, ~conn'
  PROVE  waiting' = {} /\ asked' = {}
<1> USE DEF client, handlers, tracked
<1>1. CASE HandleCrash
  BY <1>1 DEF HandleCrash
<1>2. CASE ~HandleCrash
  <2>1. ~conn
    BY <1>2, DeathFacts
  <2>2. waiting = {} /\ asked = {}
    BY <2>1 DEF AskInv
  <2> QED BY <1>2, <2>1, <2>2
      DEF PipelineNext, pipelineVars, UIStep, HandleRequest, Reconcile, Accept, Reject,
          ActionDispatched, JobStatusResolved, ServiceNotification, Notify, Ack, ReadStatus,
          AnswerStatus, Work, Administer, ReadResponse, ReadNotification, Die, Respawn, Dispatch,
          Timeout
<1> QED BY <1>1, <1>2

(* Where a status frame comes from. *)
LEMMA StatedFacts ==
  ASSUME PipelineInv, [PipelineNext]_pipelineVars, NEW p \in Plans, NEW s \in Statuses,
         Stated(p, s)'
  PROVE  Stated(p, s) \/ (ReadStatus(p) /\ s = JobStatusOf(p))
<1> USE DEF client, handlers, tracked
<1> DEFINE f == StatusFrame(p, s)
<1>0. f \in StatusFrames
  BY DEF StatusFrames
<1>1. CASE f \in Range(wire')
  <2>1. f \notin Frames
    BY <1>0, KindOfResponse
  <2>2. \A q \in Plans : f # AckFrame(q) /\ f # ErrorFrame(q)
    BY FrameKinds
  <2> QED BY <1>1, <2>1, <2>2, WireFacts DEF Stated
<1>2. CASE f \in reads' /\ f \notin reads
  <2>1. PICK q \in Plans : ReadStatus(q)
    BY <1>2
    DEF PipelineNext, pipelineVars, UIStep, HandleRequest, Reconcile, Accept, Reject,
        ActionDispatched, JobStatusResolved, ServiceNotification, Notify, Ack,
        AnswerStatus, Work, Administer, ReadResponse, ReadNotification, HandleCrash, Die, Respawn,
        Dispatch, Timeout
  <2>2. f = StatusFrame(q, JobStatusOf(q))
    BY <1>2, <2>1 DEF ReadStatus
  <2>3. q = p /\ s = JobStatusOf(p)
    BY <2>2, FrameKinds
  <2> QED BY <2>1, <2>3
<1> QED BY <1>1, <1>2 DEF Stated

(* The reconciliation is over before anything is stated. *)
LEMMA AskStep ==
  ASSUME PipelineInv, AskInv, [PipelineNext]_pipelineVars
  PROVE  AskInv'
<1> USE DEF client, handlers, tracked
<1>0. /\ bootReady => asking = {}
      /\ \A p \in Plans, s \in Statuses :
           Stated(p, s) => /\ p \notin asking /\ ~bootReady
                           /\ \A t \in Statuses : Stated(p, t) => s = t
  BY DEF AskInv
<1>1. asking' \subseteq asking \/ (Reconcile /\ bootReady)
  BY DEF PipelineNext, pipelineVars, UIStep, HandleRequest, Reconcile, Accept, Reject,
      ActionDispatched, JobStatusResolved, ServiceNotification, Notify, Ack, ReadStatus,
      AnswerStatus, Work, Administer, ReadResponse, ReadNotification, HandleCrash, Die, Respawn,
      Dispatch, Timeout
<1>2. CASE Respawn
  <2>1. ~conn /\ ~Up /\ UNCHANGED <<wire, reads, asking>>
    BY <1>2 DEF Respawn, Boot, Up
  <2>2. wire' = <<>> /\ reads' = {} /\ asking' = {}
    BY <2>1 DEF PipelineInv, ProcessInv
  <2>3. \A p \in Plans, s \in Statuses : ~Stated(p, s)'
    BY <2>2 DEF Stated, Range
  <2> QED BY <2>2, <2>3, ConnStep DEF AskInv
<1>3. CASE ~Respawn
  <2>1. bootReady' => bootReady /\ ~Reconcile
    BY <1>3
    DEF PipelineNext, pipelineVars, UIStep, HandleRequest, Reconcile, Accept, Reject,
      ActionDispatched, JobStatusResolved, ServiceNotification, Notify, Ack, ReadStatus,
      AnswerStatus, Work, Administer, ReadResponse, ReadNotification, HandleCrash, Die,
      Dispatch, Timeout
  <2>2. bootReady' => asking' = {}
    BY <1>0, <1>1, <2>1
  <2>3. ASSUME NEW p \in Plans, NEW s \in Statuses, Stated(p, s)'
        PROVE  /\ p \notin asking' /\ ~bootReady'
               /\ \A t \in Statuses : Stated(p, t)' => s = t
    <3>1. CASE ReadStatus(p)
      <4>1. p \in asking /\ p \notin asking' /\ ~bootReady
        BY <1>0, <3>1 DEF ReadStatus
      <4>2. \A t \in Statuses : ~Stated(p, t)
        BY <1>0, <4>1
      <4> QED BY <2>1, <2>3, <4>1, <4>2, StatedFacts
    <3>2. CASE ~ReadStatus(p)
      <4>1. \A t \in Statuses : Stated(p, t)' => Stated(p, t)
        BY <3>2, StatedFacts
      <4> QED BY <1>0, <1>1, <2>1, <2>3, <4>1
    <3> QED BY <3>1, <3>2
  <2> QED BY <2>2, <2>3, ConnStep DEF AskInv
<1> QED BY <1>2, <1>3

LEMMA AckStep ==
  ASSUME PipelineInv, AckInv, [PipelineNext]_pipelineVars
  PROVE  AckInv'
<1> USE DEF client, handlers, tracked
<1> SUFFICES ASSUME NEW p \in Plans,
                    \/ p \in handling' \cup answering' \/ AckFrame(p) \in Range(wire')
                    \/ Dispatched(p, "acked") \in replies'
                    \/ Stated(p, "in_flight")' \/ Resolved(p, "in_flight") \in replies'
             PROVE  jobs'[p] # "absent"
  BY DEF AckInv
<1>0. \/ p \in handling \cup answering \/ AckFrame(p) \in Range(wire)
      \/ Dispatched(p, "acked") \in replies
      \/ Stated(p, "in_flight") \/ Resolved(p, "in_flight") \in replies
      \/ jobs[p] # "absent"
      => jobs'[p] # "absent"
  BY Stability DEF AckInv
<1>1. ASSUME p \in handling' \cup answering', p \notin handling \cup answering
      PROVE  jobs'[p] # "absent"
  <2>1. ASSUME NEW q \in Plans, Accept(q) PROVE jobs'[p] # "absent"
    <3>1. p = q
      BY <1>1, <2>1 DEF Accept, InsertPlan
    <3>2. jobs' = [jobs EXCEPT ![p] = "queued"] /\ jobs \in [Plans -> JobStates]
      BY <2>1, <3>1 DEF Accept, InsertPlan, PipelineInv, JournalInv, TypeOK
    <3> QED BY <3>2
  <2>2. ASSUME NEW q \in Plans, Notify(q) PROVE FALSE
    BY <1>1, <2>2 DEF Notify, NotifyWorker
  <2>3. WorkerStep => handling' = handling
    BY WorkerKeepsHandling
  <2>4. \/ \E q \in Plans : Accept(q) \/ Notify(q)
        \/ handling' \subseteq handling /\ answering' \subseteq answering
    BY <2>3
    DEF PipelineNext, pipelineVars, vars, signals, UIStep, HandleRequest, Reconcile, Reject,
        ActionDispatched, JobStatusResolved, ServiceNotification, Ack, ReadStatus,
        AnswerStatus, Work, Administer, Kick, DeleteAccount, ReadResponse, ReadNotification,
        HandleCrash, Die, Crash, Respawn, Boot, Dispatch, Timeout
  <2> QED BY <1>1, <2>1, <2>2, <2>4
<1>2. ASSUME AckFrame(p) \in Range(wire'), AckFrame(p) \notin Range(wire)
      PROVE  p \in answering
  <2>1. AckFrame(p) \notin Frames /\ AckFrame(p) \notin reads
    <3>1. AckFrame(p).type = "ack"
      BY FrameKinds
    <3> QED BY <3>1, KindOfResponse, TypeParts
  <2>2. \A q \in Plans : AckFrame(p) # ErrorFrame(q)
    BY FrameKinds
  <2>3. PICK q \in Plans : Ack(q) /\ AckFrame(p) = AckFrame(q)
    BY <1>2, <2>1, <2>2, WireFacts
  <2> QED BY <2>3, FrameKinds DEF Ack
<1>3. ASSUME Stated(p, "in_flight")', ~Stated(p, "in_flight")
      PROVE  jobs[p] # "absent"
  <2>1. "in_flight" = JobStatusOf(p)
    BY <1>3, StatedFacts DEF Statuses
  <2> QED BY <2>1 DEF JobStatusOf
<1>4. ASSUME NEW m \in {Dispatched(p, "acked"), Resolved(p, "in_flight")}, m \in replies', m \notin replies
      PROVE  AckFrame(p) \in Range(wire) \/ Stated(p, "in_flight")
  BY <1>4, MessageSource DEF Stated
<1> QED BY <1>0, <1>1, <1>2, <1>3, <1>4

---------------------------------------------------------------------------
(* How the UI comes to track a plan, and what it is then owed. *)

LEMMA TimeoutsStay ==
  ASSUME PipelineInv, [PipelineNext]_pipelineVars, timeouts' = 0
  PROVE  timeouts = 0 /\ \A q \in Plans : ~Timeout(q)
<1> USE DEF client, handlers, tracked
<1>0. timeouts \in Nat
  BY TypeParts
<1>1. ASSUME NEW q \in Plans, Timeout(q) PROVE FALSE
  <2>1. timeouts' = timeouts + 1
    BY <1>1 DEF Timeout
  <2> QED BY <1>0, <2>1
<1>2. UNCHANGED timeouts
  BY <1>1
  DEF PipelineNext, pipelineVars, UIStep, HandleRequest, Reconcile, Accept, Reject,
      ActionDispatched, JobStatusResolved, ServiceNotification, Notify, Ack, ReadStatus,
      AnswerStatus, Work, Administer, ReadResponse, ReadNotification, HandleCrash, Die, Respawn,
      Dispatch
<1> QED BY <1>1, <1>2

LEMMA EmittedByWork ==
  ASSUME [PipelineNext]_pipelineVars, ~(emitted' \subseteq emitted)
  PROVE  Work
BY DEF PipelineNext, pipelineVars, client, handlers, tracked, vars, history, UIStep,
       HandleRequest, Reconcile, Accept, InsertPlan, Reject, ActionDispatched,
       JobStatusResolved, ServiceNotification, Notify, NotifyWorker, Ack, ReadStatus,
       AnswerStatus, Administer, Kick, DeleteAccount, ReadResponse, ReadNotification,
       HandleCrash, Die, Crash, Respawn, Boot, Dispatch, Timeout

LEMMA TrackFacts ==
  ASSUME PipelineInv, [PipelineNext]_pipelineVars, NEW p \in Plans
  PROVE  /\ ui'[p] = "pending" => ui[p] = "pending" \/ Dispatch(p)
         /\ ui'[p] \in {"acked", "unknown"} =>
              \/ ui[p] \in {"acked", "unknown"}
              \/ /\ ui[p] = "pending"
                 /\ \/ Dispatched(p, "acked") \in replies \/ Dispatched(p, "unknown") \in replies
                    \/ Resolved(p, "in_flight") \in replies
<1> USE DEF client, handlers, tracked
<1> DEFINE Goal == /\ ui'[p] = "pending" => ui[p] = "pending" \/ Dispatch(p)
                   /\ ui'[p] \in {"acked", "unknown"} =>
                        \/ ui[p] \in {"acked", "unknown"}
                        \/ /\ ui[p] = "pending"
                           /\ \/ Dispatched(p, "acked") \in replies
                              \/ Dispatched(p, "unknown") \in replies
                              \/ Resolved(p, "in_flight") \in replies
<1>1. CASE UNCHANGED ui
  BY <1>1
<1>2. ASSUME NEW q \in Plans, Dispatch(q) PROVE Goal
  BY <1>2, TypeParts DEF Dispatch
<1>3. ASSUME NEW q \in Plans, ActionDispatched(q) PROVE Goal
  <2>1. PICK r \in {"acked", "unknown", "failed"} :
          /\ Dispatched(q, r) \in replies
          /\ Concludes(q, IF r = "failed" THEN "reverted" ELSE r)
    BY <1>3, DispatchedFacts
  <2>2. CASE q # p
    BY <2>1, <2>2 DEF Concludes
  <2>3. CASE q = p
    BY <2>1, <2>3 DEF Concludes, PlanStates
  <2> QED BY <2>2, <2>3
<1>4. ASSUME NEW q \in Plans, JobStatusResolved(q) PROVE Goal
  <2>1. \/ Concludes(q, "reconciled") \/ Concludes(q, "reverted") \/ UNCHANGED ui
        \/ Resolved(q, "in_flight") \in replies /\ Concludes(q, "acked")
    BY <1>4, ResolvedFacts
  <2>2. CASE q # p
    BY <2>1, <2>2 DEF Concludes
  <2>3. CASE q = p
    BY <2>1, <2>3 DEF Concludes, PlanStates
  <2> QED BY <2>2, <2>3
<1>5. CASE ServiceNotification
  <2>1. UNCHANGED ui \/ \E q \in Plans : Concludes(q, "completed")
    BY <1>5, NotificationFacts
  <2> QED BY <1>1, <2>1 DEF Concludes
<1> HIDE DEF Goal
<1>6. Goal
  BY <1>1, <1>2, <1>3, <1>4, <1>5
  DEF Goal, PipelineNext, pipelineVars, UIStep, HandleRequest, Reconcile, Accept, Reject,
      Notify, Ack, ReadStatus, AnswerStatus, Work, Administer, ReadResponse,
      ReadNotification, HandleCrash, Die, Respawn, Timeout
<1> QED BY <1>6 DEF Goal

LEMMA CutStep ==
  ASSUME PipelineInv, CutInv, [PipelineNext]_pipelineVars
  PROVE  CutInv'
<1> SUFFICES ASSUME timeouts' = 0, conn', NEW p \in Plans, Dispatched(p, "unknown") \in replies'
             PROVE  FALSE
  BY DEF CutInv
<1>1. timeouts = 0 /\ \A q \in Plans : ~Timeout(q)
  BY TimeoutsStay
<1>2. ~HandleCrash
  BY DEF HandleCrash
<1>3. Dispatched(p, "unknown") \in replies
  BY <1>1, <1>2, MessageSource
<1>4. ~conn
  BY <1>1, <1>3 DEF CutInv
<1>5. Respawn
  BY <1>2, <1>4, DeathFacts
<1>6. Dispatched(p, "unknown").type = "dispatched"
  BY FrameKinds
<1> QED BY <1>3, <1>5, <1>6 DEF Respawn

LEMMA FreshStep ==
  ASSUME PipelineInv, AskInv, FreshInv, [PipelineNext]_pipelineVars
  PROVE  FreshInv'
<1> SUFFICES ASSUME gen' = 0, ~conn', NEW p \in Plans
             PROVE  /\ ui'[p] \notin {"acked", "unknown"}
                    /\ Dispatched(p, "acked") \notin replies' /\ Dispatched(p, "unknown") \notin replies'
                    /\ Resolved(p, "in_flight") \notin replies'
  BY DEF FreshInv
<1>0. gen \in Nat
  BY TypeParts
<1>1. ~HandleCrash
  <2>1. HandleCrash => gen' = gen + 1
    BY DEF HandleCrash
  <2> QED BY <1>0, <2>1
<1>2. ~conn /\ gen = 0
  BY <1>1, DeathFacts
<1>3. /\ ui[p] \notin {"acked", "unknown"}
      /\ Dispatched(p, "acked") \notin replies /\ Dispatched(p, "unknown") \notin replies
      /\ Resolved(p, "in_flight") \notin replies
  BY <1>2 DEF FreshInv
<1>4. Range(wire) = {} /\ waiting = {}
  BY <1>2 DEF PipelineInv, ProcessInv, AskInv, Range
<1>5. ui'[p] \notin {"acked", "unknown"}
  BY <1>3, TrackFacts
<1> QED BY <1>3, <1>4, <1>5, MessageSource

(* While child and Service run, a served plan stays served until the UI    *)
(* has its completion.                                                     *)
LEMMA ServedStep ==
  ASSUME PipelineInv, DoneInv, LiveInv, [PipelineNext]_pipelineVars, NEW p \in Plans,
         Served(p), Covered(p)', conn, Up, conn', Up'
  PROVE  Served(p)' \/ ui'[p] \notin PlanStates
<1>0. /\ JournalInv /\ ContractInv /\ [Next]_vars
      /\ ~HandleCrash /\ gen' = gen
  <2>1. ~HandleCrash
    BY DEF HandleCrash
  <2> QED BY <2>1, DeathFacts, JournalPart DEF PipelineInv
<1>1. /\ AccountOf[p] \in accounts' /\ (faults' = 0 \/ KindOf[p] = "mail_plan")
      /\ AccountOf[p] \in accounts /\ jobs[p] # "deleted"
  BY <1>0, LiveStep DEF Covered, LiveInv
<1>2. CASE jobs[p] \in JobActive
  BY <1>0, <1>1, <1>2, FinishFacts DEF Served, Completing
<1>3. CASE pc \in Announcing /\ target = p
  <2>1. CompletedFrame(p) \notin emitted
    BY <1>1, <1>3 DEF DoneInv
  <2>2. CASE UNCHANGED <<pc, target>>
    BY <1>3, <2>2 DEF Served, Completing
  <2>3. CASE emitted' = emitted \cup {CompletedFrame(p)}
    <3>1. Work
      BY <2>1, <2>3, EmittedByWork
    <3>2. PICK f \in Frames : f \in emitted' \ emitted /\ Written(<<f>>)
      BY <2>1, <2>3, <3>1, WorkFacts
    <3>3. CompletedFrame(p) \in Range(wire')
      BY <2>3, <3>2, FrameIsWritten
    <3> QED BY <3>3, WireIsRange DEF Served, Completing
  <2>4. ~Crash
    BY DEF Crash, Up
  <2> QED BY <1>0, <1>3, <2>2, <2>3, <2>4, AnnounceFacts
<1>4. CASE CompletedFrame(p) \in Range(wire)
  <2>1. CASE CompletedFrame(p) \in Range(wire')
    BY <2>1, WireIsRange DEF Served, Completing
  <2>2. CASE CompletedFrame(p) \notin Range(wire')
    <3>1. CompletedFrame(p) \in Frames
      BY DEF Frames
    <3>2. ReadNotification /\ Head(wire) = CompletedFrame(p)
      BY <1>0, <1>4, <2>2, <3>1, WireKeeps, ResponseIsTaken
    <3>3. queue' = Append(queue, [frame |-> CompletedFrame(p), gen |-> gen])
      BY <3>2 DEF ReadNotification
    <3>4. [frame |-> CompletedFrame(p), gen |-> gen] \in [frame : Frames, gen : Nat]
      BY <3>1, TypeParts
    <3>5. /\ Len(queue) + 1 \in DOMAIN queue'
          /\ queue'[Len(queue) + 1] = [frame |-> CompletedFrame(p), gen |-> gen']
      <4>1. /\ queue' \in Seq([frame : Frames, gen : Nat]) /\ Len(queue') = Len(queue) + 1
            /\ queue'[Len(queue) + 1] = [frame |-> CompletedFrame(p), gen |-> gen]
        BY <3>3, <3>4, TypeParts, AppendProperties
      <4>2. DOMAIN queue' = 1 .. Len(queue) + 1 /\ Len(queue) \in Nat
        BY <4>1, TypeParts, LenProperties
      <4> QED BY <1>0, <4>1, <4>2
    <3> QED BY <3>5 DEF Served, Completing
  <2> QED BY <2>1, <2>2
<1>5. CASE \E i \in DOMAIN queue : queue[i] = [frame |-> CompletedFrame(p), gen |-> gen]
  <2>0. PICK i \in 1 .. Len(queue) : queue[i] = [frame |-> CompletedFrame(p), gen |-> gen]
    BY <1>5, TypeParts, LenProperties
  <2>1. Len(queue) \in Nat
    BY TypeParts, LenProperties
  <2>2. CASE UNCHANGED queue
    BY <1>0, <1>5, <2>2 DEF Served, Completing
  <2>3. CASE /\ DOMAIN queue' = 1 .. Len(queue) + 1
             /\ \A j \in 1 .. Len(queue) : queue'[j] = queue[j]
    <3>1. i \in DOMAIN queue' /\ queue'[i] = [frame |-> CompletedFrame(p), gen |-> gen']
      BY <1>0, <2>0, <2>1, <2>3
    <3> QED BY <3>1 DEF Served, Completing
  <2>4. CASE /\ ServiceNotification /\ DOMAIN queue' = 1 .. Len(queue) - 1
             /\ \A j \in 1 .. Len(queue) - 1 : queue'[j] = queue[j + 1]
             /\ Head(queue) = queue[1]
    <3>1. CASE i = 1
      <4>1. Head(queue).frame = CompletedFrame(p) /\ Head(queue).gen = gen
        BY <2>0, <2>4, <3>1
      <4>2. PICK q \in Plans : CompletedFrame(p) = CompletedFrame(q) /\ Concludes(q, "completed")
        <5>1. \A o, b : CompletedFrame(p) # OutcomeFrame(o, b)
          BY FrameFacts
        <5> QED BY <2>4, <4>1, <5>1, NotificationFacts
      <4>3. q = p
        BY <4>2, FrameFacts
      <4> QED BY <4>2, <4>3 DEF Concludes, PlanStates
    <3>2. CASE i # 1
      <4>1. i - 1 \in DOMAIN queue' /\ queue'[i - 1] = [frame |-> CompletedFrame(p), gen |-> gen']
        <5>1. i - 1 \in 1 .. Len(queue) - 1 /\ (i - 1) + 1 = i
          BY <2>0, <2>1, <3>2
        <5> QED BY <1>0, <2>0, <2>4, <5>1
      <4> QED BY <4>1 DEF Served, Completing
    <3> QED BY <3>1, <3>2
  <2> QED BY <2>2, <2>3, <2>4, QueueFacts
<1> QED BY <1>2, <1>3, <1>4, <1>5, WireIsRange DEF Served, Completing

(* A job_status answer that settles the plan stays on its way, unless the  *)
(* job turns out to be under way.                                          *)
LEMMA AskingStep ==
  ASSUME PipelineInv, AskInv, [PipelineNext]_pipelineVars, NEW p \in Plans,
         Asking(p), conn, Up, conn', Up', timeouts' = timeouts
  PROVE  Asking(p)' \/ jobs'[p] \in JobActive \/ ui'[p] \notin {"acked", "unknown"}
<1> USE DEF client, handlers, tracked
<1> DEFINE Ends == {"terminal", "not_found"}
<1>0. /\ Ends \subseteq Statuses /\ ~HandleCrash /\ ~Die
      /\ \A s \in Statuses : Stated(p, s) => p \notin asking /\ \A t \in Statuses : Stated(p, t) => s = t
  BY DEF AskInv, Statuses, HandleCrash, Die, Crash, Up
<1>1. ASSUME p \in asked, p \notin asked'
      PROVE  \E t \in Statuses : Stated(p, t) /\ Resolved(p, t) \in replies'
  BY <1>1, AskedAnswered DEF Stated
<1>2. CASE p \in asked /\ p \in asking
  <2>1. p \in asked'
    BY <1>0, <1>1, <1>2
  <2>2. CASE p \in asking'
    BY <2>1, <2>2 DEF Asking
  <2>3. CASE p \notin asking'
    <3>1. ReadStatus(p)
      <4>1. ASSUME NEW q \in Plans, ReadStatus(q) PROVE q = p
        BY <1>2, <2>3, <4>1 DEF ReadStatus
      <4> QED BY <1>0, <1>2, <2>3, <4>1
          DEF PipelineNext, pipelineVars, UIStep, HandleRequest, Reconcile, Accept, Reject,
              ActionDispatched, JobStatusResolved, ServiceNotification, Notify, Ack, ReadStatus,
              AnswerStatus, Work, Administer, ReadResponse, ReadNotification, Respawn, Dispatch,
              Timeout
    <3>2. StatusFrame(p, JobStatusOf(p)) \in reads' /\ jobs' = jobs /\ jobs[p] \in JobStates
      BY <3>1 DEF ReadStatus, vars, db, PipelineInv, JournalInv, TypeOK
    <3>3. CASE JobStatusOf(p) \in Ends
      BY <2>1, <3>2, <3>3 DEF Asking
    <3>4. CASE JobStatusOf(p) \notin Ends
      BY <3>2, <3>4 DEF JobStatusOf, JobStates
    <3> QED BY <3>3, <3>4
  <2> QED BY <2>2, <2>3
<1>3. ASSUME NEW s \in Ends, p \in asked, StatusFrame(p, s) \in reads \cup Range(wire)
      PROVE  Asking(p)'
  <2>1. CASE p \notin asked'
    <3>1. Resolved(p, s) \in replies'
      BY <1>0, <1>1, <1>3, <2>1 DEF Stated
    <3> QED BY <3>1 DEF Asking
  <2>2. CASE StatusFrame(p, s) \in reads' \cup Range(wire') /\ p \in asked'
    BY <2>2, WireIsRange DEF Asking
  <2>3. CASE StatusFrame(p, s) \notin reads' \cup Range(wire')
    <3>1. StatusFrame(p, s) \in StatusFrames /\ StatusFrame(p, s) \in Frames \cup Responses
      BY <1>0 DEF StatusFrames, Responses
    <3>2. CASE StatusFrame(p, s) \in Range(wire)
      <4>1. ReadResponse /\ Head(wire) = StatusFrame(p, s)
        <5>0. StatusFrame(p, s).type = "status"
          BY FrameKinds
        <5>1. ReadNotification => Head(wire) # StatusFrame(p, s)
          BY <5>0 DEF ReadNotification
        <5> QED BY <1>0, <2>3, <3>2, <5>1, WireKeeps
      <4>2. Resolved(p, s) \in replies'
        BY <1>0, <1>3, <4>1, ResponseIsTaken
      <4> QED BY <4>2 DEF Asking
    <3>3. CASE StatusFrame(p, s) \in reads
      <4>1. AnswerStatus
        BY <1>0, <2>3, <3>3
        DEF PipelineNext, pipelineVars, UIStep, HandleRequest, Reconcile, Accept, Reject,
            ActionDispatched, JobStatusResolved, ServiceNotification, Notify, Ack, ReadStatus,
            Work, Administer, ReadResponse, ReadNotification, Respawn, Dispatch, Timeout
      <4>2. PICK f \in reads : reads' = reads \ {f} /\ Written(<<f>>)
        BY <4>1 DEF AnswerStatus
      <4>3. f = StatusFrame(p, s)
        BY <2>3, <3>3, <4>2
      <4> QED BY <2>3, <3>1, <4>2, <4>3, FrameIsWritten
    <3> QED BY <1>3, <3>2, <3>3
  <2> QED BY <2>1, <2>2, <2>3
<1>4. ASSUME NEW s \in Ends, Resolved(p, s) \in replies
      PROVE  Asking(p)' \/ ui'[p] \notin {"acked", "unknown"}
  <2>1. CASE Resolved(p, s) \in replies'
    BY <2>1 DEF Asking
  <2>2. CASE Resolved(p, s) \notin replies'
    <3>1. \A q, r : Resolved(p, s) # Dispatched(q, r)
      BY FrameKinds
    <3>2. PICK q \in Plans, r \in {"terminal", "in_flight", "not_found", "error"} :
            /\ Resolved(p, s) = Resolved(q, r)
            /\ \/ r = "terminal" /\ Concludes(q, "reconciled")
               \/ r = "in_flight" /\ Concludes(q, "acked")
               \/ r = "not_found" /\ Concludes(q, "reverted")
               \/ r = "error" /\ UNCHANGED ui
      BY <1>4, <2>2, <3>1, ReplyKeeps
    <3>3. q = p /\ r = s
      BY <3>2, FrameKinds
    <3>4. Concludes(p, "reconciled") \/ Concludes(p, "reverted")
      BY <3>2, <3>3
    <3> QED BY <3>4 DEF Concludes, PlanStates
  <2> QED BY <2>1, <2>2
<1> QED BY <1>2, <1>3, <1>4, WireIsRange DEF Asking

(* The answer to a dispatch stays on its way until the UI has it. *)
LEMMA AnsweringStep ==
  ASSUME PipelineInv, AskInv, [PipelineNext]_pipelineVars, NEW p \in Plans,
         ui[p] = "pending" => Answering(p), ui'[p] = "pending"
  PROVE  Answering(p)'
<1> USE DEF client, handlers, tracked
<1> DEFINE Results == {"acked", "unknown", "failed"}
<1>1. CASE Dispatch(p)
  <2>1. CASE conn
    BY <1>1, <2>1 DEF Dispatch, Answering, Up, vars, worker
  <2>2. CASE ~conn
    BY <1>1, <2>2 DEF Dispatch, Answering
  <2> QED BY <2>1, <2>2
<1>2. ASSUME ui[p] = "pending", NEW r \in Results, Dispatched(p, r) \in replies
      PROVE  Dispatched(p, r) \in replies'
  <2>1. SUFFICES ASSUME Dispatched(p, r) \notin replies' PROVE FALSE
    OBVIOUS
  <2>2. \A q, s : Dispatched(p, r) # Resolved(q, s)
    BY FrameKinds
  <2>3. PICK q \in Plans, s \in Results :
          Dispatched(p, r) = Dispatched(q, s) /\ Concludes(q, IF s = "failed" THEN "reverted" ELSE s)
    BY <1>2, <2>1, <2>2, ReplyKeeps
  <2>4. q = p
    BY <2>3, FrameKinds
  <2> QED BY <1>2, <2>3, <2>4 DEF Concludes, PlanStates
<1>3. ASSUME p \in waiting, p \in waiting',
             ~Up \/ p \in inbox \cup handling \cup answering
               \/ AckFrame(p) \in Range(wire) \/ ErrorFrame(p) \in Range(wire)
      PROVE  \/ ~Up' \/ p \in inbox' \cup handling' \cup answering'
             \/ AckFrame(p) \in Range(wire') \/ ErrorFrame(p) \in Range(wire')
  <2>0. conn /\ ~HandleCrash
    <3>1. conn
      BY <1>3 DEF AskInv
    <3>2. ~HandleCrash
      BY <1>3 DEF HandleCrash
    <3> QED BY <3>1, <3>2
  <2>1. CASE ~Up
    BY <2>0, <2>1, DeathFacts
  <2>2. CASE Die
    BY <2>2, DeathFacts DEF Die, Crash, Up
  <2>a. AckFrame(p) \in Responses /\ ErrorFrame(p) \in Responses
    BY DEF Responses
  <2>3. CASE p \in inbox /\ p \notin inbox' /\ ~Die
    <3>1. Accept(p) \/ Reject(p)
      <4>1. ASSUME NEW q \in Plans, Accept(q) \/ Reject(q) PROVE q = p
        BY <2>3, <4>1 DEF Accept, Reject
      <4> QED BY <2>3, <4>1
          DEF PipelineNext, pipelineVars, UIStep, HandleRequest, Reconcile,
              ActionDispatched, JobStatusResolved, ServiceNotification, Notify, Ack, ReadStatus,
              AnswerStatus, Work, Administer, ReadResponse, ReadNotification, HandleCrash, Respawn,
              Dispatch, Timeout
    <3>2. CASE Accept(p)
      BY <3>2 DEF Accept, InsertPlan
    <3>3. CASE Reject(p)
      BY <2>0, <2>a, <3>3, FrameIsWritten DEF Reject
    <3> QED BY <3>1, <3>2, <3>3
  <2>4. CASE p \in handling /\ p \notin handling' /\ ~Die
    <3>1. Notify(p)
      <4>1. ASSUME NEW q \in Plans, Notify(q) PROVE q = p
        BY <2>4, <4>1 DEF Notify, NotifyWorker
      <4>2. WorkerStep => handling' = handling
        BY WorkerKeepsHandling
      <4>3. ASSUME NEW q \in Plans, Accept(q) PROVE handling \subseteq handling'
        BY <4>3 DEF Accept, InsertPlan
      <4> QED BY <2>4, <4>1, <4>2, <4>3
          DEF PipelineNext, pipelineVars, vars, signals, UIStep, HandleRequest, Reconcile, Reject,
              ActionDispatched, JobStatusResolved, ServiceNotification, Ack, ReadStatus,
              AnswerStatus, Work, Administer, Kick, DeleteAccount, ReadResponse,
              ReadNotification, HandleCrash, Respawn, Boot, Dispatch, Timeout
    <3> QED BY <3>1 DEF Notify
  <2>5. CASE p \in answering /\ p \notin answering' /\ ~Die
    <3>1. Ack(p)
      <4>1. ASSUME NEW q \in Plans, Ack(q) PROVE q = p
        BY <2>5, <4>1 DEF Ack
      <4> QED BY <2>5, <4>1
          DEF PipelineNext, pipelineVars, UIStep, HandleRequest, Reconcile, Accept, Reject,
              ActionDispatched, JobStatusResolved, ServiceNotification, Notify, ReadStatus,
              AnswerStatus, Work, Administer, ReadResponse, ReadNotification, HandleCrash, Respawn,
              Dispatch, Timeout
    <3> QED BY <2>0, <2>a, <3>1, FrameIsWritten DEF Ack
  <2>6. ASSUME NEW f \in {AckFrame(p), ErrorFrame(p)}, f \in Range(wire) PROVE f \in Range(wire')
    <3>0. f.type \in {"ack", "error"}
      BY <2>6, FrameKinds
    <3>1. ReadNotification => Head(wire) # f
      BY <3>0 DEF ReadNotification
    <3>2. ReadResponse => Head(wire) # f
      BY <1>3, ResponseIsTaken
    <3> QED BY <2>0, <2>6, <3>1, <3>2, WireKeeps
  <2> QED BY <1>3, <2>1, <2>2, <2>3, <2>4, <2>5, <2>6
<1>4. CASE ui[p] = "pending"
  <2>1. CASE \E r \in Results : Dispatched(p, r) \in replies
    BY <1>2, <1>4, <2>1 DEF Answering
  <2>2. CASE p \in waiting /\ p \notin waiting'
    BY <2>2, WaitingAnswered DEF Answering
  <2>3. CASE /\ p \in waiting /\ p \in waiting'
             /\ ~Up \/ p \in inbox \cup handling \cup answering
                  \/ AckFrame(p) \in Range(wire) \/ ErrorFrame(p) \in Range(wire)
    BY <1>3, <2>3, WireIsRange DEF Answering
  <2> QED BY <1>4, <2>1, <2>2, <2>3, WireIsRange DEF Answering
<1> QED BY <1>1, <1>4, TrackFacts

LEMMA CoveredStays ==
  ASSUME PipelineInv, LiveInv, [PipelineNext]_pipelineVars, NEW p \in Plans, Covered(p)'
  PROVE  Covered(p)
<1>1. JournalInv /\ [Next]_vars
  BY JournalPart DEF PipelineInv
<1>2. accounts' \subseteq accounts /\ (faults' = 0 => faults = 0)
  BY <1>1, LiveStep, FaultsStay
<1> QED BY <1>2 DEF Covered

(* No child is installed while the answer to a dispatch is to come. *)
LEMMA ServedInvStep ==
  ASSUME PipelineInv, TrackInv, [PipelineNext]_pipelineVars
  PROVE  ServedInv'
<1> SUFFICES ASSUME NEW p \in Plans, Covered(p)', ui'[p] = "pending", jobs'[p] # "absent", conn', Up'
             PROVE  Served(p)'
  BY DEF ServedInv
<1>1. ui[p] = "pending"
  <2>1. ~Dispatch(p)
    BY DEF Dispatch, vars, db, PipelineInv, RequestInv
  <2> QED BY <2>1, TrackFacts
<1>2. conn
  <2>1. SUFFICES ASSUME ~conn PROVE FALSE
    OBVIOUS
  <2>2. PICK r \in {"acked", "unknown", "failed"} : Dispatched(p, r) \in replies
    BY <1>1, <2>1 DEF TrackInv, NotForgotten, Answering, AskInv
  <2>3. Dispatched(p, r).type = "dispatched"
    BY FrameKinds
  <2>4. ~Respawn
    BY <2>2, <2>3 DEF Respawn
  <2>5. ~HandleCrash
    BY DEF HandleCrash
  <2> QED BY <2>1, <2>4, <2>5, DeathFacts
<1>3. Up
  <2>1. ~HandleCrash /\ ~Respawn
    BY <1>2 DEF HandleCrash, Respawn
  <2> QED BY <2>1, DeathFacts
<1>4. CASE jobs[p] = "absent"
  <2>1. Accept(p)
    BY <1>4, JobsFacts
  <2>2. jobs' = [jobs EXCEPT ![p] = "queued"] /\ jobs \in [Plans -> JobStates]
    BY <2>1 DEF Accept, InsertPlan, PipelineInv, JournalInv, TypeOK
  <2>3. jobs'[p] = "queued"
    BY <2>2
  <2> QED BY <2>3 DEF Served, JobActive
<1>5. CASE jobs[p] # "absent"
  <2>1. Served(p)
    BY <1>1, <1>2, <1>3, <1>5, CoveredStays DEF TrackInv, ServedInv
  <2> QED BY <1>2, <1>3, <2>1, ServedStep DEF TrackInv, PlanStates
<1> QED BY <1>4, <1>5

(* A plan the UI holds for accepted, or knows nothing of, is served, asked *)
(* about or about to be.                                                   *)
LEMMA OwedStep ==
  ASSUME PipelineInv, TrackInv, [PipelineNext]_pipelineVars, NEW p \in Plans,
         ui'[p] \in {"acked", "unknown"}, timeouts' = 0, Covered(p)', conn', Up', ~bootReady'
  PROVE  Served(p)' \/ Asking(p)'
<1> USE DEF client, handlers, tracked
<1>0. /\ timeouts = 0 /\ Covered(p) /\ DoneInv /\ LiveInv /\ AskInv
      /\ timeouts' = timeouts
  BY TimeoutsStay, CoveredStays DEF TrackInv
<1>1. ~HandleCrash
  BY DEF HandleCrash
<1>2. conn
  <2>1. SUFFICES ASSUME ~conn PROVE FALSE
    OBVIOUS
  <2>2. Respawn
    BY <1>1, <2>1, DeathFacts
  <2>3. gen = 0 /\ ui' = ui
    <3>1. bootReady' = (gen > 0) /\ ui' = ui
      BY <2>2 DEF Respawn
    <3>2. ~(gen > 0)
      BY <3>1
    <3> QED BY <3>1, <3>2, TypeParts
  <2> QED BY <2>1, <2>3 DEF TrackInv, FreshInv
<1>3. Up
  <2>1. ~Respawn
    BY <1>2 DEF Respawn
  <2> QED BY <1>1, <2>1, DeathFacts
<1>4. CASE bootReady
  <2>1. Reconcile
    BY <1>1, <1>2, <1>4
    DEF PipelineNext, pipelineVars, UIStep, HandleRequest, Accept, Reject,
        ActionDispatched, JobStatusResolved, ServiceNotification, Notify, Ack, ReadStatus,
        AnswerStatus, Work, Administer, ReadResponse, ReadNotification, Die, Respawn, Dispatch,
        Timeout
  <2>2. p \in Unreconciled
    BY <2>1 DEF Reconcile, Unreconciled
  <2>3. p \in asked' /\ p \in asking'
    BY <1>2, <1>3, <2>1, <2>2 DEF Reconcile
  <2> QED BY <2>3 DEF Asking
<1>5. CASE ui[p] \in {"acked", "unknown"} /\ ~bootReady
  <2>1. Served(p) \/ Asking(p)
    BY <1>0, <1>2, <1>3, <1>5 DEF TrackInv, NotForgotten, Interrupted
  <2>2. CASE Served(p)
    BY <1>0, <1>2, <1>3, <2>2, ServedStep DEF PlanStates
  <2>3. CASE Asking(p)
    BY <1>0, <1>2, <1>3, <2>3, AskingStep DEF Served
  <2> QED BY <2>1, <2>2, <2>3
<1>6. CASE ui[p] \notin {"acked", "unknown"} /\ ~bootReady
  <2>1. Dispatched(p, "unknown") \notin replies
    BY <1>0, <1>2 DEF TrackInv, CutInv
  <2>2. ui[p] = "pending" /\ (Dispatched(p, "acked") \in replies \/ Resolved(p, "in_flight") \in replies)
    BY <1>6, <2>1, TrackFacts
  <2>3. jobs[p] # "absent"
    BY <2>2 DEF TrackInv, AckInv
  <2>4. Served(p)
    BY <1>0, <1>2, <1>3, <2>2, <2>3 DEF TrackInv, ServedInv
  <2> QED BY <1>0, <1>2, <1>3, <2>4, ServedStep DEF PlanStates
<1> QED BY <1>4, <1>5, <1>6

LEMMA ForgottenStep ==
  ASSUME PipelineInv, TrackInv, [PipelineNext]_pipelineVars
  PROVE  NotForgotten'
<1>1. ASSUME NEW p \in Plans, ui'[p] = "pending" PROVE Answering(p)'
  BY <1>1, AnsweringStep DEF TrackInv, NotForgotten
<1>2. ASSUME NEW p \in Plans, ui'[p] \in {"acked", "unknown"}, timeouts' = 0, Covered(p)'
      PROVE  Interrupted' \/ Served(p)' \/ Asking(p)'
  BY <1>2, OwedStep DEF Interrupted
<1> QED BY <1>1, <1>2 DEF NotForgotten

LEMMA TrackStart ==
  ASSUME PipelineInit
  PROVE  TrackInv
<1> USE DEF PipelineInit
<1>1. Range(wire) = {}
  BY EmptySeq DEF Range
<1>2. DoneInv /\ LiveInv
  BY DEF Init, DoneInv, LiveInv
<1>3. AskInv /\ AckInv
  BY <1>1 DEF AskInv, AckInv, Stated, Init
<1>4. CutInv /\ FreshInv /\ ServedInv /\ NotForgotten
  BY DEF CutInv, FreshInv, ServedInv, NotForgotten
<1> QED BY <1>2, <1>3, <1>4 DEF TrackInv

LEMMA TrackStep ==
  ASSUME PipelineInv, TrackInv, [PipelineNext]_pipelineVars
  PROVE  TrackInv'
<1>1. DoneInv' /\ LiveInv'
  BY JournalPart, DoneStep, LiveStep DEF PipelineInv, TrackInv
<1>2. AskInv' /\ AckInv' /\ CutInv' /\ FreshInv'
  BY AskStep, AckStep, CutStep, FreshStep DEF TrackInv
<1> QED BY <1>1, <1>2, ServedInvStep, ForgottenStep DEF TrackInv

(* A tracked plan never waits for what has passed: a pending one has its   *)
(* answer to come; an acked or unknown one its completion, the answer to a *)
(* job_status request or the reconciliation after a respawn.  The Service  *)
(* may die at any step, and answers overtake completions                   *)
(* (handle_action_dispatched, kickoff_post_respawn_reconcile).             *)
THEOREM ForgottenTheorem == PipelineSpec => []NotForgotten
<1>1. PipelineInit => PipelineInv /\ TrackInv
  BY PipelineStart, TrackStart
<1>2. PipelineInv /\ TrackInv /\ [PipelineNext]_pipelineVars => (PipelineInv /\ TrackInv)'
  BY PipelineStep, TrackStep
<1>3. TrackInv => NotForgotten
  BY DEF TrackInv
<1> QED BY <1>1, <1>2, <1>3, PTL DEF PipelineSpec
=============================================================================
