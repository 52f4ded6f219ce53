-------------------------- MODULE ComposeSendProofs --------------------------
(***************************************************************************)
(* Proofs about the compose window, its draft log and its sends, for any   *)
(* number of attachments, edits, sends, faults and deaths.  The inductive  *)
(* invariant is ComposeInv.                                                *)
(***************************************************************************)
EXTENDS ComposeSend, SequenceTheorems, TLAPS

(* The worker's steps before and after the provider was asked. *)
Unasked == {"read", "persist", "send"}
Running == Unasked \cup {"draft", "finalize", "error"}

(* A handler runs in the Service that took its request, and journals once. *)
HandlerInv ==
    \A s \in Sends :
        /\ svc # "up" => reqs[s].h \notin {"sent", "transfer", "insert"}
        /\ reqs[s].h \in {"none", "sent", "transfer", "insert", "failed"} =>
              reqs[s].job = "none"
        /\ reqs[s].h \in {"none", "sent"} => reqs[s].vault = None
        /\ reqs[s].h = "transfer" => reqs[s].vault \in 0 .. (NAtt - 1)
        /\ reqs[s].h = "insert" => reqs[s].vault = NAtt

(* The worker lives in the Service, and runs a leased job. *)
WorkerInv ==
    /\ svc # "up" => w.pc = "idle"
    /\ w.pc = "idle" <=> w.id = None
    /\ w.pc \in Running => reqs[w.id].job = "executing"
    /\ w.pc \in {"clean", "emit"} => reqs[w.id].job \in {"completed", "failed"}
    /\ w.pc = "error" => faults > 0

(* Nothing is left in the vault that no live job needs: at any time after   *)
(* the boot's cleanup.                                                      *)
LitterInv ==
    svc \in {"up", "drain", "rotate"} => \A s \in Sends :
        reqs[s].vault # None =>
            \/ reqs[s].h \in {"transfer", "insert"} \/ LiveJob(s)
            \/ w.id = s /\ w.pc = "clean"

(* A send is submitted once per incarnation of the Service. *)
Unsubmitted(s) ==
    \/ svc # "up" \/ reqs[s].job \in {"none", "queued"}
    \/ w.id = s /\ w.pc \in Unasked

SubmitInv ==
    /\ \A s \in Sends :
          /\ delivered[s] <= 1 + crashes
          /\ Unsubmitted(s) => delivered[s] <= crashes
          /\ reqs[s].job = "completed" => delivered[s] > 0
    /\ w.out = "Success" => w.id # None /\ delivered[w.id] > 0

(* A draft row is 'sending' only in the worker's hands, in a Service that   *)
(* has booted without a fault.                                              *)
SendingInv ==
    svc \in {"up", "drain", "rotate"} /\ faults = 0 /\ sdraft = "sending"
    => w.pc \in {"send", "draft"}

(* The log ends in a last readable line, if it has any; the saved text does *)
(* not depend on a torn line; and once the log is drained the row holds it. *)
LastAt(lines, i) ==
    /\ i \in 1 .. Len(lines) /\ lines[i] # None
    /\ \A j \in (i + 1) .. Len(lines) : lines[j] = None

HasLast(lines) ==
    (\E i \in 1 .. Len(lines) : lines[i] # None) => \E i \in 1 .. Len(lines) : LastAt(lines, i)

WalInv ==
    /\ HasLast(wal)
    /\ torn => \E pre \in Seq(Texts \cup {None}), line \in Texts \cup {None} :
          /\ wal = Append(pre, line) /\ HasLast(pre)
          /\ saved # None /\ ~swallowed => Covers(Replay(pre, auto))
    /\ svc = "rotate" /\ saved # None /\ ~swallowed => Covers(auto)

(* The window shows no older text than the last one it saved. *)
TextInv == saved # None => win.text >= saved

ComposeInv ==
    /\ TypeOK /\ HandlerInv /\ WorkerInv /\ VaultComplete /\ LitterInv /\ SubmitInv
    /\ SendingInv /\ WalInv /\ TextInv /\ SavedTextSurvives

-----------------------------------------------------------------------------
(* What the steps do to a request. *)

LEMMA Constants ==
    /\ NAtt \in Nat /\ NAtt > 0 /\ MaxEdits \in Nat /\ MaxSends \in Nat
    /\ None \notin Nat /\ None \notin Sends /\ None \notin Texts /\ None \notin 0 .. NAtt
BY ComposeAssumption DEF Sends, Texts

(* Faults are counted up. *)
LEMMA FaultsGrow ==
    ASSUME TypeOK, WriteOk \/ WriteFails
    PROVE  faults' \in Nat /\ faults' >= faults
BY DEF TypeOK, SendType, WriteOk, WriteFails

(* A step that leaves alone what the Service has done for the sends. *)
SameWork ==
    /\ UNCHANGED <<svc, w, crashes, delivered, sdraft>>
    /\ \A s \in Sends :
          /\ reqs'[s].h = reqs[s].h /\ reqs'[s].vault = reqs[s].vault
          /\ reqs'[s].job = reqs[s].job

(* A death of the Service, alone or with the application. *)
Death ==
    /\ svc' = "down" /\ w' = Idle /\ crashes' = crashes + 1 /\ sdraft' \in TornDrafts
    /\ UNCHANGED <<faults, delivered>>
    /\ \A s \in Sends :
          /\ reqs'[s].h = IF reqs[s].ui = "waiting" \/ reqs[s].h \in {"sent", "transfer", "insert"}
                          THEN "dead" ELSE reqs[s].h
          /\ reqs'[s].vault = reqs[s].vault /\ reqs'[s].job = reqs[s].job

LEMMA DeathFacts ==
    ASSUME TypeOK, ServiceDies \/ AppDies
    PROVE  Death /\ reqs' \in [Sends -> Request]
<1>1. \A s \in Sends : reqs[s] \in Request
    BY DEF TypeOK, SendType
<1>2. \A s \in Sends :
        LET o == Orphaned(reqs[s])
        IN  /\ o \in Request
            /\ o.h = IF reqs[s].ui = "waiting" \/ reqs[s].h \in {"sent", "transfer", "insert"}
                     THEN "dead" ELSE reqs[s].h
            /\ o.vault = reqs[s].vault /\ o.job = reqs[s].job /\ o.ui = reqs[s].ui
    BY <1>1 DEF Orphaned, Request
<1>3. CASE ServiceDies
    BY <1>2, <1>3 DEF ServiceDies, ServiceDown, Death
<1>4. CASE AppDies
    <2>1. \A s \in Sends :
            LET r == [Orphaned(reqs[s]) EXCEPT !.ui = IF @ = "waiting" THEN "err" ELSE @]
            IN  /\ r \in Request /\ r.h = Orphaned(reqs[s]).h
                /\ r.vault = Orphaned(reqs[s]).vault /\ r.job = Orphaned(reqs[s]).job
        BY <1>2 DEF Request
    <2> QED BY <1>2, <1>4, <2>1 DEF AppDies, ServiceDown, Death
<1> QED BY <1>3, <1>4

(* The UI's part of a request. *)
LEMMA AnswerFacts ==
    ASSUME TypeOK, NEW s \in Sends, SendAcked(s) \/ SendRefused(s) \/ SendTimesOut(s)
    PROVE  SameWork /\ UNCHANGED faults /\ reqs' \in [Sends -> Request]
<1>1. reqs \in [Sends -> Request]
    BY DEF TypeOK, SendType
<1>2. CASE SendAcked(s)
    BY ZenonT(30), <1>1, <1>2 DEF SendAcked, SameWork, Request, ui
<1>3. CASE SendRefused(s) \/ SendTimesOut(s)
    BY <1>1, <1>3 DEF SendRefused, SendTimesOut, RequestError, SameWork, Request
<1> QED BY <1>2, <1>3

(* The window's own steps. *)
LEMMA WindowFacts ==
    ASSUME TypeOK, Edit \/ save_compose_draft \/ handle_window_close
                   \/ handle_action_completed \/ \E s \in Sends : handle_job_status_resolved(s)
    PROVE  SameWork /\ UNCHANGED reqs /\ faults' \in Nat /\ faults' >= faults
<1>1. CASE Edit \/ handle_action_completed \/ \E s \in Sends : handle_job_status_resolved(s)
    BY <1>1 DEF Edit, handle_action_completed, handle_job_status_resolved, SameWork, TypeOK, SendType
<1>2. CASE save_compose_draft
    BY <1>2, FaultsGrow DEF save_compose_draft, AppendOk, AppendErr, SameWork
<1>3. CASE handle_window_close
    <2>1. WriteOk \/ WriteFails
        BY <1>3 DEF handle_window_close, AppendOk, AppendErr, WriteOk
    <2> QED BY <1>3, <2>1, FaultsGrow DEF handle_window_close, SameWork
<1> QED BY <1>1, <1>2, <1>3

-----------------------------------------------------------------------------
(* The log. *)

LEMMA ReplayType ==
    ASSUME NEW lines \in Seq(Texts \cup {None}), NEW row \in Texts \cup {None},
           HasLast(lines)
    PROVE  Replay(lines, row) \in Texts \cup {None}
BY DEF Replay, HasLast, LastAt

LEMMA AppendFacts ==
    ASSUME TypeOK, AppendOk \/ AppendErr
    PROVE  /\ wal' \in Seq(Texts \cup {None}) /\ torn' \in BOOLEAN
           /\ auto' = auto /\ saved' \in Texts \cup {None} /\ swallowed' \in BOOLEAN
<1>1. wal \in Seq(Texts \cup {None}) /\ win.text \in Texts
    BY DEF TypeOK, DraftType
<1>2. [wal EXCEPT ![Len(wal)] = None] \in Seq(Texts \cup {None})
    <2>1. CASE Len(wal) \in 1 .. Len(wal)
        BY <1>1, <2>1, ExceptSeq
    <2>2. CASE Len(wal) \notin 1 .. Len(wal)
        <3>1. [wal EXCEPT ![Len(wal)] = None] = wal
            BY <1>1, <2>2
        <3> QED BY <1>1, <3>1
    <2> QED BY <2>1, <2>2
<1>a. /\ Append(wal, win.text) \in Seq(Texts \cup {None})
      /\ Append(wal, None) \in Seq(Texts \cup {None})
    BY <1>1, AppendProperties
<1>3. CASE AppendOk
    BY <1>1, <1>2, <1>a, <1>3 DEF AppendOk, TypeOK, DraftType
<1>4. CASE AppendErr
    BY <1>1, <1>2, <1>a, <1>4 DEF AppendErr, TypeOK, DraftType
<1> QED BY <1>3, <1>4

LEMMA DraftTypeStep ==
    ASSUME ComposeInv, [Next]_vars
    PROVE  DraftType'
<1> USE DEF ComposeInv, draft, ui
<1>0. CASE UNCHANGED <<draft, win, sdraft>>
    BY <1>0 DEF TypeOK, DraftType
<1>1. CASE Edit
    <2>1. win.text \in Nat /\ win.text + 1 \in Texts
        BY <1>1, Constants DEF Edit, TypeOK, DraftType, Texts
    <2> QED BY <1>1, <2>1 DEF Edit, TypeOK, DraftType
<1>2. CASE save_compose_draft
    BY <1>2, AppendFacts DEF save_compose_draft, TypeOK, DraftType
<1>3. CASE handle_window_close
    BY <1>3, AppendFacts DEF handle_window_close, TypeOK, DraftType
<1>4. CASE dispatch_send
    BY <1>4 DEF dispatch_send, TypeOK, DraftType
<1>5. ASSUME NEW s \in Sends, SendRefused(s) \/ SendTimesOut(s) PROVE DraftType'
    BY <1>5 DEF SendRefused, SendTimesOut, RequestError, TypeOK, DraftType
<1>6. ASSUME NEW s, NEW ok, Complete(s, ok), UNCHANGED <<draft, sdraft>> PROVE DraftType'
    BY <1>6 DEF Complete, TypeOK, DraftType
<1>7. CASE handle_action_completed
    BY <1>6, <1>7 DEF handle_action_completed
<1>8. ASSUME NEW s \in Sends, handle_job_status_resolved(s) PROVE DraftType'
    BY <1>0, <1>6, <1>8 DEF handle_job_status_resolved
<1>9. CASE PersistDraft
    BY <1>9 DEF PersistDraft, TypeOK, DraftType
<1>10. CASE SettleDraft
    BY <1>10 DEF SettleDraft, TypeOK, DraftType
<1>11. CASE ServiceDies \/ AppDies
    <2>1. sdraft' \in {None, "pending", "sending", "failed"}
        BY <1>11 DEF ServiceDies, AppDies, ServiceDown, TornDrafts, TypeOK, DraftType
    <2> QED BY <1>11, <2>1 DEF ServiceDies, AppDies, ServiceDown, TypeOK, DraftType
<1>12. CASE BootRecovery
    BY <1>12 DEF BootRecovery, resurface_sending, TypeOK, DraftType
<1>13. CASE DrainWal
    <2>1. Replay(wal, auto) \in Texts \cup {None}
        BY ReplayType DEF WalInv, TypeOK, DraftType
    <2>2. \A t \in PartReplays(wal, auto) : t \in Texts \cup {None}
        BY LenProperties DEF PartReplays, TypeOK, DraftType
    <2>3. auto' \in Texts \cup {None} /\ swallowed' \in BOOLEAN
        BY <1>13, <2>1, <2>2 DEF DrainWal, TypeOK, DraftType
    <2> QED BY <1>13, <2>3 DEF DrainWal, TypeOK, DraftType
<1>14. CASE RotateWal
    <2>1. wal' \in Seq(Texts \cup {None}) /\ torn' \in BOOLEAN
        <3>1. \/ wal' = <<>> /\ torn' = FALSE
              \/ UNCHANGED <<wal, torn>>
            BY <1>14 DEF RotateWal
        <3> QED BY <3>1, EmptySeq DEF TypeOK, DraftType
    <2> QED BY <1>14, <2>1 DEF RotateWal, TypeOK, DraftType
<1> QED BY <1>0, <1>1, <1>2, <1>3, <1>4, <1>5, <1>7, <1>8, <1>9, <1>10, <1>11, <1>12,
           <1>13, <1>14
        DEF Next, Receive, Handlers, Handler, Worker, Boot, SendAcked, HandleSend,
            verify_and_transfer, insert_quiet_job, Lease, build_send_request, send_message,
            finalize_job, WorkerError, CleanVault, EmitCompleted, Respawn, vars

-----------------------------------------------------------------------------
(* What each step of the Service does to the request at hand; the others    *)
(* stay as they are.                                                        *)

Only(s, r) == r \in Request /\ reqs' = [reqs EXCEPT ![s] = r]

LEMMA DispatchFacts ==
    ASSUME TypeOK, dispatch_send
    PROVE  /\ UNCHANGED <<svc, w, crashes, delivered, sdraft, faults>>
           /\ \E s \in Sends : \E r :
                 /\ Only(s, r) /\ reqs[s] = NoReq
                 /\ r.vault = None /\ r.job = "none"
                 /\ r.h = IF svc = "up" THEN "sent" ELSE "dead"
<1>1. UNCHANGED <<svc, w, crashes, delivered, sdraft, faults>>
    BY DEF dispatch_send
<1>2. PICK s \in Sends :
        /\ reqs[s] = NoReq
        /\ reqs' = [reqs EXCEPT ![s] =
              [NoReq EXCEPT !.ui = "waiting", !.staged = TRUE,
                            !.h = IF svc = "up" THEN "sent" ELSE "dead"]]
    BY DEF dispatch_send
<1> DEFINE r == [NoReq EXCEPT !.ui = "waiting", !.staged = TRUE,
                              !.h = IF svc = "up" THEN "sent" ELSE "dead"]
<1>3. r \in Request /\ r.vault = None /\ r.job = "none"
      /\ r.h = IF svc = "up" THEN "sent" ELSE "dead"
    BY DEF NoReq, Request
<1>4. Only(s, r)
    BY <1>2, <1>3 DEF Only
<1> QED BY <1>1, <1>2, <1>3, <1>4

(* The handler: the vault fills, and is complete when the job is journaled. *)
LEMMA HandlerFacts ==
    ASSUME ComposeInv, NEW s \in Sends, Handler(s)
    PROVE  /\ UNCHANGED <<svc, w, crashes, delivered, sdraft>>
           /\ svc = "up" /\ faults' \in Nat /\ faults' >= faults
           /\ reqs[s].h \in {"sent", "transfer", "insert"}
           /\ \E r :
                 /\ Only(s, r)
                 /\ \/ r.h = "transfer" /\ r.vault \in 0 .. (NAtt - 1) /\ r.job = "none"
                    \/ r.h = "insert" /\ r.vault = NAtt /\ r.job = "none"
                    \/ r.h = "failed" /\ r.vault = None /\ r.job = "none"
                    \/ r.h = "done" /\ r.vault = NAtt /\ r.job = "queued"
<1> USE Constants DEF ComposeInv
<1>1. /\ reqs[s] \in Request /\ faults \in Nat
      /\ svc = "up" /\ reqs[s].h \in {"sent", "transfer", "insert"}
      /\ reqs[s].job = "none"
    BY DEF Handler, HandleSend, verify_and_transfer, insert_quiet_job, TypeOK, SendType,
           HandlerInv
<1>2. CASE HandleSend(s)
    <2> DEFINE r == [reqs[s] EXCEPT !.h = "transfer", !.vault = 0]
    <2>1. reqs' = [reqs EXCEPT ![s] = r]
        BY <1>2 DEF HandleSend, TypeOK, SendType
    <2>2. 0 \in 0 .. (NAtt - 1) /\ 0 \in 0 .. NAtt
        OBVIOUS
    <2>3. r \in Request /\ r.h = "transfer" /\ r.vault = 0 /\ r.job = "none"
        BY <1>1, <2>2 DEF Request
    <2>4. UNCHANGED <<svc, w, crashes, delivered, sdraft, faults>>
        BY <1>2 DEF HandleSend
    <2> HIDE DEF r
    <2>5. Only(s, r)
        BY <2>1, <2>3 DEF Only
    <2> QED BY <1>1, <2>2, <2>3, <2>4, <2>5
<1>3. CASE verify_and_transfer(s)
    <2>0. reqs[s].vault \in 0 .. (NAtt - 1) /\ reqs[s].h = "transfer"
        BY <1>3 DEF verify_and_transfer, HandlerInv
    <2>1. UNCHANGED <<svc, w, crashes, delivered, sdraft, faults>>
        BY <1>3 DEF verify_and_transfer
    <2>2. CASE reqs[s].staged
        <3> DEFINE r == [reqs[s] EXCEPT !.vault = reqs[s].vault + 1,
                            !.h = IF reqs[s].vault + 1 = NAtt THEN "insert" ELSE "transfer"]
        <3>1. reqs' = [reqs EXCEPT ![s] = r]
            <4>1. reqs' = [reqs EXCEPT ![s] =
                     IF reqs[s].staged
                     THEN [reqs[s] EXCEPT !.vault = @ + 1,
                             !.h = IF reqs[s].vault + 1 = NAtt THEN "insert" ELSE "transfer"]
                     ELSE [reqs[s] EXCEPT !.vault = None, !.h = "failed"]]
                BY <1>3 DEF verify_and_transfer
            <4> QED BY <2>2, <4>1
        <3>2. /\ reqs[s].vault + 1 \in 0 .. NAtt
              /\ reqs[s].vault + 1 # NAtt => reqs[s].vault + 1 \in 0 .. (NAtt - 1)
            BY <2>0
        <3>3. /\ r \in Request /\ r.vault = reqs[s].vault + 1 /\ r.job = "none"
              /\ r.h = IF reqs[s].vault + 1 = NAtt THEN "insert" ELSE "transfer"
            BY <1>1, <3>2 DEF Request
        <3> HIDE DEF r
        <3>4. Only(s, r)
            BY <3>1, <3>3 DEF Only
        <3>5. \/ r.h = "transfer" /\ r.vault \in 0 .. (NAtt - 1) /\ r.job = "none"
              \/ r.h = "insert" /\ r.vault = NAtt /\ r.job = "none"
            BY <3>2, <3>3
        <3> QED BY <1>1, <2>1, <3>4, <3>5
    <2>3. CASE ~reqs[s].staged
        <3> DEFINE r == [reqs[s] EXCEPT !.vault = None, !.h = "failed"]
        <3>1. reqs' = [reqs EXCEPT ![s] = r]
            BY <1>3, <2>3 DEF verify_and_transfer, TypeOK, SendType
        <3>2. r \in Request /\ r.h = "failed" /\ r.vault = None /\ r.job = "none"
            BY <1>1 DEF Request
        <3> HIDE DEF r
        <3>3. Only(s, r)
            BY <3>1, <3>2 DEF Only
        <3> QED BY <1>1, <2>1, <3>2, <3>3
    <2> QED BY <2>2, <2>3
<1>4. CASE insert_quiet_job(s)
    <2>0. reqs[s].vault = NAtt
        BY <1>4 DEF insert_quiet_job, HandlerInv
    <2>1. faults' \in Nat /\ faults' >= faults
        BY <1>4, FaultsGrow DEF insert_quiet_job
    <2>2. CASE reqs' = [reqs EXCEPT ![s].h = "done", ![s].job = "queued"]
        <3> DEFINE r == [reqs[s] EXCEPT !.h = "done", !.job = "queued"]
        <3>1. reqs' = [reqs EXCEPT ![s] = r]
            BY <2>2 DEF TypeOK, SendType
        <3>2. r \in Request /\ r.h = "done" /\ r.vault = NAtt /\ r.job = "queued"
            BY <1>1, <2>0 DEF Request
        <3> QED BY <1>1, <1>4, <2>1, <3>1, <3>2 DEF insert_quiet_job, Only
    <2>3. CASE reqs' = [reqs EXCEPT ![s] = NotJournaled(@)]
        <3>2. /\ NotJournaled(reqs[s]) \in Request /\ NotJournaled(reqs[s]).h = "failed"
              /\ NotJournaled(reqs[s]).vault = None /\ NotJournaled(reqs[s]).job = "none"
            BY <1>1 DEF NotJournaled, Request
        <3> QED BY <1>1, <1>4, <2>1, <2>3, <3>2 DEF insert_quiet_job, Only
    <2> QED BY <1>4, <2>2, <2>3 DEF insert_quiet_job
<1> QED BY <1>2, <1>3, <1>4 DEF Handler

(* A step of the worker: the job and the vault of request s afterwards. *)
Moves(s, job, vault) ==
    /\ reqs' \in [Sends -> Request]
    /\ \A t \in Sends :
          /\ reqs'[t].h = reqs[t].h
          /\ reqs'[t].job = IF t = s THEN job ELSE reqs[t].job
          /\ reqs'[t].vault = IF t = s THEN vault ELSE reqs[t].vault

(* From one step of run_send to the next, for the send in hand. *)
Goes(from, to, out) ==
    /\ w.pc = from /\ w.id \in Sends
    /\ w' = [pc |-> to, id |-> w.id, out |-> out]

LEMMA MovesFacts ==
    ASSUME TypeOK, NEW s \in Sends,
           NEW job \in {"none", "queued", "executing", "completed", "failed"},
           NEW vault \in (0 .. NAtt) \cup {None}
    PROVE  /\ UNCHANGED reqs => Moves(s, reqs[s].job, reqs[s].vault)
           /\ reqs' = [reqs EXCEPT ![s].job = job] => Moves(s, job, reqs[s].vault)
           /\ reqs' = [reqs EXCEPT ![s].vault = vault] => Moves(s, reqs[s].job, vault)
           /\ reqs' = [reqs EXCEPT ![s].job = job, ![s].vault = vault] => Moves(s, job, vault)
<1>1. reqs \in [Sends -> Request] /\ reqs[s] \in Request
    BY DEF TypeOK, SendType
<1>2. UNCHANGED reqs => Moves(s, reqs[s].job, reqs[s].vault)
    BY <1>1 DEF Moves
<1>3. reqs' = [reqs EXCEPT ![s].job = job] => Moves(s, job, reqs[s].vault)
    BY <1>1 DEF Moves, Request
<1>4. reqs' = [reqs EXCEPT ![s].vault = vault] => Moves(s, reqs[s].job, vault)
    BY <1>1 DEF Moves, Request
<1>5. ASSUME reqs' = [reqs EXCEPT ![s].job = job, ![s].vault = vault]
      PROVE  Moves(s, job, vault)
    <2> DEFINE r == [reqs[s] EXCEPT !.job = job, !.vault = vault]
    <2>1. reqs' = [reqs EXCEPT ![s] = r]
        BY <1>1, <1>5
    <2>2. r \in Request /\ r.h = reqs[s].h /\ r.job = job /\ r.vault = vault
        BY <1>1 DEF Request
    <2> HIDE DEF r
    <2> QED BY <1>1, <2>1, <2>2 DEF Moves
<1> QED BY <1>2, <1>3, <1>4, <1>5

LEMMA LeaseFacts ==
    ASSUME ComposeInv, Lease
    PROVE  /\ svc = "up" /\ w = Idle
           /\ UNCHANGED <<svc, crashes, faults, delivered, sdraft>>
           /\ \E s \in Sends :
                 /\ reqs[s].job = "queued" /\ Moves(s, "executing", reqs[s].vault)
                 /\ w' = [pc |-> "read", id |-> s, out |-> None]
<1>1. PICK s \in Sends :
        /\ reqs[s].job = "queued" /\ reqs' = [reqs EXCEPT ![s].job = "executing"]
        /\ w' = [pc |-> "read", id |-> s, out |-> None]
    BY DEF Lease
<1>2. reqs[s].vault \in (0 .. NAtt) \cup {None}
    BY DEF ComposeInv, TypeOK, SendType, Request
<1>3. Moves(s, "executing", reqs[s].vault)
    BY <1>1, <1>2, MovesFacts DEF ComposeInv
<1> QED BY <1>1, <1>3 DEF Lease

(* The other steps of the worker are for the send in hand. *)
LEMMA InHand ==
    ASSUME ComposeInv, w.pc # "idle"
    PROVE  /\ w.id \in Sends /\ svc = "up" /\ w.pc \in WorkerSteps
           /\ reqs[w.id].job \in {"none", "queued", "executing", "completed", "failed"}
           /\ reqs[w.id].vault \in (0 .. NAtt) \cup {None}
           /\ w = [pc |-> w.pc, id |-> w.id, out |-> w.out]
           /\ w.out \in {None, "Success", "Failed"}
<1>1. w.id \in Sends /\ svc = "up" /\ w.pc \in WorkerSteps
    BY DEF ComposeInv, TypeOK, SendType, WorkerInv
<1>2. reqs[w.id] \in Request
    BY <1>1 DEF ComposeInv, TypeOK, SendType
<1> QED BY <1>1, <1>2 DEF Request, ComposeInv, TypeOK, SendType

LEMMA RunFacts ==
    ASSUME ComposeInv, Worker, ~Lease
    PROVE  /\ w.id \in Sends /\ svc = "up" /\ UNCHANGED <<svc, crashes>>
           /\ faults' \in Nat /\ faults' >= faults
           /\ \/ /\ Goes("read", "persist", w.out)
                 /\ Moves(w.id, "executing", reqs[w.id].vault) /\ UNCHANGED <<delivered, sdraft>>
              \/ /\ Goes("read", "error", w.out) /\ faults > 0
                 /\ Moves(w.id, "executing", None) /\ UNCHANGED <<delivered, sdraft>>
                 /\ reqs[w.id].vault # NAtt /\ faults > 1
              \/ /\ Goes("persist", "send", w.out) /\ sdraft' = "sending"
                 /\ Moves(w.id, "executing", reqs[w.id].vault) /\ UNCHANGED delivered
              \/ /\ Goes("persist", "finalize", "Failed")
                 /\ Moves(w.id, "executing", reqs[w.id].vault) /\ UNCHANGED <<delivered, sdraft>>
              \/ /\ Goes("send", "draft", "Failed")
                 /\ Moves(w.id, "executing", reqs[w.id].vault) /\ UNCHANGED <<delivered, sdraft>>
              \/ /\ \E out \in {"Success", "Failed"} : Goes("send", "draft", out)
                 /\ Moves(w.id, "executing", reqs[w.id].vault) /\ UNCHANGED sdraft
                 /\ delivered' = [delivered EXCEPT ![w.id] = @ + 1]
              \/ /\ Goes("draft", "finalize", w.out)
                 /\ Moves(w.id, "executing", reqs[w.id].vault) /\ UNCHANGED delivered
                 /\ sdraft' # "sending" \/ faults' > 0
                 /\ sdraft' \in {None, "pending", "sending", "failed"}
              \/ /\ Goes("finalize", "clean", w.out)
                 /\ Moves(w.id, TerminalStatus(w.out), reqs[w.id].vault)
                 /\ UNCHANGED <<delivered, sdraft>>
              \/ /\ Goes("finalize", "error", w.out) /\ faults' > 0
                 /\ Moves(w.id, "executing", reqs[w.id].vault) /\ UNCHANGED <<delivered, sdraft>>
              \/ /\ w.pc = "error" /\ w' = Idle /\ UNCHANGED <<delivered, sdraft>>
                 /\ \/ Moves(w.id, "failed", None)
                    \/ Moves(w.id, "executing", None) /\ faults' > 1
              \/ /\ Goes("clean", "emit", w.out)
                 /\ Moves(w.id, reqs[w.id].job, None) /\ UNCHANGED <<delivered, sdraft>>
              \/ /\ w.pc = "emit" /\ w' = Idle /\ UNCHANGED <<delivered, sdraft>>
                 /\ Moves(w.id, reqs[w.id].job, reqs[w.id].vault)
<1> USE DEF At
<1>0. /\ w.pc # "idle" /\ w.id \in Sends /\ svc = "up"
      /\ w = [pc |-> w.pc, id |-> w.id, out |-> w.out]
    <2>1. w.pc # "idle"
        BY DEF Worker, build_send_request, PersistDraft, send_message, SettleDraft,
               finalize_job, WorkerError, CleanVault, EmitCompleted
    <2> QED BY <2>1, InHand
<1>f. UNCHANGED <<svc, crashes>> /\ faults' \in Nat /\ faults' >= faults
    <2>1. (WriteOk \/ WriteFails) /\ UNCHANGED <<svc, crashes>>
        BY DEF Worker, build_send_request, PersistDraft, send_message, SettleDraft,
               finalize_job, WorkerError, CleanVault, EmitCompleted, WriteOk
    <2> QED BY <2>1, FaultsGrow DEF ComposeInv
<1>g. WriteFails => faults' > 0 /\ faults' = faults + 1
    BY DEF WriteFails, ComposeInv, TypeOK, SendType
<1>r. w.pc \in Running => reqs[w.id].job = "executing"
    BY DEF ComposeInv, WorkerInv
<1>m. /\ UNCHANGED reqs => Moves(w.id, reqs[w.id].job, reqs[w.id].vault)
      /\ reqs' = [reqs EXCEPT ![w.id].vault = None] => Moves(w.id, reqs[w.id].job, None)
    BY <1>0, InHand, MovesFacts DEF ComposeInv
<1>s. w.pc \in Running /\ UNCHANGED reqs => Moves(w.id, "executing", reqs[w.id].vault)
    BY <1>r, <1>m
<1>1. CASE build_send_request
    <2>0. w.pc = "read" /\ w.pc \in Running
        BY <1>1 DEF build_send_request, Running, Unasked
    <2>1. CASE reqs[w.id].vault = NAtt
        <3>1. Goes("read", "persist", w.out)
            BY <1>0, <1>1, <2>0, <2>1 DEF build_send_request, Goto, Goes
        <3>2. Moves(w.id, "executing", reqs[w.id].vault) /\ UNCHANGED <<delivered, sdraft>>
            BY <1>1, <1>s, <2>0, <2>1 DEF build_send_request
        <3> QED BY <1>0, <1>f, <3>1, <3>2
    <2>2. CASE reqs[w.id].vault # NAtt
        <3>1. Goes("read", "error", w.out)
            BY <1>0, <1>1, <2>0, <2>2 DEF build_send_request, Goto, Goes
        <3>2. Moves(w.id, "executing", None) /\ UNCHANGED <<delivered, sdraft>>
            BY <1>1, <1>m, <1>r, <2>0, <2>2 DEF build_send_request
        <3>3. faults > 0 /\ faults > 1
            BY <1>0, <1>r, <2>0, <2>2
               DEF ComposeInv, VaultComplete, LiveJob, TypeOK, SendType
        <3> QED BY <1>0, <1>f, <2>2, <3>1, <3>2, <3>3
    <2> QED BY <2>1, <2>2
<1>2. CASE PersistDraft
    <2>0. w.pc = "persist" /\ w.pc \in Running
        BY <1>2 DEF PersistDraft, Running, Unasked
    <2>1. Moves(w.id, "executing", reqs[w.id].vault) /\ UNCHANGED delivered
        BY <1>2, <1>s, <2>0 DEF PersistDraft
    <2>2. \/ sdraft' = "sending" /\ Goes("persist", "send", w.out)
          \/ UNCHANGED sdraft /\ Goes("persist", "finalize", "Failed")
        BY <1>0, <1>2, <2>0 DEF PersistDraft, Goto, Gives, Goes
    <2> QED BY <1>0, <1>f, <2>1, <2>2
<1>3. CASE send_message
    <2>0. w.pc = "send" /\ w.pc \in Running
        BY <1>3 DEF send_message, Running, Unasked
    <2>1. Moves(w.id, "executing", reqs[w.id].vault) /\ UNCHANGED sdraft
        BY <1>3, <1>s, <2>0 DEF send_message
    <2>2. \/ Goes("send", "draft", "Failed") /\ UNCHANGED delivered
          \/ /\ \E out \in {"Success", "Failed"} : Goes("send", "draft", out)
             /\ delivered' = [delivered EXCEPT ![w.id] = @ + 1]
        BY <1>0, <1>3, <2>0 DEF send_message, Gives, Goes
    <2> QED BY <1>0, <1>f, <2>1, <2>2
<1>4. CASE SettleDraft
    <2>0. w.pc = "draft" /\ w.pc \in Running
        BY <1>4 DEF SettleDraft, Running, Unasked
    <2>1. Moves(w.id, "executing", reqs[w.id].vault) /\ UNCHANGED delivered
        BY <1>4, <1>s, <2>0 DEF SettleDraft
    <2>2. Goes("draft", "finalize", w.out)
        BY <1>0, <1>4, <2>0 DEF SettleDraft, Goto, Goes
    <2>3. sdraft' \in {None, "failed"} \/ (faults' > 0 /\ UNCHANGED sdraft)
        BY <1>4, <1>g DEF SettleDraft
    <2>4. sdraft' # "sending" \/ faults' > 0
        BY <2>3, ComposeAssumption
    <2> QED BY <1>0, <1>f, <2>1, <2>2, <2>3, <2>4 DEF ComposeInv, TypeOK, DraftType
<1>5. CASE finalize_job
    <2>0. w.pc = "finalize" /\ w.pc \in Running
        BY <1>5 DEF finalize_job, Running, Unasked
    <2>1. UNCHANGED <<delivered, sdraft>>
        BY <1>5 DEF finalize_job
    <2>2. CASE reqs' = [reqs EXCEPT ![w.id].job = TerminalStatus(w.out)] /\ Goto("clean")
        <3>1. Moves(w.id, TerminalStatus(w.out), reqs[w.id].vault)
            BY <1>0, <2>2, InHand, MovesFacts DEF ComposeInv, TerminalStatus
        <3>2. Goes("finalize", "clean", w.out)
            BY <1>0, <2>0, <2>2 DEF Goto, Goes
        <3> QED BY <1>0, <1>f, <2>1, <3>1, <3>2
    <2>3. CASE WriteFails /\ UNCHANGED reqs /\ Goto("error")
        <3>1. Goes("finalize", "error", w.out) /\ faults' > 0
            BY <1>0, <1>g, <2>0, <2>3 DEF Goto, Goes
        <3> QED BY <1>0, <1>f, <1>s, <2>0, <2>1, <2>3, <3>1
    <2> QED BY <1>5, <2>2, <2>3 DEF finalize_job
<1>6. CASE WorkerError
    <2>0. w.pc = "error" /\ w.pc \in Running /\ w' = Idle /\ UNCHANGED <<delivered, sdraft>>
        BY <1>6 DEF WorkerError, Running
    <2>1. CASE reqs' = [reqs EXCEPT ![w.id].job = "failed", ![w.id].vault = None]
        <3>1. Moves(w.id, "failed", None)
            BY <1>0, <2>1, InHand, MovesFacts DEF ComposeInv
        <3> QED BY <1>0, <1>f, <2>0, <3>1
    <2>2. CASE WriteFails /\ reqs' = [reqs EXCEPT ![w.id].vault = None]
        <3>1. Moves(w.id, "executing", None)
            BY <1>m, <1>r, <2>0, <2>2
        <3>2. faults' > 1
            BY <1>g, <2>0, <2>2 DEF ComposeInv, WorkerInv, TypeOK, SendType
        <3> QED BY <1>0, <1>f, <2>0, <3>1, <3>2
    <2> QED BY <1>6, <2>1, <2>2 DEF WorkerError
<1>7. CASE CleanVault
    <2>1. Goes("clean", "emit", w.out)
        BY <1>0, <1>7 DEF CleanVault, Goto, Goes
    <2>2. Moves(w.id, reqs[w.id].job, None) /\ UNCHANGED <<delivered, sdraft>>
        BY <1>7, <1>m DEF CleanVault
    <2> QED BY <1>0, <1>f, <2>1, <2>2
<1>8. CASE EmitCompleted
    <2>1. w.pc = "emit" /\ w' = Idle /\ UNCHANGED <<delivered, sdraft>>
          /\ Moves(w.id, reqs[w.id].job, reqs[w.id].vault)
        BY <1>8, <1>m DEF EmitCompleted
    <2> QED BY <1>0, <1>f, <2>1
<1> QED BY <1>1, <1>2, <1>3, <1>4, <1>5, <1>6, <1>7, <1>8 DEF Worker

LEMMA BootFacts ==
    ASSUME TypeOK, BootRecovery
    PROVE  /\ svc = "recover" /\ svc' = "drain" /\ UNCHANGED <<w, crashes, delivered>>
           /\ faults' \in Nat /\ faults' >= faults
           /\ sdraft' # "sending" \/ faults' > 0
           /\ reqs' \in [Sends -> Request]
           /\ \A s \in Sends :
                 /\ reqs'[s].h = reqs[s].h
                 /\ \/ reqs'[s].job = reqs[s].job
                    \/ reqs[s].job = "executing" /\ reqs'[s].job = "queued"
                 /\ reqs'[s].vault = IF reqs'[s].job \in {"queued", "executing"}
                                     THEN reqs[s].vault ELSE None
<1>1. /\ svc = "recover" /\ svc' = "drain" /\ UNCHANGED <<w, crashes, delivered>>
      /\ WriteOk \/ WriteFails
    BY DEF BootRecovery
<1>2. PICK skip \in {"none", "drafts", "leases"} :
        LET jobs == [s \in Sends |->
                IF reqs[s].job = "executing" /\ skip # "leases"
                THEN "queued" ELSE reqs[s].job]
        IN  /\ IF skip = "none" THEN WriteOk ELSE WriteFails
            /\ sdraft' = IF skip = "drafts" THEN sdraft ELSE resurface_sending(sdraft)
            /\ reqs' = [s \in Sends |-> [reqs[s] EXCEPT
                  !.job = jobs[s],
                  !.vault = IF s \in live_send_job_ids(jobs) THEN @ ELSE None]]
    BY DEF BootRecovery
<1> DEFINE jobs == [s \in Sends |->
                      IF reqs[s].job = "executing" /\ skip # "leases"
                      THEN "queued" ELSE reqs[s].job]
<1>3. \A s \in Sends :
        LET r == [reqs[s] EXCEPT
                    !.job = jobs[s],
                    !.vault = IF s \in live_send_job_ids(jobs) THEN @ ELSE None]
        IN  /\ r \in Request /\ r.h = reqs[s].h /\ r.job = jobs[s]
            /\ r.vault = IF jobs[s] \in {"queued", "executing"} THEN reqs[s].vault ELSE None
    BY ZenonT(30) DEF TypeOK, SendType, Request, live_send_job_ids
<1>4. reqs' = [s \in Sends |-> [reqs[s] EXCEPT
                  !.job = jobs[s],
                  !.vault = IF s \in live_send_job_ids(jobs) THEN @ ELSE None]]
    BY <1>2
<1>5. \A s \in Sends :
        /\ reqs'[s] \in Request /\ reqs'[s].h = reqs[s].h /\ reqs'[s].job = jobs[s]
        /\ reqs'[s].vault = IF jobs[s] \in {"queued", "executing"} THEN reqs[s].vault ELSE None
    BY <1>3, <1>4
<1>6. reqs' \in [Sends -> Request]
    BY <1>4, <1>5
<1>7. sdraft' # "sending" \/ faults' > 0
    <2>1. CASE skip = "drafts"
        <3>1. WriteFails
            BY <1>2, <2>1
        <3> QED BY <3>1 DEF WriteFails, TypeOK, SendType
    <2>2. CASE skip # "drafts"
        <3>1. sdraft' = resurface_sending(sdraft)
            BY <1>2, <2>2
        <3> QED BY <3>1 DEF resurface_sending
    <2> QED BY <2>1, <2>2
<1>8. \A s \in Sends : jobs[s] = reqs[s].job \/ (reqs[s].job = "executing" /\ jobs[s] = "queued")
    OBVIOUS
<1> HIDE DEF jobs
<1> QED BY <1>1, <1>5, <1>6, <1>7, <1>8, FaultsGrow

(* The other boot phases only move the Service on. *)
Phase ==
    /\ UNCHANGED <<reqs, w, crashes, delivered, sdraft>>
    /\ faults' \in Nat /\ faults' >= faults
    /\ \/ svc = "down" /\ svc' = "recover"
       \/ svc = "drain" /\ svc' \in {"rotate", "up"}
       \/ svc = "rotate" /\ svc' = "up"

(* Every step is one of these. *)
LEMMA Steps ==
    ASSUME ComposeInv, [Next]_vars
    PROVE  \/ SameWork /\ reqs' \in [Sends -> Request] /\ faults' \in Nat /\ faults' >= faults
           \/ dispatch_send
           \/ \E s \in Sends : Handler(s)
           \/ Lease
           \/ Worker /\ ~Lease
           \/ Death /\ reqs' \in [Sends -> Request]
           \/ BootRecovery
           \/ Phase
<1> USE DEF ComposeInv
<1>0. reqs \in [Sends -> Request] /\ faults \in Nat
    BY DEF TypeOK, SendType
<1>1. CASE UNCHANGED vars
    BY <1>0, <1>1 DEF vars, SameWork
<1>2. CASE Edit \/ save_compose_draft \/ handle_window_close \/ handle_action_completed
    BY <1>0, <1>2, WindowFacts
<1>3. ASSUME NEW s \in Sends, handle_job_status_resolved(s)
      PROVE  SameWork /\ reqs' \in [Sends -> Request] /\ faults' \in Nat /\ faults' >= faults
    BY <1>0, <1>3, WindowFacts
<1>4. ASSUME NEW s \in Sends, SendAcked(s) \/ SendRefused(s) \/ SendTimesOut(s)
      PROVE  SameWork /\ reqs' \in [Sends -> Request] /\ faults' \in Nat /\ faults' >= faults
    BY <1>0, <1>4, AnswerFacts
<1>5. CASE ServiceDies \/ AppDies
    BY <1>5, DeathFacts
<1>6. CASE Respawn
    BY <1>6 DEF Respawn, Phase, ComposeInv, TypeOK, SendType
<1>7. CASE DrainWal \/ RotateWal
    <2>1. WriteOk \/ WriteFails
        BY <1>7 DEF DrainWal, RotateWal
    <2> QED BY <1>7, <2>1, FaultsGrow DEF DrainWal, RotateWal, ServiceReady, Phase, ComposeInv
<1> QED BY <1>1, <1>2, <1>3, <1>4, <1>5, <1>6, <1>7 DEF Next, Receive, Handlers, Boot

-----------------------------------------------------------------------------
(* One lemma per part of the invariant. *)

LEMMA SendTypeStep ==
    ASSUME ComposeInv, [Next]_vars
    PROVE  SendType'
<1> USE DEF ComposeInv
<1>1. /\ reqs' \in [Sends -> Request]
      /\ svc' \in {"up", "down", "recover", "drain", "rotate"}
      /\ w' \in [pc : WorkerSteps, id : Sends \cup {None}, out : {None, "Success", "Failed"}]
      /\ faults' \in Nat /\ crashes' \in Nat /\ delivered' \in [Sends -> Nat]
    <2> USE DEF TypeOK, SendType
    <2>1. CASE SameWork /\ reqs' \in [Sends -> Request] /\ faults' \in Nat
        BY <2>1 DEF SameWork
    <2>2. CASE dispatch_send
        <3>1. reqs' \in [Sends -> Request]
            BY <2>2, DispatchFacts DEF Only
        <3> QED BY <2>2, <3>1, DispatchFacts
    <2>3. ASSUME NEW s \in Sends, Handler(s)
          PROVE  /\ reqs' \in [Sends -> Request] /\ UNCHANGED <<svc, w, crashes, delivered>>
                 /\ faults' \in Nat
        <3>1. reqs' \in [Sends -> Request]
            BY <2>3, HandlerFacts DEF Only
        <3> QED BY <2>3, <3>1, HandlerFacts
    <2>4. CASE Lease
        BY <2>4, LeaseFacts DEF Moves, WorkerSteps
    <2>5. CASE Worker /\ ~Lease
        <3>1. w' \in [pc : WorkerSteps, id : Sends \cup {None}, out : {None, "Success", "Failed"}]
            BY <2>5, RunFacts DEF Goes, WorkerSteps, Idle
        <3>2. reqs' \in [Sends -> Request]
            BY <2>5, RunFacts DEF Moves
        <3>3. delivered' \in [Sends -> Nat]
            BY <2>5, RunFacts
        <3> QED BY <2>5, <3>1, <3>2, <3>3, RunFacts
    <2>6. CASE Death /\ reqs' \in [Sends -> Request]
        BY <2>6 DEF Death, Idle, WorkerSteps
    <2>7. CASE BootRecovery
        BY <2>7, BootFacts
    <2>8. CASE Phase
        BY <2>8 DEF Phase
    <2> QED BY <2>1, <2>2, <2>3, <2>4, <2>5, <2>6, <2>7, <2>8, Steps
<1>2. tracked' \subseteq Sends /\ queries' \subseteq Sends
    BY DEF TypeOK, SendType, Next, vars, ui, Edit, save_compose_draft, handle_window_close,
           dispatch_send, Receive, handle_action_completed, Complete, SendAcked, SendRefused,
           RequestError, SendTimesOut, handle_job_status_resolved, Handlers, Handler,
           HandleSend, verify_and_transfer, insert_quiet_job, Worker, Lease,
           build_send_request, PersistDraft, send_message, SettleDraft, finalize_job,
           WorkerError, CleanVault, EmitCompleted, ServiceDies, AppDies, ServiceDown,
           Boot, Respawn, BootRecovery, DrainWal, RotateWal, ServiceReady, ReconcileQueries
<1>3. timeouts' \in Nat
    <2>1. timeouts' = timeouts \/ timeouts' = timeouts + 1
        BY DEF Next, vars, Edit, save_compose_draft, handle_window_close,
           dispatch_send, Receive, handle_action_completed, SendAcked, SendRefused,
           SendTimesOut, handle_job_status_resolved, Handlers, Handler,
           HandleSend, verify_and_transfer, insert_quiet_job, Worker, Lease,
           build_send_request, PersistDraft, send_message, SettleDraft, finalize_job,
           WorkerError, CleanVault, EmitCompleted, ServiceDies, AppDies, ServiceDown,
           Boot, Respawn, BootRecovery, DrainWal, RotateWal
    <2> QED BY <2>1 DEF TypeOK, SendType
<1>4. notes' \in Seq([id : Sends, ok : BOOLEAN])
    <2> USE DEF TypeOK, SendType
    <2>1. CASE EmitCompleted
        <3>1. [id |-> w.id, ok |-> w.out = "Success"] \in [id : Sends, ok : BOOLEAN]
            BY <2>1, InHand DEF EmitCompleted, At
        <3> QED BY <2>1, <3>1, AppendProperties DEF EmitCompleted
    <2>2. CASE handle_action_completed
        BY <2>2 DEF handle_action_completed
    <2>3. CASE notes' = <<>>
        BY <2>3
    <2>4. CASE UNCHANGED notes
        BY <2>4
    <2> QED BY <2>1, <2>2, <2>3, <2>4
            DEF Next, vars, Edit, save_compose_draft, handle_window_close,
           dispatch_send, Receive, SendAcked, SendRefused,
           RequestError, SendTimesOut, handle_job_status_resolved, Handlers, Handler,
           HandleSend, verify_and_transfer, insert_quiet_job, Worker, Lease,
           build_send_request, PersistDraft, send_message, SettleDraft, finalize_job,
           WorkerError, CleanVault, ServiceDies, AppDies, ServiceDown,
           Boot, Respawn, BootRecovery, DrainWal, RotateWal
<1> QED BY <1>1, <1>2, <1>3, <1>4 DEF SendType

(* Requests, whatever step is taken: kept as far as the Service goes, or    *)
(* moved on by one of its tasks.                                            *)
LEMMA HandlerStep ==
    ASSUME ComposeInv, [Next]_vars
    PROVE  HandlerInv'
<1> USE Constants DEF ComposeInv, HandlerInv
<1>1. CASE SameWork
    BY <1>1 DEF SameWork
<1>2. CASE dispatch_send
    <2>1. PICK s \in Sends : \E r :
            /\ Only(s, r) /\ r.vault = None /\ r.job = "none"
            /\ r.h = IF svc = "up" THEN "sent" ELSE "dead"
        BY <1>2, DispatchFacts
    <2>2. PICK r :
            /\ Only(s, r) /\ r.vault = None /\ r.job = "none"
            /\ r.h = IF svc = "up" THEN "sent" ELSE "dead"
        BY <2>1
    <2>3. reqs' = [reqs EXCEPT ![s] = r] /\ svc' = svc
        BY <1>2, <2>2, DispatchFacts DEF Only
    <2> QED BY <2>2, <2>3 DEF TypeOK, SendType
<1>3. ASSUME NEW s \in Sends, Handler(s) PROVE HandlerInv'
    <2>1. PICK r :
            /\ Only(s, r)
            /\ \/ r.h = "transfer" /\ r.vault \in 0 .. (NAtt - 1) /\ r.job = "none"
               \/ r.h = "insert" /\ r.vault = NAtt /\ r.job = "none"
               \/ r.h = "failed" /\ r.vault = None /\ r.job = "none"
               \/ r.h = "done" /\ r.vault = NAtt /\ r.job = "queued"
        BY <1>3, HandlerFacts
    <2>2. reqs' = [reqs EXCEPT ![s] = r] /\ svc' = "up"
        BY <1>3, <2>1, HandlerFacts DEF Only
    <2> QED BY <2>1, <2>2 DEF TypeOK, SendType
<1>4. CASE Lease
    BY <1>4, LeaseFacts DEF Moves
<1>5. CASE Worker /\ ~Lease
    <2>1. /\ svc' = "up" /\ w.id \in Sends
          /\ \E job, vault : Moves(w.id, job, vault)
        BY <1>5, RunFacts
    <2>2. reqs[w.id].job # "none"
        BY <1>5, RunFacts DEF WorkerInv, Running, Unasked, Goes
    <2>3. \A s \in Sends :
            /\ reqs'[s].h = reqs[s].h
            /\ s # w.id => reqs'[s].job = reqs[s].job /\ reqs'[s].vault = reqs[s].vault
        BY <2>1 DEF Moves
    <2>4. reqs[w.id].h \notin {"none", "sent", "transfer", "insert", "failed"}
        BY <2>1, <2>2
    <2> QED BY <2>1, <2>3, <2>4
<1>6. CASE Death
    BY <1>6 DEF Death
<1>7. CASE BootRecovery
    BY <1>7, BootFacts
<1>8. CASE Phase
    BY <1>8 DEF Phase
<1> QED BY <1>1, <1>2, <1>3, <1>4, <1>5, <1>6, <1>7, <1>8, Steps

LEMMA WorkerStep ==
    ASSUME ComposeInv, [Next]_vars
    PROVE  WorkerInv'
<1> USE Constants DEF ComposeInv, WorkerInv
<1>0. w.pc \in WorkerSteps /\ w.id \in Sends \cup {None} /\ faults \in Nat
    BY DEF TypeOK, SendType
<1>1. CASE SameWork /\ faults' \in Nat /\ faults' >= faults
    BY <1>0, <1>1 DEF SameWork, Running, Unasked
<1>2. CASE dispatch_send
    <2>1. PICK s, r : s \in Sends /\ Only(s, r) /\ reqs[s] = NoReq
        BY <1>2, DispatchFacts
    <2>2. reqs' = [reqs EXCEPT ![s] = r] /\ UNCHANGED <<svc, w, faults>>
        BY <1>2, <2>1, DispatchFacts DEF Only
    <2>3. w.pc # "idle" => w.id # s
        BY <1>0, <2>1 DEF WorkerSteps, Running, Unasked, NoReq
    <2> QED BY <1>0, <2>2, <2>3 DEF TypeOK, SendType, Running, Unasked
<1>3. ASSUME NEW s \in Sends, Handler(s) PROVE WorkerInv'
    <2>1. PICK r : Only(s, r)
        BY <1>3, HandlerFacts
    <2>2. /\ reqs' = [reqs EXCEPT ![s] = r] /\ UNCHANGED <<svc, w>>
          /\ faults' \in Nat /\ faults' >= faults /\ reqs[s].job = "none"
        BY <1>3, <2>1, HandlerFacts DEF Only, HandlerInv
    <2>3. w.pc # "idle" => w.id # s
        BY <1>0, <2>2 DEF WorkerSteps, Running, Unasked
    <2> QED BY <1>0, <2>2, <2>3 DEF TypeOK, SendType, Running, Unasked
<1>4. CASE Lease
    <2>1. PICK s \in Sends : /\ Moves(s, "executing", reqs[s].vault)
                             /\ w' = [pc |-> "read", id |-> s, out |-> None]
        BY <1>4, LeaseFacts
    <2>2. svc' = "up"
        BY <1>4, LeaseFacts
    <2> QED BY <2>1, <2>2 DEF Moves, Running, Unasked
<1>5. CASE Worker /\ ~Lease
    <2>0. svc' = "up" /\ w.id \in Sends /\ faults' \in Nat /\ faults' >= faults
        BY <1>5, RunFacts
    <2>1. ASSUME NEW from, NEW to \in {"persist", "send", "draft", "finalize"}, NEW out,
                 Goes(from, to, out), NEW vault, Moves(w.id, "executing", vault)
          PROVE  WorkerInv'
        BY <2>0, <2>1 DEF Goes, Moves, Running, Unasked
    <2>2. ASSUME NEW from, NEW out, Goes(from, "error", out), faults' > 0,
                 NEW vault, Moves(w.id, "executing", vault)
          PROVE  WorkerInv'
        BY <2>0, <2>2 DEF Goes, Moves, Running, Unasked
    <2>3. ASSUME NEW from, NEW to \in {"clean", "emit"}, NEW out, Goes(from, to, out),
                 NEW job \in {"completed", "failed"}, NEW vault, Moves(w.id, job, vault)
          PROVE  WorkerInv'
        BY <2>0, <2>3 DEF Goes, Moves, Running, Unasked
    <2>4. CASE w' = Idle
        BY <2>0, <2>4 DEF Idle, Running, Unasked
    <2>5. TerminalStatus(w.out) \in {"completed", "failed"}
        BY DEF TerminalStatus
    <2>6. w.pc = "clean" => reqs[w.id].job \in {"completed", "failed"}
        OBVIOUS
    <2>7. faults > 0 => faults' > 0
        BY <1>0, <2>0
    <2> QED BY <1>5, <2>1, <2>2, <2>3, <2>4, <2>5, <2>6, <2>7, RunFacts DEF Goes
<1>6. CASE Death
    BY <1>6 DEF Death, Idle, Running, Unasked
<1>7. CASE BootRecovery
    BY <1>0, <1>7, BootFacts DEF Running, Unasked
<1>8. CASE Phase
    BY <1>0, <1>8 DEF Phase, Running, Unasked
<1> QED BY <1>1, <1>2, <1>3, <1>4, <1>5, <1>6, <1>7, <1>8, Steps

(* A live job is journaled with a full vault, which only the worker's and   *)
(* the boot's cleanups empty: after the job, unless two writes failed.      *)
LEMMA VaultStep ==
    ASSUME ComposeInv, [Next]_vars
    PROVE  VaultComplete'
<1> USE Constants DEF ComposeInv, VaultComplete, LiveJob
<1>0. faults \in Nat /\ reqs \in [Sends -> Request]
    BY DEF TypeOK, SendType
<1>1. CASE SameWork /\ faults' \in Nat /\ faults' >= faults
    BY <1>0, <1>1 DEF SameWork
<1>2. CASE dispatch_send
    <2>1. PICK s, r : s \in Sends /\ Only(s, r) /\ r.job = "none"
        BY <1>2, DispatchFacts
    <2>2. reqs' = [reqs EXCEPT ![s] = r] /\ UNCHANGED faults
        BY <1>2, <2>1, DispatchFacts DEF Only
    <2> QED BY <1>0, <2>1, <2>2
<1>3. ASSUME NEW s \in Sends, Handler(s) PROVE VaultComplete'
    <2>1. PICK r : Only(s, r) /\ (r.job = "none" \/ r.vault = NAtt)
        BY <1>3, HandlerFacts
    <2>2. reqs' = [reqs EXCEPT ![s] = r] /\ faults' \in Nat /\ faults' >= faults
        BY <1>3, <2>1, HandlerFacts DEF Only
    <2> QED BY <1>0, <2>1, <2>2
<1>4. CASE Lease
    BY <1>4, LeaseFacts DEF Moves
<1>5. CASE Worker /\ ~Lease
    <2>0. w.id \in Sends /\ faults' \in Nat /\ faults' >= faults
        BY <1>5, RunFacts
    <2>1. ASSUME NEW job, Moves(w.id, job, reqs[w.id].vault), LiveJob(w.id) \/ job \notin {"queued", "executing"}
          PROVE  VaultComplete'
        BY <1>0, <2>0, <2>1 DEF Moves
    <2>2. ASSUME NEW job, Moves(w.id, job, None), job \notin {"queued", "executing"} \/ faults' > 1
          PROVE  VaultComplete'
        BY <1>0, <2>0, <2>2 DEF Moves
    <2>3. w.pc \in Running => LiveJob(w.id)
        BY DEF WorkerInv
    <2>4. w.pc \in {"clean", "emit"} => reqs[w.id].job \notin {"queued", "executing"}
        BY DEF WorkerInv
    <2>5. TerminalStatus(w.out) \notin {"queued", "executing"}
        BY DEF TerminalStatus
    <2>6. faults > 1 => faults' > 1
        BY <1>0, <2>0
    <2> HIDE DEF LiveJob
    <2> QED BY <1>5, <2>1, <2>2, <2>3, <2>4, <2>5, <2>6, RunFacts DEF Goes, Running, Unasked
<1>6. CASE Death
    BY <1>6 DEF Death
<1>7. CASE BootRecovery
    BY <1>0, <1>7, BootFacts
<1>8. CASE Phase
    BY <1>0, <1>8 DEF Phase
<1> QED BY <1>1, <1>2, <1>3, <1>4, <1>5, <1>6, <1>7, <1>8, Steps

(* A vault that nobody needs any more is emptied before the Service goes on *)
(* or by the next boot.                                                     *)
LEMMA LitterStep ==
    ASSUME ComposeInv, [Next]_vars
    PROVE  LitterInv'
<1> USE Constants DEF ComposeInv, LitterInv, LiveJob
<1>0. reqs \in [Sends -> Request]
    BY DEF TypeOK, SendType
<1>1. CASE SameWork
    BY <1>0, <1>1 DEF SameWork
<1>2. CASE dispatch_send
    <2>1. PICK s, r : s \in Sends /\ Only(s, r) /\ r.vault = None /\ reqs[s] = NoReq
        BY <1>2, DispatchFacts
    <2>2. reqs' = [reqs EXCEPT ![s] = r] /\ UNCHANGED <<svc, w>>
        BY <1>2, <2>1, DispatchFacts DEF Only
    <2> QED BY <1>0, <2>1, <2>2
<1>3. ASSUME NEW s \in Sends, Handler(s) PROVE LitterInv'
    <2>1. PICK r : /\ Only(s, r)
                   /\ r.h \in {"transfer", "insert"} \/ r.vault = None \/ r.job = "queued"
        BY <1>3, HandlerFacts
    <2>2. reqs' = [reqs EXCEPT ![s] = r] /\ UNCHANGED <<svc, w>>
        BY <1>3, <2>1, HandlerFacts DEF Only
    <2> QED BY <1>0, <2>1, <2>2
<1>4. CASE Lease
    <2>1. PICK s \in Sends : Moves(s, "executing", reqs[s].vault)
        BY <1>4, LeaseFacts
    <2>2. svc = "up" /\ svc' = "up" /\ w = Idle
        BY <1>4, LeaseFacts
    <2>3. \A t \in Sends : reqs[t].vault # None =>
              reqs[t].h \in {"transfer", "insert"} \/ reqs[t].job \in {"queued", "executing"}
        BY <2>2 DEF Idle
    <2> QED BY <2>1, <2>2, <2>3 DEF Moves
<1>5. CASE Worker /\ ~Lease
    <2>0. w.id \in Sends /\ svc = "up" /\ svc' = "up"
        BY <1>5, RunFacts
    <2>1. \A t \in Sends \ {w.id} : reqs[t].vault # None =>
              reqs[t].h \in {"transfer", "insert"} \/ reqs[t].job \in {"queued", "executing"}
        BY <2>0
    <2>2. ASSUME NEW job, NEW vault, Moves(w.id, job, vault),
                 vault = None \/ job = "executing" \/ (w'.id = w.id /\ w'.pc = "clean")
          PROVE  LitterInv'
        BY <2>0, <2>1, <2>2 DEF Moves
    <2>3. w.pc = "emit" => reqs[w.id].vault = None
        <3>1. w.pc = "emit" => reqs[w.id].job \in {"completed", "failed"}
            BY DEF WorkerInv
        <3>2. w.pc = "emit" => reqs[w.id].h \notin {"transfer", "insert"}
            BY <2>0, <3>1 DEF HandlerInv
        <3> QED BY <2>0, <3>1, <3>2
    <2>4. ASSUME Goes("finalize", "clean", w.out) PROVE w'.id = w.id /\ w'.pc = "clean"
        BY <2>4 DEF Goes
    <2> QED BY <1>5, <2>2, <2>3, <2>4, RunFacts
<1>6. CASE Death
    BY <1>6 DEF Death
<1>7. CASE BootRecovery
    BY <1>0, <1>7, BootFacts
<1>8. CASE Phase
    <2>1. CASE svc = "down" /\ svc' = "recover"
        BY <2>1
    <2>2. CASE svc \in {"drain", "rotate"} /\ UNCHANGED <<reqs, w>>
        BY <2>2
    <2> QED BY <1>8, <2>1, <2>2 DEF Phase
<1> QED BY <1>1, <1>2, <1>3, <1>4, <1>5, <1>6, <1>7, <1>8, Steps

(* A send reaches the provider once after each time it was queued, and is   *)
(* queued again only by a boot.                                             *)
LEMMA SubmitStep ==
    ASSUME ComposeInv, [Next]_vars
    PROVE  SubmitInv'
<1> USE Constants DEF ComposeInv, SubmitInv, Unsubmitted
<1>0. /\ reqs \in [Sends -> Request] /\ crashes \in Nat /\ delivered \in [Sends -> Nat]
      /\ w.id \in Sends \cup {None} /\ w.pc \in WorkerSteps
    BY DEF TypeOK, SendType
<1>1. CASE SameWork
    BY <1>0, <1>1 DEF SameWork
<1>2. CASE dispatch_send
    <2>1. PICK s, r : s \in Sends /\ Only(s, r) /\ r.job = "none" /\ reqs[s] = NoReq
        BY <1>2, DispatchFacts
    <2>2. reqs' = [reqs EXCEPT ![s] = r] /\ UNCHANGED <<svc, w, crashes, delivered>>
        BY <1>2, <2>1, DispatchFacts DEF Only
    <2>3. reqs[s].job = "none"
        BY <2>1 DEF NoReq
    <2> QED BY <1>0, <2>1, <2>2, <2>3
<1>3. ASSUME NEW s \in Sends, Handler(s) PROVE SubmitInv'
    <2>1. PICK r : Only(s, r) /\ r.job \in {"none", "queued"}
        BY <1>3, HandlerFacts
    <2>2. /\ reqs' = [reqs EXCEPT ![s] = r] /\ UNCHANGED <<svc, w, crashes, delivered>>
          /\ reqs[s].job = "none"
        BY <1>3, <2>1, HandlerFacts DEF Only, HandlerInv
    <2> QED BY <1>0, <2>1, <2>2
<1>4. CASE Lease
    <2>1. PICK s \in Sends : /\ reqs[s].job = "queued" /\ Moves(s, "executing", reqs[s].vault)
                             /\ w' = [pc |-> "read", id |-> s, out |-> None]
        BY <1>4, LeaseFacts
    <2>2. svc = "up" /\ UNCHANGED <<svc, crashes, delivered>>
        BY <1>4, LeaseFacts
    <2>3. None # "Success"
        BY ComposeAssumption
    <2> QED BY <1>0, <2>1, <2>2, <2>3 DEF Moves
<1>5. CASE Worker /\ ~Lease
    <2>0. w.id \in Sends /\ svc = "up" /\ UNCHANGED <<svc, crashes>> /\ None # "Success"
        BY <1>5, RunFacts, ComposeAssumption
    <2>1. ASSUME UNCHANGED delivered, NEW job, NEW vault, Moves(w.id, job, vault),
                 job \notin {"none", "queued"} \/ w' = Idle,
                 job \in {"none", "queued"} => reqs[w.id].job \in {"none", "queued"},
                 job = "completed" => delivered[w.id] > 0,
                 w'.out # "Success" \/ (w'.out = w.out /\ w'.id = w.id),
                 w'.id # w.id \/ w'.pc \notin Unasked \/ w.pc \in Unasked,
                 w'.id \in {w.id, None}
          PROVE  SubmitInv'
        <3>1. \A s \in Sends : Unsubmitted(s)' => delivered[s] <= crashes
            BY <1>0, <2>0, <2>1 DEF Moves
        <3>2. \A s \in Sends : reqs'[s].job = "completed" => delivered[s] > 0
            BY <1>0, <2>0, <2>1 DEF Moves
        <3>3. w'.out = "Success" => w'.id # None /\ delivered[w'.id] > 0
            BY <2>0, <2>1
        <3> QED BY <1>0, <2>0, <2>1, <3>1, <3>2, <3>3
    <2>2. ASSUME NEW from, NEW to, Goes(from, to, w.out), NEW vault,
                 Moves(w.id, "executing", vault), UNCHANGED delivered,
                 from \in Unasked \/ to \notin Unasked
          PROVE  SubmitInv'
        BY <2>0, <2>1, <2>2 DEF Goes
    <2>3. ASSUME NEW from, NEW to, Goes(from, to, "Failed"), NEW vault,
                 Moves(w.id, "executing", vault), UNCHANGED delivered, to \notin Unasked
          PROVE  SubmitInv'
        BY <2>0, <2>1, <2>3 DEF Goes
    <2>4. ASSUME NEW out \in {"Success", "Failed"}, Goes("send", "draft", out), NEW vault,
                 Moves(w.id, "executing", vault),
                 delivered' = [delivered EXCEPT ![w.id] = @ + 1]
          PROVE  SubmitInv'
        <3>1. delivered[w.id] <= crashes
            BY <2>0, <2>4 DEF Goes, Unasked
        <3>2. delivered'[w.id] = delivered[w.id] + 1 /\ delivered[w.id] \in Nat
            BY <1>0, <2>0, <2>4
        <3>3. delivered'[w.id] <= 1 + crashes /\ delivered'[w.id] > 0
            BY <1>0, <3>1, <3>2
        <3>4. \A s \in Sends \ {w.id} : delivered'[s] = delivered[s]
            BY <1>0, <2>4
        <3>5. ~Unsubmitted(w.id)'
            BY <2>0, <2>4 DEF Goes, Moves, Unasked
        <3>6. \A s \in Sends \ {w.id} : Unsubmitted(s)' => Unsubmitted(s)
            BY <2>0, <2>4 DEF Goes, Moves
        <3>7. \A s \in Sends : Unsubmitted(s)' => delivered'[s] <= crashes
            BY <2>0, <2>4, <3>4, <3>6, <3>5 DEF Goes
        <3>8. w'.id = w.id /\ \A s \in Sends \ {w.id} : reqs'[s].job = reqs[s].job
            BY <2>4 DEF Goes, Moves
        <3>9. reqs'[w.id].job # "completed"
            BY <2>0, <2>4 DEF Moves
        <3> HIDE DEF Unsubmitted
        <3> QED BY <1>0, <2>0, <3>3, <3>4, <3>7, <3>8, <3>9
    <2>5. ASSUME Goes("finalize", "clean", w.out), UNCHANGED delivered,
                 Moves(w.id, TerminalStatus(w.out), reqs[w.id].vault)
          PROVE  SubmitInv'
        <3>1. TerminalStatus(w.out) \in {"completed", "failed"}
            BY DEF TerminalStatus
        <3>2. TerminalStatus(w.out) = "completed" => delivered[w.id] > 0
            BY DEF TerminalStatus
        <3> QED BY <2>0, <2>1, <2>5, <3>1, <3>2 DEF Goes, Unasked
    <2>6. ASSUME w' = Idle, UNCHANGED delivered, NEW job \in {"failed", "executing", reqs[w.id].job},
                 NEW vault, Moves(w.id, job, vault)
          PROVE  SubmitInv'
        BY <2>0, <2>1, <2>6 DEF Idle
    <2>7. ASSUME Goes("clean", "emit", w.out), UNCHANGED delivered,
                 Moves(w.id, reqs[w.id].job, None)
          PROVE  SubmitInv'
        <3>1. reqs[w.id].job \in {"completed", "failed"}
            BY <2>7 DEF Goes, WorkerInv
        <3> QED BY <2>0, <2>1, <2>7, <3>1 DEF Goes, Unasked
    <2> HIDE DEF SubmitInv
    <2> QED BY <1>5, <2>2, <2>3, <2>4, <2>5, <2>6, <2>7, RunFacts DEF Unasked
<1>6. CASE Death
    <2>1. UNCHANGED delivered /\ w' = Idle /\ crashes' = crashes + 1
        BY <1>6 DEF Death
    <2>2. None # "Success"
        BY ComposeAssumption
    <2>3. \A s \in Sends : reqs'[s].job = reqs[s].job
        BY <1>6 DEF Death
    <2>4. \A s \in Sends : delivered[s] <= crashes + 1 /\ delivered[s] <= 1 + (crashes + 1)
        BY <1>0
    <2> QED BY <2>1, <2>2, <2>3, <2>4 DEF Idle
<1>7. CASE BootRecovery
    <2>1. svc = "recover" /\ UNCHANGED <<w, crashes, delivered>>
        BY <1>7, BootFacts
    <2>2. \A s \in Sends : reqs'[s].job = "completed" => reqs[s].job = "completed"
        BY <1>7, BootFacts
    <2> QED BY <1>0, <2>1, <2>2
<1>8. CASE Phase
    BY <1>0, <1>8 DEF Phase
<1> QED BY <1>1, <1>2, <1>3, <1>4, <1>5, <1>6, <1>7, <1>8, Steps

LEMMA SendingStep ==
    ASSUME ComposeInv, [Next]_vars
    PROVE  SendingInv'
<1> USE DEF ComposeInv, SendingInv
<1>0. faults \in Nat /\ w.pc \in WorkerSteps
    BY DEF TypeOK, SendType
<1>1. CASE SameWork /\ faults' \in Nat /\ faults' >= faults
    BY <1>0, <1>1 DEF SameWork
<1>2. CASE dispatch_send
    BY <1>2, DispatchFacts
<1>3. ASSUME NEW s \in Sends, Handler(s) PROVE SendingInv'
    BY <1>0, <1>3, HandlerFacts
<1>4. CASE Lease
    BY <1>4, LeaseFacts DEF Idle
<1>5. CASE Worker /\ ~Lease
    <2>0. faults' \in Nat /\ faults' >= faults /\ svc = "up" /\ svc' = "up"
        BY <1>5, RunFacts
    <2>1. CASE w'.pc \in {"send", "draft"}
        BY <2>1
    <2>2. CASE UNCHANGED sdraft /\ w.pc \notin {"send", "draft"}
        BY <1>0, <2>0, <2>2
    <2>3. CASE sdraft' # "sending" \/ faults' > 0
        BY <2>0, <2>3
    <2>4. ASSUME NEW to \in {"send", "draft"}, NEW from, NEW out, Goes(from, to, out)
          PROVE  w'.pc \in {"send", "draft"}
        BY <2>4 DEF Goes
    <2> QED BY <1>5, <2>1, <2>2, <2>3, <2>4, RunFacts DEF Goes
<1>6. CASE Death
    BY <1>6 DEF Death
<1>7. CASE BootRecovery
    BY <1>7, BootFacts
<1>8. CASE Phase
    BY <1>0, <1>8 DEF Phase
<1> QED BY <1>1, <1>2, <1>3, <1>4, <1>5, <1>6, <1>7, <1>8, Steps

-----------------------------------------------------------------------------
(* What the drain restores. *)

LEMMA ReplayLast ==
    ASSUME NEW S, NEW lines \in Seq(S), NEW i, LastAt(lines, i), NEW row
    PROVE  Replay(lines, row) = lines[i]
<1>1. \A k \in 1 .. Len(lines) : LastAt(lines, k) => k = i
    BY LenProperties DEF LastAt
<1> DEFINE P(k) == /\ lines[k] # None
                   /\ \A j \in (k + 1) .. Len(lines) : lines[j] = None
           c == CHOOSE k \in 1 .. Len(lines) : P(k)
<1>2. i \in 1 .. Len(lines) /\ P(i)
    BY DEF LastAt
<1>3. c \in 1 .. Len(lines) /\ P(c)
    BY <1>2
<1>4. c = i
    BY <1>1, <1>3 DEF LastAt
<1>5. Replay(lines, row) = lines[c]
    BY <1>2 DEF Replay
<1> QED BY <1>4, <1>5

LEMMA ReplayNothing ==
    ASSUME NEW lines, ~\E i \in 1 .. Len(lines) : lines[i] # None, NEW row
    PROVE  Replay(lines, row) = row
BY DEF Replay

(* A text appended last is the one that is restored. *)
LEMMA ReplayText ==
    ASSUME NEW S, NEW lines \in Seq(S), NEW t \in S, t # None, NEW row
    PROVE  HasLast(Append(lines, t)) /\ Replay(Append(lines, t), row) = t
<1> DEFINE new == Append(lines, t)  n == Len(lines) + 1
<1>1. new \in Seq(S) /\ Len(new) = n /\ new[n] = t /\ n \in 1 .. n
    BY AppendProperties, LenProperties
<1> HIDE DEF new
<1>2. LastAt(new, n)
    BY <1>1, LenProperties DEF LastAt
<1>3. HasLast(new)
    BY <1>1, <1>2 DEF HasLast
<1>4. Replay(new, row) = t
    BY <1>1, <1>2, ReplayLast
<1> QED BY <1>3, <1>4 DEF new

(* An unreadable line changes nothing. *)
LEMMA ReplayTorn ==
    ASSUME NEW S, NEW lines \in Seq(S), None \in S, HasLast(lines), NEW row
    PROVE  /\ HasLast(Append(lines, None))
           /\ Replay(Append(lines, None), row) = Replay(lines, row)
<1> DEFINE new == Append(lines, None)  n == Len(lines)
<1>1. /\ new \in Seq(S) /\ Len(new) = n + 1 /\ new[n + 1] = None /\ n \in Nat
      /\ \A i \in 1 .. n : new[i] = lines[i]
    BY AppendProperties, LenProperties
<1> HIDE DEF new
<1>2. CASE \E i \in 1 .. n : lines[i] # None
    <2>1. PICK i \in 1 .. n : LastAt(lines, i)
        BY <1>2 DEF HasLast
    <2>2. LastAt(new, i)
        <3>1. i \in 1 .. Len(new) /\ new[i] # None
            BY <1>1, <2>1 DEF LastAt
        <3>2. ASSUME NEW j \in (i + 1) .. Len(new) PROVE new[j] = None
            <4>1. j = n + 1 \/ (j \in (i + 1) .. n /\ j \in 1 .. n)
                BY <1>1
            <4> QED BY <1>1, <2>1, <4>1 DEF LastAt
        <3> QED BY <3>1, <3>2 DEF LastAt
    <2>3. i \in 1 .. Len(new)
        BY <1>1
    <2>4. Replay(new, row) = new[i] /\ Replay(lines, row) = lines[i]
        BY <1>1, <2>1, <2>2, ReplayLast
    <2> QED BY <1>1, <2>1, <2>2, <2>3, <2>4 DEF HasLast, new
<1>3. CASE ~\E i \in 1 .. n : lines[i] # None
    <2>1. ~\E i \in 1 .. Len(new) : new[i] # None
        <3>1. \A i \in 1 .. Len(new) : i = n + 1 \/ i \in 1 .. n
            BY <1>1
        <3> QED BY <1>1, <1>3, <3>1
    <2>2. Replay(new, row) = row /\ Replay(lines, row) = row
        BY <1>3, <2>1, ReplayNothing
    <2> QED BY <2>1, <2>2 DEF HasLast, new
<1> QED BY <1>2, <1>3

(* Replaying twice is replaying once: a boot that dies before the rename    *)
(* does no harm.                                                            *)
LEMMA ReplayAgain ==
    ASSUME NEW S, NEW lines \in Seq(S), HasLast(lines), NEW row
    PROVE  Replay(lines, Replay(lines, row)) = Replay(lines, row)
<1>1. CASE \E i \in 1 .. Len(lines) : lines[i] # None
    <2>1. PICK i \in 1 .. Len(lines) : LastAt(lines, i)
        BY <1>1 DEF HasLast
    <2> QED BY <2>1, ReplayLast
<1>2. CASE ~\E i \in 1 .. Len(lines) : lines[i] # None
    BY <1>2, ReplayNothing
<1> QED BY <1>1, <1>2

(* Joining a line to a torn one replaces the torn one. *)
LEMMA JoinLine ==
    ASSUME NEW S, NEW pre \in Seq(S), NEW line \in S, NEW new \in S
    PROVE  LET old == Append(pre, line) IN [old EXCEPT ![Len(old)] = new] = Append(pre, new)
<1> DEFINE old == Append(pre, line)  n == Len(pre)
           joined == [old EXCEPT ![n + 1] = new]
<1>1. /\ old \in Seq(S) /\ Len(old) = n + 1 /\ n \in Nat
      /\ \A i \in 1 .. n : old[i] = pre[i]
    BY AppendProperties, LenProperties
<1>2. n + 1 \in 1 .. (n + 1) /\ \A i \in 1 .. (n + 1) : i = n + 1 \/ i \in 1 .. n
    BY <1>1
<1> HIDE DEF old, n
<1>3. /\ joined \in Seq(S) /\ Len(joined) = n + 1
      /\ \A i \in 1 .. (n + 1) : joined[i] = IF i = n + 1 THEN new ELSE old[i]
    BY <1>1, <1>2, ExceptSeq
<1>4. /\ Append(pre, new) \in Seq(S) /\ Len(Append(pre, new)) = n + 1
      /\ \A i \in 1 .. n : Append(pre, new)[i] = pre[i]
      /\ Append(pre, new)[n + 1] = new
    BY AppendProperties, LenProperties DEF n
<1> HIDE DEF joined
<1>5. joined = Append(pre, new)
    BY <1>1, <1>2, <1>3, <1>4, SeqEqual
<1> QED BY <1>1, <1>5 DEF joined, old

(* An append, of a Service in any phase. *)
LEMMA AppendStep ==
    ASSUME ComposeInv, AppendOk \/ AppendErr, UNCHANGED svc
    PROVE  WalInv' /\ SavedTextSurvives'
<1> DEFINE Line == Texts \cup {None}
<1>0. /\ wal \in Seq(Line) /\ win.text \in Line /\ win.text # None /\ win.text >= win.text
      /\ HasLast(wal) /\ None \in Line /\ torn \in BOOLEAN /\ swallowed \in BOOLEAN
    BY Constants DEF ComposeInv, TypeOK, DraftType, WalInv, Texts
<1>1. CASE AppendOk /\ ~torn
    <2>1. /\ wal' = Append(wal, win.text) /\ ~torn' /\ saved' = win.text /\ auto' = auto
          /\ svc = "rotate" => swallowed'
        BY <1>1 DEF AppendOk
    <2>2. HasLast(wal') /\ Replay(wal', auto') = win.text
        BY <1>0, <2>1, ReplayText
    <2>3. Covers(Replay(wal, auto))'
        BY <1>0, <2>1, <2>2 DEF Covers
    <2> QED BY <2>1, <2>2, <2>3 DEF WalInv, SavedTextSurvives
<1>2. ASSUME torn
      PROVE \E pre \in Seq(Line) :
              /\ HasLast(pre) /\ [wal EXCEPT ![Len(wal)] = None] = Append(pre, None)
              /\ saved # None /\ ~swallowed => Covers(Replay(pre, auto))
    <2>1. PICK pre \in Seq(Line), line \in Line :
            /\ wal = Append(pre, line) /\ HasLast(pre)
            /\ saved # None /\ ~swallowed => Covers(Replay(pre, auto))
        BY <1>2 DEF ComposeInv, WalInv
    <2>2. [wal EXCEPT ![Len(wal)] = None] = Append(pre, None)
        BY <1>0, <2>1, JoinLine
    <2> QED BY <2>1, <2>2
<1>3. CASE AppendOk /\ torn
    <2>1. wal' = [wal EXCEPT ![Len(wal)] = None] /\ ~torn' /\ swallowed'
        BY <1>3 DEF AppendOk
    <2>2. HasLast(wal')
        BY <1>0, <1>2, <1>3, <2>1, ReplayTorn
    <2> QED BY <2>1, <2>2 DEF WalInv, SavedTextSurvives
<1>4. CASE AppendErr /\ UNCHANGED <<wal, torn>>
    BY <1>4 DEF AppendErr, ComposeInv, WalInv, SavedTextSurvives, Covers
<1>5. ASSUME AppendErr, NEW pre \in Seq(Line), NEW line \in {win.text, None},
             wal' = Append(pre, line), HasLast(pre), torn' \in BOOLEAN,
             saved # None /\ ~swallowed => Covers(Replay(pre, auto))
      PROVE  WalInv' /\ SavedTextSurvives'
    <2>1. UNCHANGED <<auto, saved, swallowed>>
        BY <1>5 DEF AppendErr
    <2>2. HasLast(wal') /\ Replay(wal', auto) \in {line, Replay(pre, auto)}
          /\ (line = None => Replay(wal', auto) = Replay(pre, auto))
        BY <1>0, <1>5, ReplayText, ReplayTorn
    <2>3. saved # None => win.text >= saved
        BY DEF ComposeInv, TextInv
    <2>4. saved # None /\ ~swallowed => Covers(Replay(wal', auto))
        BY <1>0, <1>5, <2>2, <2>3 DEF Covers
    <2>5. line \in Line
        BY <1>0, <1>5
    <2>6. saved # None /\ ~swallowed => Covers(Replay(wal, auto))'
        BY <2>1, <2>4 DEF Covers
    <2>7. saved # None /\ ~swallowed => Covers(Replay(pre, auto))'
        BY <1>5, <2>1 DEF Covers
    <2>8. svc = "rotate" /\ saved # None /\ ~swallowed => Covers(auto)'
        BY <2>1 DEF Covers, ComposeInv, WalInv
    <2>9. WalInv'
        <3>1. torn' => \E q \in Seq(Line), l \in Line :
                /\ wal' = Append(q, l) /\ HasLast(q)
                /\ saved' # None /\ ~swallowed' => Covers(Replay(q, auto))'
            BY <1>5, <2>1, <2>5, <2>7
        <3> QED BY <2>1, <2>2, <2>8, <3>1 DEF WalInv
    <2> QED BY <2>1, <2>6, <2>9 DEF SavedTextSurvives
<1>6. CASE AppendErr /\ ~UNCHANGED <<wal, torn>>
    <2>1. PICK line \in {win.text, None}, cut \in BOOLEAN :
            /\ wal' = IF torn THEN [wal EXCEPT ![Len(wal)] = None] ELSE Append(wal, line)
            /\ torn' = cut
        BY <1>6 DEF AppendErr
    <2>2. CASE torn
        <3>1. PICK pre \in Seq(Line) :
                /\ HasLast(pre) /\ [wal EXCEPT ![Len(wal)] = None] = Append(pre, None)
                /\ saved # None /\ ~swallowed => Covers(Replay(pre, auto))
            BY <1>2, <2>2
        <3>2. wal' = Append(pre, None)
            BY <2>1, <2>2, <3>1
        <3> QED BY <1>5, <1>6, <2>1, <3>1, <3>2
    <2>3. CASE ~torn
        <3>1. wal' = Append(wal, line)
            BY <2>1, <2>3
        <3>2. saved # None /\ ~swallowed => Covers(Replay(wal, auto))
            BY DEF ComposeInv, SavedTextSurvives
        <3> QED BY <1>0, <1>5, <1>6, <2>1, <3>1, <3>2
    <2> QED BY <1>0, <2>2, <2>3
<1> QED BY <1>0, <1>1, <1>3, <1>4, <1>6

LEMMA WalStep ==
    ASSUME ComposeInv, [Next]_vars
    PROVE  WalInv' /\ SavedTextSurvives'
<1>0. wal \in Seq(Texts \cup {None}) /\ HasLast(wal)
    BY DEF ComposeInv, TypeOK, DraftType, WalInv
<1>1. CASE UNCHANGED draft /\ (svc' = "rotate" => svc = "rotate")
    BY <1>1 DEF ComposeInv, WalInv, SavedTextSurvives, Covers, draft
<1>2. CASE save_compose_draft
    BY <1>2, AppendStep DEF save_compose_draft
<1>3. CASE handle_window_close
    BY <1>1, <1>3, AppendStep DEF handle_window_close
<1>4. CASE DrainWal
    <2>1. CASE auto' = Replay(wal, auto) /\ UNCHANGED <<wal, torn, saved, swallowed>>
        <3>1. Replay(wal', auto') = Replay(wal, auto)
            BY <1>0, <2>1, ReplayAgain
        <3>2. saved # None /\ ~swallowed => Covers(Replay(wal, auto))
            BY DEF ComposeInv, SavedTextSurvives
        <3>3. saved # None /\ ~swallowed => Covers(Replay(wal, auto))' /\ Covers(auto)'
            BY <2>1, <3>1, <3>2 DEF Covers
        <3>4. ASSUME torn
              PROVE \E pre \in Seq(Texts \cup {None}), line \in Texts \cup {None} :
                      /\ wal = Append(pre, line) /\ HasLast(pre)
                      /\ saved # None /\ ~swallowed => Covers(Replay(pre, auto))'
            <4>1. PICK pre \in Seq(Texts \cup {None}), line \in Texts \cup {None} :
                    /\ wal = Append(pre, line) /\ HasLast(pre)
                    /\ saved # None /\ ~swallowed => Covers(Replay(pre, auto))
                BY <3>4 DEF ComposeInv, WalInv
            <4>2. Replay(pre, auto') \in {Replay(pre, auto), auto'}
                <5>1. CASE \E i \in 1 .. Len(pre) : pre[i] # None
                    <6>1. PICK i \in 1 .. Len(pre) : LastAt(pre, i)
                        BY <4>1, <5>1 DEF HasLast
                    <6>2. Replay(pre, auto') = pre[i] /\ Replay(pre, auto) = pre[i]
                        BY <6>1, ReplayLast
                    <6> QED BY <6>2
                <5>2. CASE ~\E i \in 1 .. Len(pre) : pre[i] # None
                    BY <5>2, ReplayNothing
                <5> QED BY <5>1, <5>2
            <4>3. saved # None /\ ~swallowed => Covers(Replay(pre, auto))'
                BY <2>1, <3>3, <4>1, <4>2 DEF Covers
            <4> QED BY <4>1, <4>3
        <3>5. WalInv'
            BY <1>0, <2>1, <3>3, <3>4 DEF WalInv
        <3> QED BY <2>1, <3>3, <3>5 DEF SavedTextSurvives
    <2>2. CASE swallowed' = TRUE /\ UNCHANGED <<wal, torn, saved>>
        BY <1>0, <2>2 DEF ComposeInv, WalInv, SavedTextSurvives
    <2>3. CASE UNCHANGED draft /\ svc' = "up"
        BY <1>1, <2>3
    <2> QED BY <1>4, <2>1, <2>2, <2>3 DEF DrainWal, ServiceReady, draft
<1>5. CASE RotateWal
    <2>1. svc = "rotate" /\ svc' = "up" /\ UNCHANGED <<auto, saved, swallowed>>
        BY <1>5 DEF RotateWal, ServiceReady
    <2>2. CASE wal' = <<>> /\ ~torn'
        <3>1. ~\E i \in 1 .. Len(wal') : wal'[i] # None
            BY <2>2
        <3>2. HasLast(wal') /\ Replay(wal', auto') = auto'
            BY <3>1, ReplayNothing DEF HasLast
        <3>3. saved # None /\ ~swallowed => Covers(auto)
            BY <2>1 DEF ComposeInv, WalInv
        <3>4. saved # None /\ ~swallowed => Covers(Replay(wal, auto))'
            BY <2>1, <3>2, <3>3 DEF Covers
        <3> QED BY <2>1, <2>2, <3>2, <3>4 DEF WalInv, SavedTextSurvives
    <2>3. CASE UNCHANGED <<wal, torn>>
        BY <1>1, <2>1, <2>3 DEF draft
    <2> QED BY <1>5, <2>2, <2>3 DEF RotateWal
<1>6. CASE ServiceDies \/ AppDies \/ Respawn \/ BootRecovery
    BY <1>1, <1>6 DEF ServiceDies, AppDies, ServiceDown, Respawn, BootRecovery
<1>7. CASE UNCHANGED vars \/ Edit \/ dispatch_send \/ Receive \/ (\E s \in Sends : SendTimesOut(s))
    BY <1>1, <1>7
       DEF Edit, dispatch_send, Receive, handle_action_completed, SendAcked, SendRefused,
           handle_job_status_resolved, SendTimesOut, RequestError, vars
<1>8. CASE Handlers
    BY <1>1, <1>8 DEF Handlers, Handler, HandleSend, verify_and_transfer, insert_quiet_job
<1>9. CASE Worker
    BY <1>1, <1>9
       DEF Worker, Lease, build_send_request, PersistDraft, send_message, SettleDraft,
           finalize_job, WorkerError, CleanVault, EmitCompleted
<1> QED BY <1>2, <1>3, <1>4, <1>5, <1>6, <1>7, <1>8, <1>9 DEF Next, Boot

-----------------------------------------------------------------------------
(* The theorems. *)

LEMMA TextStep ==
    ASSUME ComposeInv, [Next]_vars
    PROVE  TextInv'
<1> USE DEF TextInv
<1>0. /\ win \in [open : BOOLEAN, text : Texts, dirty : BOOLEAN, sending : BOOLEAN]
      /\ saved \in Texts \cup {None} /\ win.text \in Nat /\ (saved # None => saved \in Nat)
      /\ TextInv
    BY Constants DEF ComposeInv, TypeOK, DraftType, Texts
<1>1. CASE win'.text = win.text /\ saved' \in {saved, win.text}
    BY <1>0, <1>1
<1>2. CASE Edit
    <2>1. win'.text = win.text + 1 /\ saved' = saved
        BY <1>0, <1>2 DEF Edit, draft
    <2> QED BY <1>0, <2>1
<1>3. CASE save_compose_draft \/ handle_window_close
    <2>1. saved' \in {saved, win.text}
        BY <1>3 DEF save_compose_draft, handle_window_close, AppendOk, AppendErr, draft
    <2>2. win'.text = win.text
        BY <1>0, <1>3 DEF save_compose_draft, handle_window_close
    <2> QED BY <1>1, <2>1, <2>2
<1>4. CASE ~(Edit \/ save_compose_draft \/ handle_window_close)
    <2>1. saved' = saved
        BY <1>4 DEF Next, Receive, Handlers, Handler, Worker, Boot, dispatch_send,
           handle_action_completed, SendAcked, SendRefused, handle_job_status_resolved,
           SendTimesOut, RequestError, HandleSend, verify_and_transfer, insert_quiet_job, Lease,
           build_send_request, PersistDraft, send_message, SettleDraft, finalize_job, WorkerError,
           CleanVault, EmitCompleted, ServiceDies, AppDies, ServiceDown, Respawn, BootRecovery,
           DrainWal, RotateWal, vars, draft
    <2>2. \/ win' = win
          \/ win' \in {[win EXCEPT !.sending = TRUE], [win EXCEPT !.sending = FALSE],
                       [win EXCEPT !.open = FALSE]}
        BY <1>4 DEF Next, Receive, Handlers, Handler, Worker, Boot, dispatch_send, Complete,
           handle_action_completed, SendAcked, SendRefused, handle_job_status_resolved,
           SendTimesOut, RequestError, HandleSend, verify_and_transfer, insert_quiet_job, Lease,
           build_send_request, PersistDraft, send_message, SettleDraft, finalize_job, WorkerError,
           CleanVault, EmitCompleted, ServiceDies, AppDies, ServiceDown, Respawn, BootRecovery,
           DrainWal, RotateWal, vars, ui
    <2>3. win'.text = win.text
        BY <1>0, <2>2
    <2> QED BY <1>1, <2>1, <2>3
<1> QED BY <1>2, <1>3, <1>4

LEMMA InitCompose ==
    ASSUME Init PROVE ComposeInv
<1> USE DEF Init
<1>1. reqs \in [Sends -> Request] /\ \A s \in Sends : reqs[s] = NoReq
    BY DEF Request, NoReq
<1>2. DraftType
    <2>1. 0 \in Texts /\ wal \in Seq(Texts \cup {None})
        BY Constants, EmptySeq DEF Texts
    <2> QED BY <2>1 DEF DraftType
<1>3. SendType
    BY <1>1, Constants DEF SendType, Idle, WorkerSteps
<1>4. HandlerInv
    BY <1>1 DEF HandlerInv, NoReq
<1>5. WorkerInv
    BY DEF WorkerInv, Idle, Running, Unasked
<1>6. VaultComplete /\ LitterInv
    BY <1>1 DEF VaultComplete, LitterInv, LiveJob, NoReq
<1>7. SubmitInv
    BY <1>1, ComposeAssumption DEF SubmitInv, Unsubmitted, NoReq, Idle
<1>8. SendingInv
    BY ComposeAssumption DEF SendingInv
<1>9. WalInv /\ TextInv /\ SavedTextSurvives
    BY DEF WalInv, HasLast, TextInv, SavedTextSurvives
<1> QED BY <1>2, <1>3, <1>4, <1>5, <1>6, <1>7, <1>8, <1>9 DEF ComposeInv, TypeOK

(* The invariant of the window, its handlers, the worker and the boot,      *)
(* through every interleaving, fault and death: save_compose_draft,         *)
(* action.send, drain_send_jobs and the boot's repairs keep it.             *)
THEOREM ComposeInvariant == Spec => []ComposeInv
<1>1. Init => ComposeInv
    BY InitCompose
<1>2. ComposeInv /\ [Next]_vars => ComposeInv'
    <2> SUFFICES ASSUME ComposeInv, [Next]_vars PROVE ComposeInv'
        OBVIOUS
    <2>1. TypeOK'
        BY DraftTypeStep, SendTypeStep DEF TypeOK
    <2>2. HandlerInv' /\ WorkerInv' /\ VaultComplete' /\ LitterInv'
        BY HandlerStep, WorkerStep, VaultStep, LitterStep
    <2>3. SubmitInv' /\ SendingInv' /\ WalInv' /\ TextInv' /\ SavedTextSurvives'
        BY SubmitStep, SendingStep, WalStep, TextStep
    <2> QED BY <2>1, <2>2, <2>3 DEF ComposeInv
<1> QED BY <1>1, <1>2, PTL DEF Spec

(* A journaled send that may still run has every attachment in the vault,   *)
(* unless two writes failed: verify_and_transfer completes before           *)
(* insert_quiet_job, and no cleanup takes a live job's files.               *)
THEOREM VaultTheorem == Spec => []VaultComplete
<1>1. ComposeInv => VaultComplete
    BY DEF ComposeInv
<1> QED BY <1>1, ComposeInvariant, PTL

(* No send leaves files in the vault of a Service that is up: refused,      *)
(* timed out and interrupted ones are cleaned up by the handler, the worker *)
(* or the boot.                                                             *)
THEOREM LitterTheorem == Spec => []NoVaultLitter
<1>1. ComposeInv => NoVaultLitter
    BY DEF ComposeInv, LitterInv, NoVaultLitter
<1> QED BY <1>1, ComposeInvariant, PTL

(* A send the journal calls completed was accepted by the provider, and     *)
(* only a death of the Service makes the worker submit one again.           *)
THEOREM SubmittedTheorem == Spec => []SubmittedAsJournaled
<1>1. ComposeInv => SubmittedAsJournaled
    BY DEF ComposeInv, SubmitInv, SubmittedAsJournaled
<1> QED BY <1>1, ComposeInvariant, PTL

(* Without failing writes, a draft row that says 'sending' is in the        *)
(* worker's hands whenever the Service is up.                               *)
THEOREM SendingTheorem == Spec => []SendingHasWorker
<1>1. ComposeInv => SendingHasWorker
    BY DEF ComposeInv, SendingInv, SendingHasWorker
<1> QED BY <1>1, ComposeInvariant, PTL

(* draft_wal::drain restores the last saved text, or a later one, however   *)
(* appends, torn writes, deaths, boots and failing renames interleave,      *)
(* unless its line was swallowed: joined to a torn one, renamed away        *)
(* unread, or skipped by a drain that failed to read or save a line.        *)
THEOREM SavedTheorem == Spec => []SavedTextSurvives
<1>1. ComposeInv => SavedTextSurvives
    BY DEF ComposeInv
<1> QED BY <1>1, ComposeInvariant, PTL
=============================================================================
