----------------------- MODULE ActionJournalContract -----------------------
(***************************************************************************)
(* The journal and its worker implement ActionContract: the columns of the *)
(* two tables are the promise, the frames of the incarnation what is told. *)
(***************************************************************************)
EXTENDS ActionJournal

Done == {b \in Blobs : StatusOf(b) = "done"}
QuietPlans == {p \in Plans : KindOf[p] = "mark_chat_read"}

(* action_jobs.status as the caller of the API understands it. *)
PromiseOf(status) ==
  IF status = "absent" THEN "none"
  ELSE IF status \in JobActive THEN "accepted"
  ELSE IF status = "deleted" THEN "withdrawn"
  ELSE status

Contract == INSTANCE ActionContract
  WITH Good <- Done, Quiet <- QuietPlans, results <- outcome, told <- emitted,
       promise <- [p \in Plans |-> PromiseOf(jobs[p])]

(* The worker keeps the contract of the action API through deaths and      *)
(* failing writes: results and verdicts are final and agree with each      *)
(* other, and no frame says what the journal does not hold (run_one        *)
(* persists before it emits, maybe_finalize counts before it finalizes).   *)
ImplementsContract == Contract!Spec

(* What the step simulation needs beside JournalInv: a status agrees with  *)
(* its outcome, and the worker holds what it is about to say.              *)
StatusInv == \A o \in Op : outcome[o] # "null" => opStatus[o] = StatusOf(outcome[o])
SayInv ==
  /\ pc = "emit" => result = outcome[cur] \/ jobs[cur[1]] = "deleted"
  /\ pc \in {"complete", "quiet_complete"} => jobs[target] \in JobTerminal \cup {"deleted"}
  /\ pc \in QuietRunning \ {"quiet_complete"} => Unfinished(target)
ContractInv == StatusInv /\ SayInv
=============================================================================
