--------------------------- MODULE ActionContract ---------------------------
(***************************************************************************)
(* What the Service promises for a journaled plan, without a worker, leases *)
(* or program counters.  An accepted plan gets one final result per         *)
(* operation, then one verdict that follows from the results; deleting its  *)
(* account withdraws it.  The UI is told only what is stored: an outcome    *)
(* frame carries the result the journal holds, a completion frame names a   *)
(* plan with a verdict.  `told' is what the running Service has said; a     *)
(* restart forgets it, and what was stored may be said again.               *)
(***************************************************************************)
EXTENDS Naturals

CONSTANTS
  Plans, Accounts, AccountOf,
  Op,       \* operations, pairs <<plan, ordinal>>
  Blobs,    \* results of an operation
  Good,     \* the results that count as done
  Quiet     \* plans without operations: the verdict says nothing of the remote

VARIABLES
  accounts,  \* accounts that exist
  promise,   \* per plan: "none", "accepted", a verdict, or "withdrawn"
  results,   \* per operation: "null" or its one result
  told       \* frames said by the running Service

vars == <<accounts, promise, results, told>>

Verdicts == {"completed", "partial", "failed"}
OpsIn(p) == {o \in Op : o[1] = p}

Init ==
  /\ accounts = Accounts
  /\ promise = [p \in Plans |-> "none"]
  /\ results = [o \in Op |-> "null"]
  /\ told = {}

Accept(p) ==
  /\ promise[p] = "none" /\ AccountOf[p] \in accounts
  /\ promise' = [promise EXCEPT ![p] = "accepted"]
  /\ UNCHANGED <<accounts, results, told>>

(* A result is stored once, while its plan is open. *)
Settle(o, b) ==
  /\ promise[o[1]] = "accepted" /\ results[o] = "null"
  /\ results' = [results EXCEPT ![o] = b]
  /\ UNCHANGED <<accounts, promise, told>>

Verdict(p) ==
  IF p \in Quiet THEN {"completed", "failed"}
  ELSE IF \A o \in OpsIn(p) : results[o] \in Good THEN {"completed"}
  ELSE IF \A o \in OpsIn(p) : results[o] \notin Good THEN {"failed"}
  ELSE {"partial"}

(* The verdict comes when every operation has its result. *)
Conclude(p) ==
  /\ promise[p] = "accepted"
  /\ \A o \in OpsIn(p) : results[o] # "null"
  /\ \E v \in Verdict(p) : promise' = [promise EXCEPT ![p] = v]
  /\ UNCHANGED <<accounts, results, told>>

Withdraw(a) ==
  /\ a \in accounts
  /\ accounts' = accounts \ {a}
  /\ promise' = [p \in Plans |-> IF AccountOf[p] = a /\ promise[p] # "none"
                                   THEN "withdrawn" ELSE promise[p]]
  /\ results' = [o \in Op |-> IF AccountOf[o[1]] = a THEN "null" ELSE results[o]]
  /\ UNCHANGED told

(* The outcome of a withdrawn plan may still be said: its operation ran. *)
SayOutcome(o, b) ==
  /\ results[o] = b \/ promise[o[1]] = "withdrawn"
  /\ told' = told \cup {[type |-> "outcome", op |-> o, blob |-> b]}
  /\ UNCHANGED <<accounts, promise, results>>

SayCompleted(p) ==
  /\ promise[p] \in Verdicts \cup {"withdrawn"}
  /\ told' = told \cup {[type |-> "completed", plan |-> p]}
  /\ UNCHANGED <<accounts, promise, results>>

Restart == told' = {} /\ UNCHANGED <<accounts, promise, results>>

Next ==
  \/ \E p \in Plans : Accept(p) \/ Conclude(p) \/ SayCompleted(p)
  \/ \E o \in Op, b \in Blobs : Settle(o, b) \/ SayOutcome(o, b)
  \/ \E a \in Accounts : Withdraw(a)
  \/ Restart

Spec == Init /\ [][Next]_vars
=============================================================================
