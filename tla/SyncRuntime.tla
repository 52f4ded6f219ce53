----------------------------- MODULE SyncRuntime -----------------------------
(***************************************************************************)
(* Sync runs of one account, end to end.  In the Service: the map of       *)
(* supervised runners (start_account, cancel_account), the run's marker    *)
(* file, and the account.delete handler that quiesces the runner.  In the  *)
(* UI: callers of start_sync and cancel_and_await, which learn a run id    *)
(* from the answer and then wait in a slot for the run's one completion,   *)
(* latched if it comes first.  CalendarRuntime and its slots have the same *)
(* shape.                                                                  *)
(*                                                                         *)
(* Every write of the marker file may fail, and only logs that it did.  A  *)
(* resolved future is polled within LATCHED_COMPLETED_TTL.                 *)
(***************************************************************************)
EXTENDS Naturals, Sequences, FiniteSets

CONSTANTS
  Callers,     \* UI futures, one request each
  MayDelete,   \* the account may be deleted
  MaxCrashes   \* bound on Service deaths

ASSUME RuntimeAssumption ==
  /\ IsFiniteSet(Callers) /\ MayDelete \in BOOLEAN /\ MaxCrashes \in Nat

Runs == 1..Cardinality(Callers)
NoRun == 0

VARIABLES
  deleting,   \* accounts.is_deleting
  row,        \* the account's row exists
  marker,     \* status in the account's sync marker file, or "none"
  entry,      \* the run in the accounts map, or NoRun
  taken,      \* the entry's supervisor handle was taken
  runner,     \* the life of each run
  minted,     \* run ids handed out
  deletion,   \* where account.delete is
  joining,    \* the run whose supervisor it awaits
  request,    \* where the Service's handler of each caller's request is
  caller,     \* where each caller's future is
  rid,        \* the run id it was answered
  slot,       \* pending_syncs
  aged,       \* latched runs past their TTL
  wire,       \* answers and completions the reader has not read
  crashes,
  stale,      \* callers answered before a death that had not subscribed
  unmarked    \* runs spawned after their marker's write failed

account == <<deleting, row, marker>>
runtime == <<entry, taken, runner, minted>>
handler == <<deletion, joining>>
waiters == <<caller, rid, slot, aged>>
history == <<crashes, stale, unmarked>>
vars == <<account, runtime, handler, request, waiters, wire, history>>

RunnerStates == {"none", "running", "marked", "panicked", "emitted", "finished", "gone"}
Alive == {"running", "marked", "panicked"}
RequestStates == {"none", "start", "cleared", "cancel"}
CallerStates == {"idle", "waiting", "acked", "parked", "returned", "failed"}

Answer(c, r) == [type |-> "answer", to |-> c, run |-> r]
Completed(r) == [type |-> "completed", run |-> r]

Init ==
  /\ deleting = FALSE /\ row = TRUE /\ marker = "none"
  /\ entry = NoRun /\ taken = FALSE /\ minted = 0
  /\ runner = [r \in Runs |-> "none"]
  /\ deletion = "idle" /\ joining = NoRun
  /\ request = [c \in Callers |-> "none"]
  /\ caller = [c \in Callers |-> "idle"]
  /\ rid = [c \in Callers |-> NoRun]
  /\ slot = [r \in Runs |-> "vacant"]
  /\ aged = {} /\ wire = <<>> /\ crashes = 0 /\ stale = {} /\ unmarked = {}

---------------------------------------------------------------------------
(* Service: start and cancel.                                              *)

Reply(c, r) ==
  /\ request' = [request EXCEPT ![c] = "none"]
  /\ wire' = Append(wire, Answer(c, r))

(* start_account reads is_deleting, before it locks the map.  A start      *)
(* against an account being deleted is answered with a fresh id; a read    *)
(* that fails is taken for FALSE.                                           *)
CheckDeleting(c) ==
  /\ request[c] = "start"
  /\ \/ (deleting \/ ~row) /\ minted' = minted + 1 /\ Reply(c, minted + 1)
     \/ request' = [request EXCEPT ![c] = "cleared"] /\ UNCHANGED <<minted, wire>>
  /\ UNCHANGED <<account, entry, taken, runner, handler, waiters, history>>

(* Mutant: a run that has completed counts as finished. *)
Finished_OnceEmitted == taken \/ runner[entry] \in {"panicked", "emitted", "finished"}

(* The entry's supervisor has ended, or its handle is gone. *)
Finished == taken \/ runner[entry] = "finished"

InFlight == entry # NoRun /\ ~Finished

(* start_account under the lock: answer with the run in flight, or write   *)
(* the in-progress marker and spawn.  A write that fails, before or after  *)
(* its rename, does not stop the run.                                       *)
Start(c) ==
  /\ request[c] = "cleared"
  /\ IF InFlight
       THEN Reply(c, entry) /\ UNCHANGED <<marker, runtime, unmarked>>
       ELSE /\ minted' = minted + 1
            /\ entry' = minted + 1 /\ taken' = FALSE
            /\ \/ marker' = "in_progress" /\ UNCHANGED unmarked
               \/ marker' \in {marker, "in_progress"} /\ unmarked' = unmarked \cup {minted + 1}
            /\ runner' = [runner EXCEPT ![minted + 1] = "running"]
            /\ Reply(c, minted + 1)
  /\ UNCHANGED <<deleting, row, handler, waiters, crashes, stale>>

(* cancel_account: the id of the run in flight, or none. *)
Cancel(c) ==
  /\ request[c] = "cancel"
  /\ Reply(c, IF InFlight THEN entry ELSE NoRun)
  /\ entry' = IF InFlight THEN entry ELSE NoRun
  /\ UNCHANGED <<account, taken, runner, minted, handler, waiters, history>>

---------------------------------------------------------------------------
(* Service: a run.                                                         *)

(* update_marker_status unlinks the marker or rewrites its status; it may fail. *)
UpdateMarker(statuses) == marker' \in statuses \cup {marker}

(* run_sync ends. *)
Mark(r) ==
  /\ runner[r] = "running"
  /\ runner' = [runner EXCEPT ![r] = "marked"]
  /\ UpdateMarker({"none", "failed", "cancelled"})
  /\ UNCHANGED <<deleting, row, entry, taken, minted, handler, request, waiters, wire, history>>

Emit(r) ==
  /\ runner[r] = "marked"
  /\ runner' = [runner EXCEPT ![r] = "emitted"]
  /\ wire' = Append(wire, Completed(r))
  /\ UNCHANGED <<account, entry, taken, minted, handler, request, waiters, history>>

Exit(r) ==
  /\ runner[r] = "emitted"
  /\ runner' = [runner EXCEPT ![r] = "finished"]
  /\ UNCHANGED <<account, entry, taken, minted, handler, request, waiters, wire, history>>

(* The runner panics: its supervisor completes the run, then marks it. *)
Panic(r) ==
  /\ runner[r] = "running"
  /\ runner' = [runner EXCEPT ![r] = "panicked"]
  /\ wire' = Append(wire, Completed(r))
  /\ UNCHANGED <<account, entry, taken, minted, handler, request, waiters, history>>

MarkPanicked(r) ==
  /\ runner[r] = "panicked"
  /\ runner' = [runner EXCEPT ![r] = "finished"]
  /\ UpdateMarker({"failed"})
  /\ UNCHANGED <<deleting, row, entry, taken, minted, handler, request, waiters, wire, history>>

---------------------------------------------------------------------------
(* Service: account.delete.                                                *)

SetDeleting ==
  /\ MayDelete /\ row /\ deletion = "idle"
  /\ deleting' = TRUE /\ deletion' = "flagged"
  /\ UNCHANGED <<row, marker, runtime, joining, request, waiters, wire, history>>

(* cancel_account_and_await takes the supervisor, if there is one ... *)
TakeSupervisor ==
  /\ deletion = "flagged"
  /\ deletion' = "joining"
  /\ joining' = IF taken THEN NoRun ELSE entry
  /\ taken' = (entry # NoRun)
  /\ UNCHANGED <<account, entry, runner, minted, request, waiters, wire, history>>

(* ... awaits it, and removes the entry. *)
Quiesce ==
  /\ deletion = "joining"
  /\ joining # NoRun => runner[joining] = "finished"
  /\ deletion' = "quiesced"
  /\ entry' = NoRun /\ taken' = FALSE
  /\ UNCHANGED <<account, runner, minted, joining, request, waiters, wire, history>>

(* The cascade, last step of delete_with_marker. *)
DeleteRow ==
  /\ deletion = "quiesced"
  /\ deletion' = "done" /\ row' = FALSE
  /\ UNCHANGED <<deleting, marker, runtime, joining, request, waiters, wire, history>>

---------------------------------------------------------------------------
(* UI.                                                                     *)

Request(c) ==
  /\ caller[c] = "idle"
  /\ caller' = [caller EXCEPT ![c] = "waiting"]
  /\ \E m \in {"start", "cancel"} : request' = [request EXCEPT ![c] = m]
  /\ UNCHANGED <<account, runtime, handler, rid, slot, aged, wire, history>>

(* The 5 s timeout of a request; the handler goes on. *)
Timeout(c) ==
  /\ caller[c] = "waiting"
  /\ caller' = [caller EXCEPT ![c] = "failed"]
  /\ UNCHANGED <<account, runtime, handler, request, rid, slot, aged, wire, history>>

(* The reader resolves the request's future, which has yet to be polled,   *)
(* or drops a late answer.                                                  *)
ReadAnswer ==
  /\ wire # <<>> /\ Head(wire).type = "answer"
  /\ wire' = Tail(wire)
  /\ LET c == Head(wire).to
     IN IF caller[c] = "waiting"
          THEN /\ caller' = [caller EXCEPT ![c] = "acked"]
               /\ rid' = [rid EXCEPT ![c] = Head(wire).run]
          ELSE UNCHANGED <<caller, rid>>
  /\ UNCHANGED <<account, runtime, handler, request, slot, aged, history>>

(* sweep_latched_completed drops entries past their TTL. *)
Swept == [r \in Runs |-> IF r \in aged THEN "vacant" ELSE slot[r]]

Subscribers(r) == {c \in Callers : caller[c] = "parked" /\ rid[c] = r}

(* Mutant: a completion nobody awaits yet is dropped. *)
RouteSyncCompleted_NoLatch(r) ==
  /\ slot' = [Swept EXCEPT ![r] = "vacant"]
  /\ caller' = [c \in Callers |-> IF c \in Subscribers(r) THEN "returned" ELSE caller[c]]

(* route_sync_completed: wake the subscribers and remove the slot, or      *)
(* latch the result; a duplicate is dropped.                                *)
RouteSyncCompleted(r) ==
  CASE Swept[r] = "pending" ->
         /\ caller' = [c \in Callers |-> IF c \in Subscribers(r) THEN "returned" ELSE caller[c]]
         /\ slot' = [Swept EXCEPT ![r] = "vacant"]
    [] Swept[r] = "vacant" -> slot' = [Swept EXCEPT ![r] = "completed"] /\ UNCHANGED caller
    [] Swept[r] = "completed" -> slot' = Swept /\ UNCHANGED caller

ReadCompleted ==
  /\ wire # <<>> /\ Head(wire).type = "completed"
  /\ RouteSyncCompleted(Head(wire).run)
  /\ wire' = Tail(wire) /\ aged' = {}
  /\ UNCHANGED <<account, runtime, handler, request, rid, history>>

(* Mutant: whatever the slot holds ends the wait. *)
SubscribeOrConsume_AnySlot(c) ==
  /\ caller' = [caller EXCEPT ![c] = IF Swept[rid[c]] = "vacant" THEN "parked" ELSE "returned"]
  /\ slot' = [Swept EXCEPT ![rid[c]] = IF @ = "vacant" THEN "pending" ELSE @]

(* Mutant: a latched result is not looked for. *)
SubscribeOrConsume_Parks(c) ==
  /\ caller' = [caller EXCEPT ![c] = "parked"]
  /\ slot' = [Swept EXCEPT ![rid[c]] = "pending"]

(* subscribe_or_consume: consume a latched result, or park in the slot. *)
SubscribeOrConsume(c) ==
  IF Swept[rid[c]] = "completed"
    THEN /\ caller' = [caller EXCEPT ![c] = "returned"]
         /\ slot' = [Swept EXCEPT ![rid[c]] = "vacant"]
    ELSE /\ caller' = [caller EXCEPT ![c] = "parked"]
         /\ slot' = [Swept EXCEPT ![rid[c]] = "pending"]

(* The future of start_sync or cancel_and_await goes on with the answer. *)
Subscribe(c) ==
  /\ caller[c] = "acked"
  /\ IF rid[c] = NoRun
       THEN caller' = [caller EXCEPT ![c] = "returned"] /\ UNCHANGED <<slot, aged>>
       ELSE SubscribeOrConsume(c) /\ aged' = {}
  /\ UNCHANGED <<account, runtime, handler, request, rid, wire, history>>

(* A latched completion grows older than LATCHED_COMPLETED_TTL, 30 s.  The *)
(* run's supervisor has ended by then, and who was still to be answered    *)
(* with its id has been, or has timed out.                                  *)
Age(r) ==
  /\ slot[r] = "completed" /\ r \notin aged /\ runner[r] = "finished"
  /\ \A c \in Callers : caller[c] = "acked" => rid[c] # r
  /\ \A i \in DOMAIN wire : wire[i].type = "answer" /\ wire[i].run = r =>
       caller[wire[i].to] # "waiting"
  /\ aged' = aged \cup {r}
  /\ UNCHANGED <<account, runtime, handler, request, caller, rid, slot, wire, history>>

(* The next boot repairs an account whose marker it can read and unlinks   *)
(* the marker, which may fail, before it installs the runtime.              *)
InvariantPass == marker' \in {"none", marker}

(* The Service dies and boots again; handle_crash fails the requests and   *)
(* clears the slots, which closes the channel of every parked caller.      *)
Crash ==
  /\ crashes < MaxCrashes
  /\ crashes' = crashes + 1
  /\ stale' = stale \cup {c \in Callers : caller[c] = "acked"}
  /\ caller' = [c \in Callers |-> IF caller[c] \in {"waiting", "parked"}
                                    THEN "failed" ELSE caller[c]]
  /\ request' = [c \in Callers |-> "none"]
  /\ slot' = [r \in Runs |-> "vacant"]
  /\ aged' = {} /\ wire' = <<>>
  /\ entry' = NoRun /\ taken' = FALSE
  /\ runner' = [r \in Runs |-> IF runner[r] \in Alive \cup {"emitted"} THEN "gone" ELSE runner[r]]
  /\ deletion' = IF deletion = "done" THEN "done" ELSE "idle"
  /\ joining' = NoRun
  /\ InvariantPass
  /\ UNCHANGED <<deleting, row, minted, rid, unmarked>>

---------------------------------------------------------------------------
Handle(c) == CheckDeleting(c) \/ Start(c) \/ Cancel(c)
Run(r) == Mark(r) \/ Emit(r) \/ Exit(r) \/ Panic(r) \/ MarkPanicked(r)
Delete == SetDeleting \/ TakeSupervisor \/ Quiesce \/ DeleteRow
Read == ReadAnswer \/ ReadCompleted

Next ==
  \/ \E c \in Callers : Request(c) \/ Timeout(c) \/ Handle(c) \/ Subscribe(c)
  \/ \E r \in Runs : Run(r) \/ Age(r)
  \/ Delete \/ Read \/ Crash

(* Handlers, runs, the reader and resolved futures are polled again. *)
Fairness ==
  /\ WF_vars(Read)
  /\ \A c \in Callers : WF_vars(Handle(c)) /\ WF_vars(Subscribe(c))
  /\ \A r \in Runs : WF_vars(Run(r))

Spec == Init /\ [][Next]_vars /\ Fairness

---------------------------------------------------------------------------
(* Properties.                                                             *)

TypeOK ==
  /\ deleting \in BOOLEAN /\ row \in BOOLEAN /\ taken \in BOOLEAN
  /\ marker \in {"none", "in_progress", "failed", "cancelled"}
  /\ entry \in Runs \cup {NoRun} /\ joining \in Runs \cup {NoRun}
  /\ runner \in [Runs -> RunnerStates] /\ minted \in 0..Cardinality(Callers)
  /\ deletion \in {"idle", "flagged", "joining", "quiesced", "done"}
  /\ request \in [Callers -> RequestStates] /\ caller \in [Callers -> CallerStates]
  /\ rid \in [Callers -> Runs \cup {NoRun}]
  /\ slot \in [Runs -> {"vacant", "pending", "completed"}] /\ aged \subseteq Runs
  /\ crashes \in 0..MaxCrashes /\ stale \subseteq Callers
  /\ unmarked \subseteq Runs

(* A death in the middle of a run leaves an in-progress marker for the     *)
(* next boot: no late marker update of an earlier run and no repair comes  *)
(* in between, because a run starts only after the last one's supervisor   *)
(* has ended.  Not promised: a run spawned after its own marker's write    *)
(* failed.                                                                 *)
MarkerCoversRun ==
  ~deleting => \A r \in Runs \ unmarked : runner[r] = "running" => marker = "in_progress"

(* A caller that waited for a run returns only after the run's completion, *)
(* so cancel_and_await lets no writer of the cancelled run go on.          *)
ReturnsAfterRun ==
  \A c \in Callers : caller[c] = "returned" /\ rid[c] # NoRun =>
    runner[rid[c]] \in {"panicked", "emitted", "finished", "gone"}

(* A caller that is alone with its run id. *)
Alone(c) == \A d \in Callers \ {c} : rid[d] # rid[c]

(* The completion of a run is still to be sent or to be read. *)
ToCome(r) ==
  runner[r] \in {"running", "marked"} \/ \E i \in DOMAIN wire : wire[i] = Completed(r)

(* Whoever subscribes to the run now is woken or finds its result. *)
Ready(r) == (slot[r] = "vacant" /\ ToCome(r)) \/ (slot[r] = "completed" /\ r \notin aged)

(* The one completion of a run is never lost to the caller that waits for  *)
(* it: until the caller subscribes it is to come or latched, and while it  *)
(* is parked it is to come and its slot will wake it.  Not promised: a     *)
(* caller answered before a death that subscribes after it, and one        *)
(* answered with an id that has no runner.                                 *)
WakeupOwed ==
  \A c \in Callers \ stale : Alone(c) /\ rid[c] # NoRun /\ runner[rid[c]] # "none" =>
    /\ caller[c] = "acked" => Ready(rid[c])
    /\ caller[c] = "parked" => slot[rid[c]] = "pending" /\ ToCome(rid[c])

(* A caller that is alone with its run id returns: the completion wakes it *)
(* or was latched for it, in whichever order answer, completion and        *)
(* subscription come, before and after a death (WakeupOwed's exceptions).  *)
SoleCallerReturns ==
  \A c \in Callers : caller[c] = "waiting" ~>
    \/ caller[c] \in {"returned", "failed"} \/ c \in stale
    \/ rid[c] # NoRun /\ (~Alone(c) \/ runner[rid[c]] = "none")
=============================================================================
