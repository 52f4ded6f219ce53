-------------------------- MODULE NotificationQueue --------------------------
(***************************************************************************)
(* The UI's bounded notification queue: reader tasks enqueue by class, one *)
(* subscription receives.  A second producer is the reader of the next     *)
(* incarnation, alive while the dying one still flushes.                   *)
(*                                                                         *)
(* The mutex makes each critical section one step.  A Notified future is   *)
(* created before the section and awaited after it: notify_waiters reaches *)
(* it from its creation on, notify_one leaves a permit if nobody waits.    *)
(***************************************************************************)
EXTENDS Naturals, Sequences, FiniteSets

CONSTANTS
  Producers,   \* reader tasks
  Capacity,    \* NOTIFICATION_QUEUE capacity
  Keys,        \* coalesce keys
  Classes,     \* classes of the notifications the producers read
  MaxItems     \* bound on notifications

ASSUME QueueAssumption ==
  /\ Capacity \in Nat \ {0} /\ MaxItems \in Nat
  /\ Classes \subseteq {"coalesce", "drop", "must"}
  /\ IsFiniteSet(Producers) /\ IsFiniteSet(Keys)

VARIABLES
  items,      \* the deque
  closed,
  permit,     \* the permit of item_available
  producer,   \* where each producer is
  pending,    \* the MustDeliver item it holds, if any
  notified,   \* its space_available future was notified
  consumer,   \* where recv is
  awoken,     \* its item_available future was notified by notify_waiters
  count,      \* notifications so far (ids are unique)
  accepted,   \* MustDeliver entries in the order they entered the deque
  evicted,    \* entries that made room for a Drop one
  received    \* everything recv returned

producers == <<producer, pending, notified>>
receiver == <<consumer, awoken>>
history == <<accepted, evicted, received>>
vars == <<items, closed, permit, producers, receiver, count, history>>

ProducerStates == {"idle", "arm", "check", "wait", "exited"}
ConsumerStates == {"arm", "check", "wait", "none"}
NoItem == [class |-> "none"]

Must(n) == [class |-> "must", id |-> n]
Droppable(n) == [class |-> "drop", id |-> n]
Coalescing(k, n) == [class |-> "coalesce", key |-> k, id |-> n]

Init ==
  /\ items = <<>> /\ closed = FALSE /\ permit = FALSE
  /\ producer = [r \in Producers |-> "idle"]
  /\ pending = [r \in Producers |-> NoItem]
  /\ notified = [r \in Producers |-> FALSE]
  /\ consumer = "arm" /\ awoken = FALSE
  /\ count = 0 /\ accepted = <<>> /\ evicted = {} /\ received = <<>>

Full == Len(items) >= Capacity

(* notify_one on item_available, with a single consumer. *)
NotifyOne == permit' = TRUE

(* notify_waiters on space_available: every future created so far. *)
NotifySpace ==
  notified' = [r \in Producers |-> notified[r] \/ producer[r] \in {"check", "wait"}]

Fresh == count < MaxItems /\ count' = count + 1

(* Mutant: a newer value is queued beside the older one. *)
EnqueueCoalesce_Duplicates(r, k) ==
  /\ producer[r] = "idle" /\ "coalesce" \in Classes /\ Fresh
  /\ IF closed \/ Full THEN UNCHANGED <<items, permit>>
     ELSE items' = Append(items, Coalescing(k, count + 1)) /\ NotifyOne
  /\ UNCHANGED <<closed, producers, receiver, history>>

(* enqueue_coalesce: replace in place, else append, else drop the new one. *)
EnqueueCoalesce(r, k) ==
  /\ producer[r] = "idle" /\ "coalesce" \in Classes /\ Fresh
  /\ LET new == Coalescing(k, count + 1)
         same == {i \in DOMAIN items : items[i].class = "coalesce" /\ items[i].key = k}
     IN CASE closed -> UNCHANGED <<items, permit>>
          [] ~closed /\ same # {} ->
               /\ items' = [items EXCEPT ![CHOOSE i \in same : \A j \in same : i <= j] = new]
               /\ NotifyOne
          [] ~closed /\ same = {} /\ Full -> UNCHANGED <<items, permit>>
          [] ~closed /\ same = {} /\ ~Full -> items' = Append(items, new) /\ NotifyOne
  /\ UNCHANGED <<closed, producers, receiver, history>>

(* Mutant: the receiver is not told. *)
EnqueueDrop_Silent(r) ==
  /\ producer[r] = "idle" /\ "drop" \in Classes /\ Fresh
  /\ items' = IF closed THEN items
               ELSE Append(IF Full THEN Tail(items) ELSE items, Droppable(count + 1))
  /\ evicted' = IF ~closed /\ Full THEN evicted \cup {Head(items)} ELSE evicted
  /\ UNCHANGED <<closed, permit, producers, receiver, accepted, received>>

(* enqueue_drop: the front makes room, whatever its class. *)
EnqueueDrop(r) ==
  /\ producer[r] = "idle" /\ "drop" \in Classes /\ Fresh
  /\ IF closed THEN UNCHANGED <<items, permit, evicted>>
     ELSE /\ items' = Append(IF Full THEN Tail(items) ELSE items, Droppable(count + 1))
          /\ evicted' = IF Full THEN evicted \cup {Head(items)} ELSE evicted
          /\ NotifyOne
  /\ UNCHANGED <<closed, producers, receiver, accepted, received>>

(* enqueue_must_deliver is called. *)
ReadMust(r) ==
  /\ producer[r] = "idle" /\ "must" \in Classes /\ Fresh
  /\ pending' = [pending EXCEPT ![r] = Must(count + 1)]
  /\ producer' = [producer EXCEPT ![r] = "arm"]
  /\ UNCHANGED <<items, closed, permit, notified, receiver, history>>

(* It creates its Notified future. *)
Arm(r) ==
  /\ producer[r] = "arm"
  /\ producer' = [producer EXCEPT ![r] = "check"]
  /\ notified' = [notified EXCEPT ![r] = FALSE]
  /\ UNCHANGED <<items, closed, permit, pending, receiver, count, history>>

Leave(r) ==
  /\ producer' = [producer EXCEPT ![r] = "idle"]
  /\ pending' = [pending EXCEPT ![r] = NoItem]

(* Mutant: a full queue loses the notification. *)
EnqueueMustDeliver_DropsWhenFull(r) ==
  /\ producer[r] = "check"
  /\ Leave(r)
  /\ accepted' = Append(accepted, pending[r])
  /\ IF closed \/ Full THEN UNCHANGED <<items, permit>>
     ELSE items' = Append(items, pending[r]) /\ NotifyOne
  /\ UNCHANGED <<closed, notified, receiver, count, evicted, received>>

(* enqueue_must_deliver: append, or await space. *)
EnqueueMustDeliver(r) ==
  /\ producer[r] = "check"
  /\ CASE closed -> Leave(r) /\ UNCHANGED <<items, permit, accepted>>
       [] ~closed /\ ~Full ->
            /\ items' = Append(items, pending[r])
            /\ accepted' = Append(accepted, pending[r])
            /\ NotifyOne /\ Leave(r)
       [] ~closed /\ Full ->
            /\ producer' = [producer EXCEPT ![r] = "wait"]
            /\ UNCHANGED <<items, permit, pending, accepted>>
  /\ UNCHANGED <<closed, notified, receiver, count, evicted, received>>

(* waiter.await returns. *)
SpaceAvailable(r) ==
  /\ producer[r] = "wait" /\ notified[r]
  /\ producer' = [producer EXCEPT ![r] = "arm"]
  /\ UNCHANGED <<items, closed, permit, pending, notified, receiver, count, history>>

(* handle_crash aborts a reader, at an await. *)
Abort(r) ==
  /\ producer[r] \in {"idle", "wait"}
  /\ producer' = [producer EXCEPT ![r] = "exited"]
  /\ pending' = [pending EXCEPT ![r] = NoItem]
  /\ UNCHANGED <<items, closed, permit, notified, receiver, count, history>>

(* recv creates its Notified future. *)
RecvArm ==
  /\ consumer = "arm"
  /\ consumer' = "check" /\ awoken' = FALSE
  /\ UNCHANGED <<items, closed, permit, producers, count, history>>

(* recv: return the front and tell the producers, end, or await an item. *)
Recv ==
  /\ consumer = "check"
  /\ CASE items # <<>> ->
            /\ received' = Append(received, Head(items))
            /\ items' = Tail(items)
            /\ NotifySpace
            /\ consumer' = "arm"
       [] items = <<>> /\ closed -> consumer' = "none" /\ UNCHANGED <<items, notified, received>>
       [] items = <<>> /\ ~closed -> consumer' = "wait" /\ UNCHANGED <<items, notified, received>>
  /\ UNCHANGED <<closed, permit, producer, pending, awoken, count, accepted, evicted>>

(* waiter.await returns: a permit is consumed, or close notified it. *)
ItemAvailable ==
  /\ consumer = "wait"
  /\ \/ awoken /\ UNCHANGED permit
     \/ ~awoken /\ permit /\ permit' = FALSE
  /\ consumer' = "arm"
  /\ UNCHANGED <<items, closed, producers, awoken, count, history>>

(* Mutant: nobody is told of the end. *)
Close_Silent ==
  /\ ~closed
  /\ closed' = TRUE
  /\ UNCHANGED <<items, permit, producers, receiver, count, history>>

(* close: both Notifys wake whoever has created its future. *)
Close ==
  /\ ~closed
  /\ closed' = TRUE /\ NotifySpace
  /\ awoken' = (awoken \/ consumer \in {"check", "wait"})
  /\ UNCHANGED <<items, permit, producer, pending, consumer, count, history>>

Enqueue(r) ==
  \/ ReadMust(r) \/ EnqueueDrop(r)
  \/ \E k \in Keys : EnqueueCoalesce(r, k)

Proceed(r) == Arm(r) \/ EnqueueMustDeliver(r) \/ SpaceAvailable(r)
Receive == RecvArm \/ Recv \/ ItemAvailable

(* The receiver waits on an empty queue for ever if nothing is read. *)
Next ==
  \/ \E r \in Producers : Enqueue(r) \/ Proceed(r) \/ Abort(r)
  \/ Receive \/ Close

(* Both tasks are polled again once they can go on. *)
Fairness == WF_vars(Receive) /\ \A r \in Producers : WF_vars(Proceed(r))

Spec == Init /\ [][Next]_vars /\ Fairness

---------------------------------------------------------------------------
Item == {Must(n) : n \in 1..MaxItems} \cup {Droppable(n) : n \in 1..MaxItems}
          \cup {Coalescing(k, n) : k \in Keys, n \in 1..MaxItems}

TypeOK ==
  /\ items \in Seq(Item) /\ Len(items) <= Capacity
  /\ received \in Seq(Item) /\ accepted \in Seq(Item) /\ evicted \subseteq Item
  /\ closed \in BOOLEAN /\ permit \in BOOLEAN /\ awoken \in BOOLEAN
  /\ producer \in [Producers -> ProducerStates] /\ consumer \in ConsumerStates
  /\ pending \in [Producers -> Item \cup {NoItem}] /\ notified \in [Producers -> BOOLEAN]
  /\ count \in 0..MaxItems

(* What has entered the queue and was not pushed out, in order. *)
Passed == received \o items

(* What entered the queue as MustDeliver is received or still queued, once *)
(* and in order, whatever coalesces, blocks or is aborted beside it; only a *)
(* Drop notification at a full queue may take its place (enqueue_drop).     *)
MustDeliverKept ==
  /\ \A k \in DOMAIN accepted :
       accepted[k] \in evicted <=> \A i \in DOMAIN Passed : Passed[i] # accepted[k]
  /\ \A i \in DOMAIN Passed :
       Passed[i].class = "must" => \E k \in DOMAIN accepted : Passed[i] = accepted[k]
  /\ \A i, j \in DOMAIN Passed, k, l \in DOMAIN accepted :
       Passed[i] = accepted[k] /\ Passed[j] = accepted[l] => (i < j <=> k < l)

(* Coalescing keeps one entry per key, and no entry overtakes a later one  *)
(* of its key: what was received last is older than what is queued.        *)
CoalescedOnce ==
  \A i \in DOMAIN items : items[i].class = "coalesce" =>
    /\ \A j \in DOMAIN items : items[j].class = "coalesce" /\ items[j].key = items[i].key => i = j
    /\ \A j \in DOMAIN received :
         received[j].class = "coalesce" /\ received[j].key = items[i].key =>
           received[j].id < items[i].id

(* Nobody sleeps with a reason to wake: a reader that awaits space and was *)
(* not notified has a full, open queue before it, and a receiver without a *)
(* signal an empty, open one.  Between check and await no wakeup is lost.  *)
NoLostSignal ==
  /\ \A r \in Producers : producer[r] = "wait" /\ ~notified[r] => Full /\ ~closed
  /\ consumer = "wait" /\ ~awoken /\ ~permit => items = <<>> /\ ~closed

(* What is queued is received, a reader blocked on a full queue goes on,   *)
(* and a close ends the receiver: no signal, neither on space_available    *)
(* nor on item_available, is lost between a check and its await.           *)
Drains ==
  /\ items # <<>> ~> items = <<>>
  /\ \A r \in Producers : producer[r] = "wait" ~> producer[r] # "wait"
  /\ closed ~> consumer = "none"
=============================================================================
