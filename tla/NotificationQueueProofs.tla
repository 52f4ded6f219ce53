----------------------- MODULE NotificationQueueProofs -----------------------
(***************************************************************************)
(* Proofs about the notification queue, for any number of readers, any     *)
(* capacity, any set of coalesce keys and any number of notifications.     *)
(* The inductive invariant is QueueInv.                                    *)
(***************************************************************************)
EXTENDS NotificationQueue, SequenceTheorems, TLAPS

(* Where a reader holds a MustDeliver notification. *)
Holding == {"arm", "check", "wait"}

(* Ids are given out once: what a reader holds is new to the queue. *)
IdInv ==
  /\ \A i \in DOMAIN Passed : Passed[i].id <= count
  /\ \A k \in DOMAIN accepted : accepted[k].class = "must" /\ accepted[k].id <= count
  /\ \A x \in evicted : x.id <= count

HeldInv ==
  /\ \A r \in Producers : producer[r] \in Holding =>
       /\ pending[r] \in Item /\ pending[r].class = "must" /\ pending[r].id <= count
       /\ pending[r] \notin evicted
       /\ \A k \in DOMAIN accepted : accepted[k] # pending[r]
       /\ \A i \in DOMAIN Passed : Passed[i] # pending[r]
  /\ \A r, s \in Producers :
       producer[r] \in Holding /\ producer[s] \in Holding /\ r # s => pending[r].id # pending[s].id

(* Of a key the queue holds one entry, and nothing newer was received. *)
CoalesceInv ==
  \A i, j \in DOMAIN Passed :
    /\ Passed[i].class = "coalesce" /\ Passed[j].class = "coalesce"
    /\ Passed[i].key = Passed[j].key /\ i < j
    => i <= Len(received) /\ Passed[i].id < Passed[j].id

QueueInv == TypeOK /\ IdInv /\ HeldInv /\ MustDeliverKept /\ CoalesceInv /\ NoLostSignal

---------------------------------------------------------------------------
(* An entry has a class and an id; a coalescing one has a key. *)
LEMMA ItemFacts ==
  /\ \A x \in Item : x.class \in {"must", "drop", "coalesce"} /\ x.id \in 1..MaxItems
  /\ \A n \in 1..MaxItems : Must(n) \in Item /\ Must(n).class = "must" /\ Must(n).id = n
  /\ \A n \in 1..MaxItems :
       Droppable(n) \in Item /\ Droppable(n).class = "drop" /\ Droppable(n).id = n
  /\ \A n \in 1..MaxItems, k \in Keys :
       /\ Coalescing(k, n) \in Item /\ Coalescing(k, n).class = "coalesce"
       /\ Coalescing(k, n).id = n /\ Coalescing(k, n).key = k
<1>1. \A x \in Item : x.class \in {"must", "drop", "coalesce"} /\ x.id \in 1..MaxItems
  BY DEF Item, Must, Droppable, Coalescing
<1>2. ASSUME NEW n \in 1..MaxItems
      PROVE  /\ Must(n) \in Item /\ Must(n).class = "must" /\ Must(n).id = n
             /\ Droppable(n) \in Item /\ Droppable(n).class = "drop" /\ Droppable(n).id = n
  BY DEF Item, Must, Droppable
<1>3. ASSUME NEW n \in 1..MaxItems, NEW k \in Keys
      PROVE  /\ Coalescing(k, n) \in Item /\ Coalescing(k, n).class = "coalesce"
             /\ Coalescing(k, n).id = n /\ Coalescing(k, n).key = k
  BY DEF Item, Coalescing
<1> QED BY <1>1, <1>2, <1>3

LEMMA PassedFacts ==
  ASSUME TypeOK
  PROVE  /\ Passed \in Seq(Item) /\ Len(Passed) = Len(received) + Len(items)
         /\ DOMAIN Passed = 1..(Len(received) + Len(items))
         /\ \A i \in 1..Len(received) : Passed[i] = received[i]
         /\ \A i \in 1..Len(items) : Passed[Len(received) + i] = items[i]
         /\ Len(received) \in Nat /\ Len(items) \in Nat
BY DEF TypeOK, Passed

(* The steps of the queue, as the entries that have passed see them. *)
LEMMA PushPassed ==
  ASSUME TypeOK, NEW x \in Item, items' = Append(items, x), received' = received
  PROVE  Passed' = Append(Passed, x)
<1>1. Passed' = received \o Append(items, x)
  BY DEF Passed
<1> QED BY <1>1, PassedFacts DEF TypeOK, Passed

LEMMA TakePassed ==
  ASSUME TypeOK, items # <<>>, items' = Tail(items), received' = Append(received, Head(items))
  PROVE  Passed' = Passed
<1>1. Passed' = Append(received, Head(items)) \o Tail(items)
  BY DEF Passed
<1>2. Head(items) \in Item /\ Tail(items) \in Seq(Item) /\ Len(items) >= 1
       /\ Len(Tail(items)) = Len(items) - 1 /\ Head(items) = items[1]
       /\ \A i \in 1..(Len(items) - 1) : Tail(items)[i] = items[i + 1]
  BY DEF TypeOK
<1> QED BY <1>1, <1>2, PassedFacts DEF TypeOK, Passed

LEMMA ReplacePassed ==
  ASSUME TypeOK, NEW x \in Item, NEW c \in DOMAIN items,
         items' = [items EXCEPT ![c] = x], received' = received
  PROVE  /\ Len(received) + c \in DOMAIN Passed
         /\ Passed' = [Passed EXCEPT ![Len(received) + c] = x]
<1> DEFINE R == Len(received)
           N == Len(items)
           new == [items EXCEPT ![c] = x]
<1>1. Passed' = received \o new
  BY DEF Passed
<1>2. new \in Seq(Item) /\ Len(new) = N /\ c \in 1..N
      /\ \A i \in 1..N : new[i] = IF i = c THEN x ELSE items[i]
  BY DEF TypeOK
<1>3. /\ R \in Nat /\ N \in Nat /\ Passed \in Seq(Item) /\ Passed' \in Seq(Item)
      /\ Len(Passed) = R + N /\ Len(Passed') = R + N
      /\ \A i \in 1..R : Passed[i] = received[i] /\ Passed'[i] = received[i]
      /\ \A i \in 1..N : Passed[R + i] = items[i] /\ Passed'[R + i] = new[i]
  <2>1. received \in Seq(Item) /\ items \in Seq(Item)
    BY DEF TypeOK
  <2> HIDE DEF new
  <2>2. Passed' \in Seq(Item) /\ Len(Passed') = R + N
        /\ (\A i \in 1..R : Passed'[i] = received[i])
        /\ \A i \in 1..N : Passed'[R + i] = new[i]
    <3>1. /\ received \o new \in Seq(Item) /\ Len(received \o new) = R + Len(new)
          /\ \A i \in 1..(R + Len(new)) :
               (received \o new)[i] = IF i <= R THEN received[i] ELSE new[i - R]
      BY <1>2, <2>1, ConcatProperties
    <3>2. R \in Nat /\ N \in Nat
      BY <2>1
    <3> HIDE DEF R, N
    <3> QED BY <1>1, <1>2, <3>1, <3>2
  <2> QED BY <2>2, PassedFacts
<1> HIDE DEF R, N, new
<1>4. ASSUME NEW i \in 1..(R + N) PROVE Passed'[i] = IF i = R + c THEN x ELSE Passed[i]
  <2>1. CASE i <= R
    BY <1>2, <1>3, <2>1
  <2>2. CASE i > R
    <3>1. i - R \in 1..N /\ i = R + (i - R)
      BY <1>3, <2>2
    <3> QED BY <1>2, <1>3, <3>1
  <2> QED BY <1>3, <2>1, <2>2
<1>5. R + c \in 1..(R + N)
  BY <1>2, <1>3
<1> QED BY <1>3, <1>4, <1>5 DEF R

LEMMA ShiftPassed ==
  ASSUME TypeOK, NEW x \in Item, Full, items' = Append(Tail(items), x), received' = received
  PROVE  /\ items # <<>> /\ Len(items') = Len(items) /\ Passed[Len(received) + 1] = Head(items)
         /\ Head(items) \in Item
         /\ Len(received) + 1 \in DOMAIN Passed /\ DOMAIN Passed' = DOMAIN Passed
         /\ \A i \in DOMAIN Passed :
              Passed'[i] = IF i <= Len(received) THEN Passed[i]
                           ELSE IF i = Len(Passed) THEN x ELSE Passed[i + 1]
<1>1. Passed' = received \o Append(Tail(items), x)
  BY DEF Passed
<1>2. Len(items) >= 1
  BY QueueAssumption DEF Full, TypeOK
<1>3. Head(items) \in Item /\ Tail(items) \in Seq(Item)
       /\ Len(Tail(items)) = Len(items) - 1 /\ Head(items) = items[1]
       /\ \A i \in 1..(Len(items) - 1) : Tail(items)[i] = items[i + 1]
  BY <1>2 DEF TypeOK
<1>4. Len(Append(Tail(items), x)) = Len(items) /\ Append(Tail(items), x)[Len(items)] = x
       /\ \A i \in 1..(Len(items) - 1) : Append(Tail(items), x)[i] = items[i + 1]
       /\ Append(Tail(items), x) \in Seq(Item)
  BY <1>2, <1>3
<1> DEFINE R == Len(received)
           N == Len(items)
           new == Append(Tail(items), x)
<1>5. /\ R \in Nat /\ N \in Nat \ {0}
      /\ DOMAIN Passed = 1..(R + N) /\ DOMAIN Passed' = 1..(R + N) /\ Len(Passed) = R + N
      /\ \A i \in 1..R : Passed[i] = received[i] /\ Passed'[i] = received[i]
      /\ \A i \in 1..N : Passed[R + i] = items[i] /\ Passed'[R + i] = new[i]
  BY <1>1, <1>2, <1>4, PassedFacts DEF TypeOK
<1>6. new[N] = x /\ \A i \in 1..(N - 1) : new[i] = items[i + 1]
  BY <1>4
<1> HIDE DEF R, N, new
<1>7. ASSUME NEW i \in 1..(R + N), ~(i <= R)
      PROVE  Passed'[i] = IF i = R + N THEN x ELSE Passed[i + 1]
  <2>1. i - R \in 1..N /\ i = R + (i - R)
    BY <1>5, <1>7
  <2>2. Passed'[i] = new[i - R]
    BY <1>5, <2>1
  <2>3. CASE i = R + N
    BY <1>5, <1>6, <2>2, <2>3
  <2>4. CASE i # R + N
    <3>1. i - R \in 1..(N - 1) /\ (i - R) + 1 \in 1..N /\ i + 1 = R + ((i - R) + 1)
      BY <1>5, <2>1, <2>4
    <3> QED BY <1>5, <1>6, <2>2, <2>4, <3>1
  <2> QED BY <2>3, <2>4
<1>8. R + 1 \in 1..(R + N) /\ Passed[R + 1] = items[1]
  BY <1>5
<1>9. \A i \in 1..(R + N) :
        Passed'[i] = IF i <= R THEN Passed[i] ELSE IF i = R + N THEN x ELSE Passed[i + 1]
  BY <1>5, <1>7
<1>10. items # <<>> /\ Len(items') = Len(items)
  BY <1>2, <1>4
<1>11. R + 1 \in DOMAIN Passed /\ DOMAIN Passed' = DOMAIN Passed /\ Passed[R + 1] = Head(items)
  BY <1>3, <1>5, <1>8
<1>12. \A i \in DOMAIN Passed :
        Passed'[i] = IF i <= R THEN Passed[i] ELSE IF i = Len(Passed) THEN x ELSE Passed[i + 1]
  BY <1>5, <1>9
<1> QED BY <1>3, <1>10, <1>11, <1>12 DEF R

---------------------------------------------------------------------------
(* What MustDeliverKept says survives each kind of step. *)
LEMMA KeptSame ==
  ASSUME MustDeliverKept, UNCHANGED <<Passed, accepted, evicted>>
  PROVE  MustDeliverKept'
BY DEF MustDeliverKept

LEMMA KeptPush ==
  ASSUME TypeOK, MustDeliverKept, IdInv, NEW x \in Item, x.class # "must",
         Passed' = Append(Passed, x), UNCHANGED <<accepted, evicted>>
  PROVE  MustDeliverKept'
<1>1. /\ DOMAIN Passed' = 1..(Len(Passed) + 1) /\ DOMAIN Passed = 1..Len(Passed) /\ Len(Passed) \in Nat
      /\ Passed'[Len(Passed) + 1] = x /\ \A i \in DOMAIN Passed : Passed'[i] = Passed[i]
  BY PassedFacts
<1>2. \A k \in DOMAIN accepted : accepted[k] # x
  BY DEF IdInv
<1>3. \A i \in DOMAIN Passed' : i \in DOMAIN Passed \/ i = Len(Passed) + 1
  BY <1>1
<1> QED BY <1>1, <1>2, <1>3 DEF MustDeliverKept

LEMMA KeptMust ==
  ASSUME TypeOK, MustDeliverKept, IdInv, NEW x \in Item, x.class = "must", x \notin evicted,
         \A k \in DOMAIN accepted : accepted[k] # x, \A i \in DOMAIN Passed : Passed[i] # x,
         Passed' = Append(Passed, x), accepted' = Append(accepted, x), UNCHANGED evicted
  PROVE  MustDeliverKept'
<1> DEFINE m == Len(Passed) + 1
           n == Len(accepted) + 1
<1>1. /\ DOMAIN Passed' = 1..m /\ DOMAIN Passed = 1..(m - 1) /\ m \in Nat
      /\ Passed'[m] = x /\ \A i \in DOMAIN Passed : Passed'[i] = Passed[i]
  BY PassedFacts
<1>2. /\ DOMAIN accepted' = 1..n /\ DOMAIN accepted = 1..(n - 1) /\ n \in Nat
      /\ accepted'[n] = x /\ \A k \in DOMAIN accepted : accepted'[k] = accepted[k]
  BY DEF TypeOK
<1>3. /\ \A i \in DOMAIN Passed' : (i \in DOMAIN Passed /\ i < m) \/ i = m
      /\ \A k \in DOMAIN accepted' : (k \in DOMAIN accepted /\ k < n) \/ k = n
      /\ m \in DOMAIN Passed' /\ n \in DOMAIN accepted'
      /\ DOMAIN Passed \subseteq DOMAIN Passed' /\ DOMAIN accepted \subseteq DOMAIN accepted'
  BY <1>1, <1>2
<1> HIDE DEF m, n
<1>4. \A k \in DOMAIN accepted' :
        (accepted'[k] \in evicted) <=> \A i \in DOMAIN Passed' : Passed'[i] # accepted'[k]
  BY <1>1, <1>2, <1>3 DEF MustDeliverKept
<1>5. \A i \in DOMAIN Passed' :
        Passed'[i].class = "must" => \E k \in DOMAIN accepted' : Passed'[i] = accepted'[k]
  BY <1>1, <1>2, <1>3 DEF MustDeliverKept
<1>6. ASSUME NEW i \in DOMAIN Passed', NEW j \in DOMAIN Passed',
             NEW k \in DOMAIN accepted', NEW l \in DOMAIN accepted',
             Passed'[i] = accepted'[k], Passed'[j] = accepted'[l]
      PROVE  i < j <=> k < l
  <2>1. (i = m <=> k = n) /\ (j = m <=> l = n)
    BY <1>1, <1>2, <1>3, <1>6
  <2>2. CASE i # m /\ j # m
    BY <1>1, <1>2, <1>3, <1>6, <2>1, <2>2 DEF MustDeliverKept
  <2>3. CASE i = m \/ j = m
    <3> HIDE DEF TypeOK
    <3>1. i \in Nat /\ j \in Nat /\ k \in Nat /\ l \in Nat
      BY <1>1, <1>2, <1>3
    <3>2. i <= m /\ j <= m /\ k <= n /\ l <= n
      BY <1>1, <1>2, <1>3
    <3> QED BY ONLY <1>3, <2>1, <2>3, <3>1, <3>2
  <2> QED BY <2>2, <2>3
<1> QED BY ONLY <1>4, <1>5, <1>6, UNCHANGED evicted DEF MustDeliverKept

LEMMA KeptReplace ==
  ASSUME TypeOK, MustDeliverKept, IdInv, NEW x \in Item, x.class = "coalesce",
         NEW c \in DOMAIN Passed, Passed[c].class = "coalesce",
         Passed' = [Passed EXCEPT ![c] = x], UNCHANGED <<accepted, evicted>>
  PROVE  MustDeliverKept'
<1>1. /\ DOMAIN Passed' = DOMAIN Passed /\ Passed'[c] = x
      /\ \A i \in DOMAIN Passed : i # c => Passed'[i] = Passed[i]
  BY PassedFacts
<1>2. \A k \in DOMAIN accepted : accepted[k] # x /\ accepted[k] # Passed[c]
  BY DEF IdInv
<1> QED BY <1>1, <1>2 DEF MustDeliverKept

(* The front makes room: it is evicted, and only it is. *)
LEMMA KeptShift ==
  ASSUME TypeOK, MustDeliverKept, IdInv, NEW x \in Item, x.class # "must", Full,
         items' = Append(Tail(items), x), received' = received,
         evicted' = evicted \cup {Head(items)}, UNCHANGED accepted
  PROVE  MustDeliverKept'
<1> DEFINE f == Len(received) + 1
           From(i) == IF i < f THEN i ELSE i + 1
           m == Len(Passed)
<1>1. /\ DOMAIN Passed' = 1..m /\ DOMAIN Passed = 1..m /\ m \in Nat /\ f \in 1..m
      /\ Passed[f] = Head(items) /\ Passed'[m] = x
      /\ \A i \in 1..(m - 1) : Passed'[i] = Passed[From(i)]
  <2>1. Passed \in Seq(Item) /\ Len(received) \in Nat
    BY PassedFacts
  <2>2. DOMAIN Passed = 1..m /\ m \in Nat
    BY <2>1
  <2>3. /\ f \in DOMAIN Passed /\ DOMAIN Passed' = DOMAIN Passed /\ Passed[f] = Head(items)
        /\ \A i \in DOMAIN Passed :
              Passed'[i] = IF i <= Len(received) THEN Passed[i]
                           ELSE IF i = m THEN x ELSE Passed[i + 1]
    BY ShiftPassed
  <2> HIDE DEF m
  <2> QED BY ONLY <2>1, <2>2, <2>3
<1>2. \A i \in 1..(m - 1) : From(i) \in 1..m /\ From(i) # f
  BY <1>1
<1>3. \A i, j \in 1..(m - 1) : i < j <=> From(i) < From(j)
  BY <1>1
<1>4. \A j \in 1..m : j # f => \E i \in 1..(m - 1) : From(i) = j
  <2> SUFFICES ASSUME NEW j \in 1..m, j # f PROVE \E i \in 1..(m - 1) : From(i) = j
    OBVIOUS
  <2>1. CASE j < f
    BY <2>1, <1>1
  <2>2. CASE j > f
    <3>1. j - 1 \in 1..(m - 1) /\ From(j - 1) = j
      BY <2>2, <1>1
    <3> QED BY <3>1
  <2> QED BY <2>1, <2>2, <1>1
<1> HIDE DEF From, f, m
<1>5. \A k \in DOMAIN accepted : accepted[k] # x
  BY DEF IdInv
<1>6. \A i \in 1..m : i = m \/ i \in 1..(m - 1)
  BY <1>1
<1>7. 1..(m - 1) \subseteq 1..m /\ m \in 1..m
  BY <1>1
<1>8. ASSUME NEW k \in DOMAIN accepted
      PROVE  (accepted[k] \in evicted') <=> \A i \in DOMAIN Passed' : Passed'[i] # accepted[k]
  <2>1. CASE accepted[k] = Passed[f]
    <3>1. \A j \in 1..m : Passed[j] = accepted[k] => j = f
      <4> SUFFICES ASSUME NEW j \in 1..m, Passed[j] = accepted[k] PROVE j = f
        OBVIOUS
      <4>1. ~(k < k)
        BY DEF TypeOK
      <4>2. ~(j < f) /\ ~(f < j)
        BY <1>1, <2>1, <4>1 DEF MustDeliverKept
      <4> QED BY <4>2, <1>1
    <3>2. \A i \in 1..(m - 1) : Passed'[i] # accepted[k]
      BY <3>1, <1>1, <1>2
    <3> QED BY <2>1, <3>2, <1>1, <1>5, <1>6
  <2>2. CASE accepted[k] # Passed[f]
    <3>1. (accepted[k] \in evicted') <=> accepted[k] \in evicted
      BY <2>2, <1>1
    <3>2. (\E i \in 1..m : Passed'[i] = accepted[k]) <=> \E j \in 1..m : Passed[j] = accepted[k]
      BY <2>2, <1>1, <1>2, <1>4, <1>5, <1>6, <1>7
    <3> QED BY <3>1, <3>2, <1>1 DEF MustDeliverKept
  <2> QED BY <2>1, <2>2
<1>9. \A i \in DOMAIN Passed' :
        Passed'[i].class = "must" => \E k \in DOMAIN accepted' : Passed'[i] = accepted'[k]
  BY <1>1, <1>2, <1>6 DEF MustDeliverKept
<1>10. ASSUME NEW i \in DOMAIN Passed', NEW j \in DOMAIN Passed',
              NEW k \in DOMAIN accepted, NEW l \in DOMAIN accepted,
              Passed'[i] = accepted[k], Passed'[j] = accepted[l]
       PROVE  i < j <=> k < l
  <2>1. i \in 1..(m - 1) /\ j \in 1..(m - 1)
    BY <1>10, <1>1, <1>5, <1>6
  <2>2. From(i) < From(j) <=> k < l
    BY <2>1, <1>1, <1>2, <1>10 DEF MustDeliverKept
  <2> QED BY <2>1, <2>2, <1>3
<1> QED BY <1>8, <1>9, <1>10 DEF MustDeliverKept

---------------------------------------------------------------------------
(* Ids, holders and keys: what each kind of step has to respect. *)
LEMMA IdKept ==
  ASSUME QueueInv, count' \in Nat, count <= count', UNCHANGED accepted,
         \A y \in evicted' : y \in evicted \/ \E i \in DOMAIN Passed : y = Passed[i],
         \A i \in DOMAIN Passed' : Passed'[i].id <= count' \/ \E j \in DOMAIN Passed : Passed'[i] = Passed[j]
  PROVE  IdInv'
<1>1. /\ count \in Nat /\ Passed \in Seq(Item)
      /\ \A k \in DOMAIN accepted : accepted[k] \in Item
      /\ \A y \in evicted : y \in Item
  BY PassedFacts DEF QueueInv, TypeOK
<1>2. \A i \in DOMAIN Passed : Passed[i] \in Item
  BY <1>1
<1>3. \A y \in Item : y.id \in Nat
  BY ItemFacts, QueueAssumption
<1>4. \A y \in Item : y.id <= count => y.id <= count'
  BY <1>1, <1>3
<1> QED BY <1>1, <1>2, <1>4 DEF QueueInv, IdInv

LEMMA HeldKept ==
  ASSUME QueueInv, count' \in Nat, count <= count', UNCHANGED accepted,
         \A y \in evicted' : y \in evicted \/ \E i \in DOMAIN Passed : y = Passed[i],
         \A i \in DOMAIN Passed' :
           Passed'[i].class # "must" \/ \E j \in DOMAIN Passed : Passed'[i] = Passed[j],
         \A r \in Producers : producer'[r] \in Holding =>
           producer[r] \in Holding /\ pending'[r] = pending[r]
  PROVE  HeldInv'
<1>1. count \in Nat
  BY DEF QueueInv, TypeOK
<1>2. \A y \in Item : y.id \in Nat
  BY ItemFacts, QueueAssumption
<1>3. ASSUME NEW r \in Producers, producer'[r] \in Holding
      PROVE  /\ pending'[r] \in Item /\ pending'[r].class = "must" /\ pending'[r].id <= count'
             /\ pending'[r] \notin evicted'
             /\ \A k \in DOMAIN accepted' : accepted'[k] # pending'[r]
             /\ \A i \in DOMAIN Passed' : Passed'[i] # pending'[r]
  <2>1. producer[r] \in Holding /\ pending'[r] = pending[r]
    BY <1>3
  <2>2. /\ pending[r] \in Item /\ pending[r].class = "must" /\ pending[r].id <= count
        /\ pending[r] \notin evicted
        /\ \A k \in DOMAIN accepted : accepted[k] # pending[r]
        /\ \A i \in DOMAIN Passed : Passed[i] # pending[r]
    BY <2>1 DEF QueueInv, HeldInv
  <2>3. pending[r].id <= count'
    BY <1>1, <1>2, <2>2
  <2> QED BY <2>1, <2>2, <2>3
<1> QED BY <1>3 DEF QueueInv, HeldInv

(* A step that adds no coalescing entry and takes none out of the queue    *)
(* but at its front.                                                       *)
LEMMA CoalesceSame ==
  ASSUME QueueInv, Passed' = Passed, Len(received) <= Len(received'), Len(received') \in Nat
  PROVE  CoalesceInv'
<1>1. Len(received) \in Nat /\ DOMAIN Passed \subseteq Nat
  BY PassedFacts DEF QueueInv
<1> QED BY <1>1 DEF QueueInv, CoalesceInv

LEMMA CoalescePush ==
  ASSUME QueueInv, NEW x \in Item, Passed' = Append(Passed, x), received' = received,
         x.class = "coalesce" =>
           /\ x.id = count + 1
           /\ \A i \in DOMAIN items : items[i].class = "coalesce" => items[i].key # x.key
  PROVE  CoalesceInv'
<1> DEFINE m == Len(Passed) + 1
           R == Len(received)
<1>1. /\ DOMAIN Passed' = 1..m /\ DOMAIN Passed = 1..(m - 1) /\ m \in Nat /\ R \in Nat
      /\ Passed'[m] = x /\ \A i \in DOMAIN Passed : Passed'[i] = Passed[i]
  BY PassedFacts DEF QueueInv
<1>2. \A i \in DOMAIN Passed : i > R => \E j \in DOMAIN items : Passed[i] = items[j]
  <2> SUFFICES ASSUME NEW i \in DOMAIN Passed, i > R PROVE \E j \in DOMAIN items : Passed[i] = items[j]
    OBVIOUS
  <2>1. DOMAIN items = 1..Len(items) /\ Len(items) \in Nat
    BY DEF QueueInv, TypeOK
  <2>2. DOMAIN Passed = 1..(R + Len(items)) /\ \A j \in 1..Len(items) : Passed[R + j] = items[j]
    BY PassedFacts DEF QueueInv
  <2> HIDE DEF R
  <2>3. i - R \in 1..Len(items) /\ i = R + (i - R)
    BY <1>1, <2>1, <2>2
  <2> QED BY <2>1, <2>2, <2>3
<1>3. \A i \in DOMAIN Passed : Passed[i].id <= count /\ Passed[i].id \in Nat
  <2>1. \A i \in DOMAIN Passed : Passed[i] \in Item
    BY PassedFacts DEF QueueInv
  <2> QED BY <2>1, ItemFacts, QueueAssumption DEF QueueInv, IdInv
<1>4. count \in Nat
  BY DEF QueueInv, TypeOK
<1> HIDE DEF m, R
<1> SUFFICES ASSUME NEW i \in 1..m, NEW j \in 1..m,
                    Passed'[i].class = "coalesce", Passed'[j].class = "coalesce",
                    Passed'[i].key = Passed'[j].key, i < j
             PROVE  i <= R /\ Passed'[i].id < Passed'[j].id
  BY <1>1 DEF CoalesceInv, R
<1>5. i \in DOMAIN Passed /\ i # m
  BY <1>1
<1>6. CASE j # m
  <2>1. j \in DOMAIN Passed
    BY <1>1, <1>6
  <2> QED BY <1>1, <1>5, <2>1 DEF QueueInv, CoalesceInv, R
<1>7. CASE j = m
  <2>1. i <= R
    BY <1>1, <1>2, <1>5, <1>7
  <2>2. Passed[i].id < x.id
    BY <1>1, <1>3, <1>4, <1>5, <1>7
  <2> QED BY <1>1, <1>5, <1>7, <2>1, <2>2
<1> QED BY <1>6, <1>7

LEMMA CoalesceReplace ==
  ASSUME QueueInv, NEW x \in Item, x.class = "coalesce", x.id = count + 1,
         NEW c \in DOMAIN Passed, c > Len(received),
         Passed[c].class = "coalesce", Passed[c].key = x.key,
         Passed' = [Passed EXCEPT ![c] = x], received' = received
  PROVE  CoalesceInv'
<1> DEFINE R == Len(received)
<1>1. /\ DOMAIN Passed' = DOMAIN Passed /\ Passed'[c] = x /\ R \in Nat
      /\ DOMAIN Passed \subseteq Nat
      /\ \A i \in DOMAIN Passed : i # c => Passed'[i] = Passed[i]
  BY PassedFacts DEF QueueInv
<1>2. \A i \in DOMAIN Passed : Passed[i].id <= count /\ Passed[i].id \in Nat
  <2>1. \A i \in DOMAIN Passed : Passed[i] \in Item
    BY PassedFacts DEF QueueInv
  <2> QED BY <2>1, ItemFacts, QueueAssumption DEF QueueInv, IdInv
<1>3. count \in Nat
  BY DEF QueueInv, TypeOK
<1> HIDE DEF R
<1> SUFFICES ASSUME NEW i \in DOMAIN Passed, NEW j \in DOMAIN Passed,
                    Passed'[i].class = "coalesce", Passed'[j].class = "coalesce",
                    Passed'[i].key = Passed'[j].key, i < j
             PROVE  i <= R /\ Passed'[i].id < Passed'[j].id
  BY <1>1 DEF CoalesceInv, R
<1>4. i # c
  <2> SUFFICES ASSUME i = c PROVE FALSE
    OBVIOUS
  <2>1. j # c /\ Passed'[j] = Passed[j] /\ Passed'[i] = x
    BY <1>1
  <2>2. c <= R
    BY <2>1 DEF QueueInv, CoalesceInv, R
  <2> QED BY <1>1, <2>2 DEF R
<1>5. CASE j = c
  <2>1. i <= R
    BY <1>1, <1>4, <1>5 DEF QueueInv, CoalesceInv, R
  <2> QED BY <1>1, <1>2, <1>3, <1>4, <1>5, <2>1
<1>6. CASE j # c
  BY <1>1, <1>4, <1>6 DEF QueueInv, CoalesceInv, R
<1> QED BY <1>5, <1>6

LEMMA CoalesceShift ==
  ASSUME QueueInv, NEW x \in Item, x.class # "coalesce", Full,
         items' = Append(Tail(items), x), received' = received
  PROVE  CoalesceInv'
<1> DEFINE R == Len(received)
           m == Len(Passed)
           From(i) == IF i <= R THEN i ELSE i + 1
<1>1. Passed \in Seq(Item) /\ R \in Nat
  BY PassedFacts DEF QueueInv
<1>2. DOMAIN Passed = 1..m /\ m \in Nat
  BY <1>1
<1>3. /\ DOMAIN Passed' = 1..m
      /\ \A i \in 1..m : Passed'[i] = IF i <= R THEN Passed[i]
                                      ELSE IF i = m THEN x ELSE Passed[i + 1]
      /\ R + 1 \in 1..m
  BY <1>2, ShiftPassed DEF QueueInv
<1> HIDE DEF R, m
<1> SUFFICES ASSUME NEW i \in 1..m, NEW j \in 1..m,
                    Passed'[i].class = "coalesce", Passed'[j].class = "coalesce",
                    Passed'[i].key = Passed'[j].key, i < j
             PROVE  i <= R /\ Passed'[i].id < Passed'[j].id
  BY <1>3 DEF CoalesceInv, R
<1>4. i # m /\ j # m
  BY <1>1, <1>2, <1>3
<1>5. /\ From(i) \in 1..m /\ From(j) \in 1..m /\ From(i) < From(j)
      /\ Passed'[i] = Passed[From(i)] /\ Passed'[j] = Passed[From(j)]
  BY <1>1, <1>2, <1>3, <1>4
<1> HIDE DEF From
<1>6. From(i) <= R /\ Passed[From(i)].id < Passed[From(j)].id
  BY <1>2, <1>5 DEF QueueInv, CoalesceInv, R
<1>7. i <= R
  BY <1>1, <1>2, <1>6 DEF From
<1> QED BY <1>5, <1>6, <1>7

---------------------------------------------------------------------------
LEMMA QueueInit == Init => QueueInv
<1> SUFFICES ASSUME Init PROVE QueueInv
  OBVIOUS
<1>1. TypeOK
  <2>1. <<>> \in Seq(Item) /\ Len(<<>>) <= Capacity /\ 0 \in 0..MaxItems
    BY QueueAssumption
  <2>2. producer \in [Producers -> ProducerStates] /\ consumer \in ConsumerStates
    BY DEF Init, ProducerStates, ConsumerStates
  <2>3. pending \in [Producers -> Item \cup {NoItem}] /\ notified \in [Producers -> BOOLEAN]
    BY DEF Init
  <2> QED BY <2>1, <2>2, <2>3 DEF Init, TypeOK
<1>2. DOMAIN Passed = {} /\ DOMAIN accepted = {} /\ evicted = {}
  BY <1>1, PassedFacts DEF Init
<1> QED BY <1>1, <1>2 DEF QueueInv, Init, IdInv, HeldInv, MustDeliverKept, CoalesceInv, NoLostSignal,
           Holding

(* A step that leaves the entries alone. *)
LEMMA QuietStep ==
  ASSUME QueueInv, TypeOK', UNCHANGED <<items, count, history>>, NoLostSignal',
         \A r \in Producers : producer'[r] \in Holding =>
           producer[r] \in Holding /\ pending'[r] = pending[r]
  PROVE  QueueInv'
<1>1. Passed' = Passed /\ UNCHANGED <<accepted, evicted, received>>
  BY DEF Passed, history
<1>2. count' \in Nat /\ count <= count'
  BY DEF QueueInv, TypeOK
<1>3. Len(received') \in Nat /\ Len(received) <= Len(received')
  BY <1>1, PassedFacts DEF QueueInv
<1>4. MustDeliverKept'
  BY <1>1, KeptSame DEF QueueInv
<1>5. IdInv' /\ HeldInv'
  BY <1>1, <1>2, IdKept, HeldKept
<1>6. CoalesceInv'
  BY <1>1, <1>3, CoalesceSame
<1> QED BY <1>4, <1>5, <1>6 DEF QueueInv

(* An entry of another class than MustDeliver is appended. *)
LEMMA PushStep ==
  ASSUME QueueInv, TypeOK', NoLostSignal', NEW x \in Item, x.class # "must", x.id = count + 1,
         x.class = "coalesce" =>
           \A i \in DOMAIN items : items[i].class = "coalesce" => items[i].key # x.key,
         items' = Append(items, x), count' = count + 1,
         UNCHANGED <<producers, history>>
  PROVE  QueueInv'
<1>1. UNCHANGED <<accepted, evicted, received, producer, pending>>
  BY DEF history, producers
<1>2. Passed' = Append(Passed, x)
  BY <1>1, PushPassed DEF QueueInv
<1>3. count' \in Nat /\ count <= count' /\ x.id <= count'
  BY DEF QueueInv, TypeOK
<1>4. \A i \in DOMAIN Passed' : Passed'[i] = x \/ \E j \in DOMAIN Passed : Passed'[i] = Passed[j]
  BY <1>2, PassedFacts DEF QueueInv
<1>5. IdInv' /\ HeldInv'
  BY <1>1, <1>3, <1>4, IdKept, HeldKept
<1>6. MustDeliverKept'
  BY <1>1, <1>2, KeptPush DEF QueueInv
<1>7. CoalesceInv'
  BY <1>1, <1>2, CoalescePush
<1> QED BY <1>5, <1>6, <1>7 DEF QueueInv

(* enqueue_coalesce: the entry of the key is unique, so it is the one that *)
(* is replaced.                                                            *)
LEMMA CoalesceStep ==
  ASSUME QueueInv, NEW r \in Producers, NEW k \in Keys, EnqueueCoalesce(r, k)
  PROVE  QueueInv'
<1> DEFINE new == Coalescing(k, count + 1)
           same == {i \in DOMAIN items : items[i].class = "coalesce" /\ items[i].key = k}
<1>1. /\ count \in Nat /\ count' = count + 1 /\ count + 1 \in 1..MaxItems
      /\ UNCHANGED <<closed, producers, receiver, history>>
  BY QueueAssumption DEF EnqueueCoalesce, Fresh, QueueInv, TypeOK
<1>2. new \in Item /\ new.class = "coalesce" /\ new.id = count + 1 /\ new.key = k
  BY <1>1, ItemFacts
<1>3. UNCHANGED <<accepted, evicted, received, producer, pending, notified, consumer, awoken>>
  BY <1>1 DEF history, producers, receiver
<1>4. CASE UNCHANGED <<items, permit>>
  <2>1. TypeOK'
    BY <1>1, <1>3, <1>4 DEF QueueInv, TypeOK
  <2>2. NoLostSignal'
    BY <1>1, <1>3, <1>4 DEF QueueInv, NoLostSignal, Full
  <2>3. Passed' = Passed
    BY <1>3, <1>4 DEF Passed
  <2>4. IdInv' /\ HeldInv'
    BY <1>1, <1>3, <2>3, IdKept, HeldKept
  <2>5. MustDeliverKept' /\ CoalesceInv'
    BY <1>3, <2>3, KeptSame, CoalesceSame, PassedFacts DEF QueueInv
  <2> QED BY <2>1, <2>2, <2>4, <2>5 DEF QueueInv
<1>5. CASE ~closed /\ same = {} /\ ~Full /\ items' = Append(items, new) /\ NotifyOne
  <2>1. Len(items') = Len(items) + 1 /\ Len(items') <= Capacity /\ items' \in Seq(Item)
    BY <1>2, <1>5, QueueAssumption DEF QueueInv, TypeOK, Full
  <2>2. TypeOK'
    BY <1>1, <1>3, <1>5, <2>1 DEF QueueInv, TypeOK, NotifyOne
  <2>3. NoLostSignal'
    BY <1>3, <1>5, <1>1, <2>1, QueueAssumption DEF QueueInv, TypeOK, NoLostSignal, Full, NotifyOne
  <2>4. \A i \in DOMAIN items : items[i].class = "coalesce" => items[i].key # new.key
    BY <1>2, <1>5
  <2> HIDE DEF new, same
  <2> QED BY <1>1, <1>2, <1>5, <2>2, <2>3, <2>4, PushStep
<1>6. CASE /\ ~closed /\ same # {} /\ NotifyOne
           /\ items' = [items EXCEPT ![CHOOSE i \in same : \A j \in same : i <= j] = new]
  <2> DEFINE c == CHOOSE i \in same : \A j \in same : i <= j
             R == Len(received)
  <2>1. /\ DOMAIN items = 1..Len(items) /\ Len(items) \in Nat /\ R \in Nat
        /\ DOMAIN Passed = 1..(R + Len(items))
        /\ \A i \in 1..Len(items) : Passed[R + i] = items[i]
    <3> HIDE DEF c, same, new
    <3>1. TypeOK /\ items \in Seq(Item)
      BY DEF QueueInv, TypeOK
    <3>2. DOMAIN items = 1..Len(items)
      BY <3>1
    <3> QED BY ONLY <3>1, <3>2, PassedFacts DEF R
  <2>2. \A i, j \in same : ~(i < j)
    <3> SUFFICES ASSUME NEW i \in same, NEW j \in same, i < j PROVE FALSE
      OBVIOUS
    <3> HIDE DEF R
    <3>1. R + i \in DOMAIN Passed /\ R + j \in DOMAIN Passed /\ R + i < R + j /\ ~(R + i <= R)
      BY <2>1
    <3>2. Passed[R + i] = items[i] /\ Passed[R + j] = items[j]
      BY <2>1
    <3> QED BY <3>1, <3>2 DEF QueueInv, CoalesceInv, R
  <2>3. c \in same
    <3>1. PICK i \in same : TRUE
      BY <1>6
    <3>2. \A j \in same : i <= j
      BY <2>1, <2>2
    <3> QED BY <3>1, <3>2
  <2>4. c \in 1..Len(items) /\ items[c].class = "coalesce" /\ items[c].key = k
    BY <2>1, <2>3
  <2> HIDE DEF c, same, new
  <2>5. items' = [items EXCEPT ![c] = new]
    BY <1>6 DEF c
  <2>6. items' \in Seq(Item) /\ Len(items') = Len(items)
    BY <1>2, <2>4, <2>5 DEF QueueInv, TypeOK
  <2>7. TypeOK'
    BY <1>1, <1>3, <1>6, <2>6 DEF QueueInv, TypeOK, NotifyOne
  <2>8. NoLostSignal'
    BY <1>1, <1>3, <1>6, <2>6 DEF QueueInv, NoLostSignal, Full, NotifyOne
  <2>9. R + c \in DOMAIN Passed /\ Passed' = [Passed EXCEPT ![R + c] = new]
    BY <1>2, <1>3, <2>1, <2>4, <2>5, ReplacePassed DEF QueueInv
  <2>10. R + c > R /\ Passed[R + c] = items[c]
    BY <2>1, <2>4
  <2>11. \A i \in DOMAIN Passed' : Passed'[i] = new \/ \E j \in DOMAIN Passed : Passed'[i] = Passed[j]
    BY <2>9
  <2>12. IdInv' /\ HeldInv'
    <3>1. count <= count' /\ count' \in Nat /\ new.id <= count' /\ new.class # "must"
      BY <1>1, <1>2
    <3> QED BY <3>1, <1>3, <2>11, IdKept, HeldKept
  <2> HIDE DEF R
  <2>13. MustDeliverKept'
    BY <1>2, <1>3, <2>4, <2>9, <2>10, KeptReplace DEF QueueInv
  <2>14. CoalesceInv'
    BY <1>2, <1>3, <2>4, <2>9, <2>10, CoalesceReplace DEF R
  <2> QED BY <2>7, <2>8, <2>12, <2>13, <2>14 DEF QueueInv
<1> QED BY <1>4, <1>5, <1>6 DEF EnqueueCoalesce

LEMMA DropStep ==
  ASSUME QueueInv, NEW r \in Producers, EnqueueDrop(r)
  PROVE  QueueInv'
<1> DEFINE new == Droppable(count + 1)
<1>1. /\ count \in Nat /\ count' = count + 1 /\ count + 1 \in 1..MaxItems
      /\ UNCHANGED <<closed, producer, pending, notified, consumer, awoken, accepted, received>>
  BY QueueAssumption DEF EnqueueDrop, Fresh, QueueInv, TypeOK, producers, receiver
<1>2. new \in Item /\ new.class = "drop" /\ new.id = count + 1
  BY <1>1, ItemFacts
<1>3. CASE UNCHANGED <<items, permit, evicted>>
  <2>1. TypeOK'
    BY <1>1, <1>3 DEF QueueInv, TypeOK
  <2>2. NoLostSignal'
    BY <1>1, <1>3 DEF QueueInv, NoLostSignal, Full
  <2>3. Passed' = Passed
    BY <1>1, <1>3 DEF Passed
  <2>4. IdInv' /\ HeldInv'
    BY <1>1, <1>3, <2>3, IdKept, HeldKept
  <2>5. MustDeliverKept' /\ CoalesceInv'
    BY <1>1, <1>3, <2>3, KeptSame, CoalesceSame, PassedFacts DEF QueueInv
  <2> QED BY <2>1, <2>2, <2>4, <2>5 DEF QueueInv
<1>4. CASE ~closed /\ ~Full /\ items' = Append(items, new) /\ evicted' = evicted /\ NotifyOne
  <2>1. Len(items') = Len(items) + 1 /\ Len(items') <= Capacity /\ items' \in Seq(Item)
    BY <1>2, <1>4, QueueAssumption DEF QueueInv, TypeOK, Full
  <2>2. TypeOK'
    BY <1>1, <1>4, <2>1 DEF QueueInv, TypeOK, NotifyOne
  <2>3. NoLostSignal'
    BY <1>1, <1>4, <2>1, QueueAssumption DEF QueueInv, TypeOK, NoLostSignal, Full, NotifyOne
  <2>4. UNCHANGED <<producers, history>>
    BY <1>1, <1>4 DEF producers, history
  <2> HIDE DEF new
  <2> QED BY <1>1, <1>2, <1>4, <2>2, <2>3, <2>4, PushStep
<1>5. CASE /\ ~closed /\ Full /\ items' = Append(Tail(items), new)
           /\ evicted' = evicted \cup {Head(items)} /\ NotifyOne
  <2> HIDE DEF new
  <2> DEFINE R == Len(received)
  <2>1. /\ items # <<>> /\ Len(items') = Len(items) /\ Passed[R + 1] = Head(items)
        /\ Head(items) \in Item /\ R + 1 \in DOMAIN Passed /\ DOMAIN Passed' = DOMAIN Passed
        /\ \A i \in DOMAIN Passed :
              Passed'[i] = IF i <= R THEN Passed[i]
                           ELSE IF i = Len(Passed) THEN new ELSE Passed[i + 1]
    BY <1>1, <1>2, <1>5, ShiftPassed DEF QueueInv
  <2>2. items' \in Seq(Item)
    BY <1>2, <1>5, <2>1 DEF QueueInv, TypeOK
  <2>3. TypeOK'
    BY <1>1, <1>5, <2>1, <2>2 DEF QueueInv, TypeOK, NotifyOne
  <2>4. NoLostSignal'
    BY <1>1, <1>5, <2>1 DEF QueueInv, NoLostSignal, Full, NotifyOne
  <2>5. \A i \in DOMAIN Passed' : Passed'[i] = new \/ \E j \in DOMAIN Passed : Passed'[i] = Passed[j]
    <3>1. Passed \in Seq(Item) /\ DOMAIN Passed = 1..Len(Passed) /\ Len(Passed) \in Nat
      BY PassedFacts DEF QueueInv
    <3>2. \A i \in DOMAIN Passed : i # Len(Passed) => i + 1 \in DOMAIN Passed
      BY <3>1
    <3> QED BY <2>1, <3>2
  <2>6. \A y \in evicted' : y \in evicted \/ \E i \in DOMAIN Passed : y = Passed[i]
    BY <1>5, <2>1
  <2>7. IdInv' /\ HeldInv'
    <3>1. count <= count' /\ count' \in Nat /\ new.id <= count' /\ new.class # "must"
      BY <1>1, <1>2
    <3> QED BY <3>1, <1>1, <2>5, <2>6, IdKept, HeldKept
  <2>8. MustDeliverKept'
    BY <1>1, <1>2, <1>5, KeptShift DEF QueueInv
  <2>9. CoalesceInv'
    BY <1>1, <1>2, <1>5, CoalesceShift
  <2> QED BY <2>3, <2>4, <2>7, <2>8, <2>9 DEF QueueInv
<1> QED BY <1>3, <1>4, <1>5 DEF EnqueueDrop

(* enqueue_must_deliver is called: the id is above every other. *)
LEMMA ReadStep ==
  ASSUME QueueInv, NEW r \in Producers, ReadMust(r)
  PROVE  QueueInv'
<1> DEFINE new == Must(count + 1)
<1>1. /\ count \in Nat /\ count' = count + 1 /\ count + 1 \in 1..MaxItems /\ count <= count'
      /\ UNCHANGED <<items, closed, permit, notified, consumer, awoken, accepted, evicted, received>>
      /\ pending' = [pending EXCEPT ![r] = new] /\ producer' = [producer EXCEPT ![r] = "arm"]
  BY QueueAssumption DEF ReadMust, Fresh, QueueInv, TypeOK, receiver, history
<1>2. new \in Item /\ new.class = "must" /\ new.id = count + 1
  BY <1>1, ItemFacts
<1> HIDE DEF new
<1>3. TypeOK'
  BY <1>1, <1>2 DEF QueueInv, TypeOK, ProducerStates
<1>4. /\ producer \in [Producers -> ProducerStates] /\ pending \in [Producers -> Item \cup {NoItem}]
      /\ \A i \in DOMAIN Passed : Passed[i] \in Item
      /\ \A k \in DOMAIN accepted : accepted[k] \in Item
      /\ \A y \in evicted : y \in Item
  BY PassedFacts DEF QueueInv, TypeOK
<1>5. NoLostSignal'
  BY <1>1, <1>4 DEF QueueInv, NoLostSignal, Full
<1>6. Passed' = Passed
  BY <1>1 DEF Passed
<1>7. IdInv' /\ MustDeliverKept' /\ CoalesceInv'
  BY <1>1, <1>6, IdKept, KeptSame, CoalesceSame, PassedFacts DEF QueueInv
<1>8. HeldInv'
  <2>1. \A y \in Item : y.id \in Nat
    BY ItemFacts, QueueAssumption
  <2>2. \A y \in Item : y.id <= count => y # new /\ y.id # new.id /\ y.id <= count'
    BY <1>1, <1>2, <2>1
  <2>3. /\ producer'[r] = "arm" /\ pending'[r] = new
        /\ \A s \in Producers : s # r => producer'[s] = producer[s] /\ pending'[s] = pending[s]
    BY <1>1, <1>4
  <2>4. ASSUME NEW s \in Producers, producer'[s] \in Holding
        PROVE  /\ pending'[s] \in Item /\ pending'[s].class = "must" /\ pending'[s].id <= count'
               /\ pending'[s] \notin evicted'
               /\ \A k \in DOMAIN accepted' : accepted'[k] # pending'[s]
               /\ \A i \in DOMAIN Passed' : Passed'[i] # pending'[s]
    <3>1. CASE s = r
      <4>1. new.id <= count'
        BY <1>1, <1>2
      <4>2. /\ new \notin evicted /\ \A k \in DOMAIN accepted : accepted[k] # new
            /\ \A i \in DOMAIN Passed : Passed[i] # new
        BY <1>4, <2>2 DEF QueueInv, IdInv
      <4> QED BY <3>1, <4>1, <4>2, <1>1, <1>2, <1>6, <2>3
    <3>2. CASE s # r
      <4>1. producer[s] \in Holding /\ pending'[s] = pending[s]
        BY <2>3, <2>4, <3>2
      <4>2. /\ pending[s] \in Item /\ pending[s].class = "must" /\ pending[s].id <= count
            /\ pending[s] \notin evicted
            /\ \A k \in DOMAIN accepted : accepted[k] # pending[s]
            /\ \A i \in DOMAIN Passed : Passed[i] # pending[s]
        BY <4>1 DEF QueueInv, HeldInv
      <4> QED BY <4>1, <4>2, <1>1, <1>6, <2>2
    <3> QED BY <3>1, <3>2
  <2>5. ASSUME NEW s \in Producers, NEW t \in Producers,
               producer'[s] \in Holding, producer'[t] \in Holding, s # t
        PROVE  pending'[s].id # pending'[t].id
    <3>1. \A u \in Producers : u # r /\ producer'[u] \in Holding =>
            pending[u] \in Item /\ pending[u].id <= count
      BY <2>3 DEF QueueInv, HeldInv
    <3>2. CASE s = r \/ t = r
      BY <2>2, <2>3, <2>5, <3>1, <3>2
    <3>3. CASE s # r /\ t # r
      BY <2>3, <2>5, <3>3 DEF QueueInv, HeldInv
    <3> QED BY <3>2, <3>3
  <2> QED BY <2>4, <2>5 DEF HeldInv
<1> QED BY <1>3, <1>5, <1>7, <1>8 DEF QueueInv

(* enqueue_must_deliver accepts: what the reader held is new to the queue. *)
LEMMA AcceptStep ==
  ASSUME QueueInv, NEW r \in Producers, producer[r] = "check", ~closed, ~Full,
         items' = Append(items, pending[r]), accepted' = Append(accepted, pending[r]),
         NotifyOne, Leave(r), UNCHANGED <<closed, notified, receiver, count, evicted, received>>
  PROVE  QueueInv'
<1> DEFINE x == pending[r]
<1>1. /\ x \in Item /\ x.class = "must" /\ x.id <= count /\ x \notin evicted
      /\ \A k \in DOMAIN accepted : accepted[k] # x
      /\ \A i \in DOMAIN Passed : Passed[i] # x
  BY DEF QueueInv, HeldInv, Holding
<1>2. /\ producer' = [producer EXCEPT ![r] = "idle"] /\ pending' = [pending EXCEPT ![r] = NoItem]
      /\ producer \in [Producers -> ProducerStates] /\ pending \in [Producers -> Item \cup {NoItem}]
      /\ UNCHANGED <<consumer, awoken>> /\ permit'
  BY DEF Leave, QueueInv, TypeOK, receiver, NotifyOne
<1>3. /\ producer'[r] = "idle"
      /\ \A s \in Producers : s # r => producer'[s] = producer[s] /\ pending'[s] = pending[s]
  BY <1>2
<1>4. /\ Len(items') = Len(items) + 1 /\ Len(items') <= Capacity /\ items' \in Seq(Item)
      /\ accepted' \in Seq(Item) /\ items' # <<>>
  BY <1>1, QueueAssumption DEF QueueInv, TypeOK, Full
<1>5. TypeOK'
  BY <1>2, <1>4 DEF QueueInv, TypeOK, ProducerStates, NotifyOne
<1>6. NoLostSignal'
  BY <1>2, <1>3, <1>4 DEF QueueInv, NoLostSignal, Full
<1> HIDE DEF x
<1>7. Passed' = Append(Passed, x)
  BY <1>1, PushPassed DEF QueueInv, x
<1>8. MustDeliverKept'
  BY <1>1, <1>7, KeptMust DEF QueueInv, x
<1>9. CoalesceInv'
  BY <1>1, <1>7, CoalescePush
<1>10. /\ \A i \in DOMAIN Passed' : Passed'[i] = x \/ \E j \in DOMAIN Passed : Passed'[i] = Passed[j]
       /\ \A k \in DOMAIN accepted' : accepted'[k] = x \/ \E j \in DOMAIN accepted : accepted'[k] = accepted[j]
  <2>1. Passed \in Seq(Item) /\ accepted \in Seq(Item)
    BY PassedFacts DEF QueueInv, TypeOK
  <2>2. accepted' = Append(accepted, x)
    BY DEF x
  <2> QED BY <1>1, <1>7, <2>1, <2>2
<1>11. IdInv'
  BY <1>1, <1>10 DEF QueueInv, IdInv
<1>12. HeldInv'
  <2>1. ASSUME NEW s \in Producers, producer'[s] \in Holding
        PROVE  /\ pending'[s] \in Item /\ pending'[s].class = "must" /\ pending'[s].id <= count'
               /\ pending'[s] \notin evicted'
               /\ \A k \in DOMAIN accepted' : accepted'[k] # pending'[s]
               /\ \A i \in DOMAIN Passed' : Passed'[i] # pending'[s]
    <3>1. s # r /\ producer[s] \in Holding /\ pending'[s] = pending[s]
      BY <1>3, <2>1 DEF Holding
    <3>2. /\ pending[s] \in Item /\ pending[s].class = "must" /\ pending[s].id <= count
          /\ pending[s] \notin evicted
          /\ \A k \in DOMAIN accepted : accepted[k] # pending[s]
          /\ \A i \in DOMAIN Passed : Passed[i] # pending[s]
      BY <3>1 DEF QueueInv, HeldInv
    <3>3. pending[s] # x
      BY <3>1 DEF QueueInv, HeldInv, Holding, x
    <3> QED BY <3>1, <3>2, <3>3, <1>10
  <2>2. ASSUME NEW s \in Producers, NEW t \in Producers,
               producer'[s] \in Holding, producer'[t] \in Holding, s # t
        PROVE  pending'[s].id # pending'[t].id
    <3>1. s # r /\ t # r
      BY <1>3, <2>2 DEF Holding
    <3> QED BY <1>3, <2>2, <3>1 DEF QueueInv, HeldInv
  <2> QED BY <2>1, <2>2 DEF HeldInv
<1> QED BY <1>5, <1>6, <1>8, <1>9, <1>11, <1>12 DEF QueueInv

LEMMA MustStep ==
  ASSUME QueueInv, NEW r \in Producers, EnqueueMustDeliver(r)
  PROVE  QueueInv'
<1>1. /\ producer[r] = "check" /\ UNCHANGED <<closed, notified, receiver, count, evicted, received>>
      /\ producer \in [Producers -> ProducerStates] /\ pending \in [Producers -> Item \cup {NoItem}]
  BY DEF EnqueueMustDeliver, QueueInv, TypeOK
<1>2. CASE closed /\ Leave(r) /\ UNCHANGED <<items, permit, accepted>>
  <2>1. /\ producer' = [producer EXCEPT ![r] = "idle"] /\ pending' = [pending EXCEPT ![r] = NoItem]
    BY <1>2 DEF Leave
  <2>2. TypeOK'
    BY <1>1, <1>2, <2>1 DEF QueueInv, TypeOK, ProducerStates, receiver
  <2>3. NoLostSignal'
    BY <1>1, <1>2, <2>1 DEF QueueInv, NoLostSignal, Full, receiver
  <2>4. UNCHANGED <<items, count, history>>
    BY <1>1, <1>2 DEF history
  <2> QED BY <1>1, <2>1, <2>2, <2>3, <2>4, QuietStep DEF Holding
<1>3. CASE /\ ~closed /\ ~Full /\ items' = Append(items, pending[r])
           /\ accepted' = Append(accepted, pending[r]) /\ NotifyOne /\ Leave(r)
  BY <1>1, <1>3, AcceptStep
<1>4. CASE /\ ~closed /\ Full /\ producer' = [producer EXCEPT ![r] = "wait"]
           /\ UNCHANGED <<items, permit, pending, accepted>>
  <2>1. TypeOK'
    BY <1>1, <1>4 DEF QueueInv, TypeOK, ProducerStates, receiver
  <2>2. NoLostSignal'
    BY <1>1, <1>4 DEF QueueInv, NoLostSignal, Full, receiver
  <2>3. UNCHANGED <<items, count, history>>
    BY <1>1, <1>4 DEF history
  <2> QED BY <1>1, <1>4, <2>1, <2>2, <2>3, QuietStep DEF Holding
<1> QED BY <1>2, <1>3, <1>4 DEF EnqueueMustDeliver

(* recv: the front moves from the queue to what was received.  Whoever     *)
(* awaits space is notified, so the space it makes is no lost signal.      *)
LEMMA RecvStep ==
  ASSUME QueueInv, Recv
  PROVE  QueueInv'
<1>1. UNCHANGED <<closed, permit, producer, pending, awoken, count, accepted, evicted>>
  BY DEF Recv
<1>2. CASE /\ items # <<>> /\ received' = Append(received, Head(items)) /\ items' = Tail(items)
           /\ NotifySpace /\ consumer' = "arm"
  <2>1. /\ items' \in Seq(Item) /\ received' \in Seq(Item) /\ Len(items') = Len(items) - 1
        /\ Len(items) \in Nat \ {0} /\ Len(received') = Len(received) + 1 /\ Len(received) \in Nat
    <3>1. Head(items) \in Item /\ Tail(items) \in Seq(Item)
      BY <1>2 DEF QueueInv, TypeOK
    <3> QED BY <1>2, <3>1 DEF QueueInv, TypeOK
  <2>2. Len(items') <= Capacity
    BY <2>1, QueueAssumption DEF QueueInv, TypeOK
  <2>3. notified' \in [Producers -> BOOLEAN]
    BY <1>2 DEF NotifySpace, QueueInv, TypeOK
  <2>4. TypeOK'
    BY <1>1, <1>2, <2>1, <2>2, <2>3 DEF QueueInv, TypeOK, ConsumerStates
  <2>5. NoLostSignal'
    BY <1>1, <1>2 DEF NoLostSignal, NotifySpace
  <2>6. Passed' = Passed
    BY <1>2, TakePassed DEF QueueInv
  <2>7. count' \in Nat /\ count <= count'
    BY <1>1 DEF QueueInv, TypeOK
  <2>8. IdInv' /\ HeldInv'
    BY <1>1, <2>6, <2>7, IdKept, HeldKept
  <2>9. MustDeliverKept' /\ CoalesceInv'
    BY <1>1, <2>1, <2>6, KeptSame, CoalesceSame DEF QueueInv
  <2> QED BY <2>4, <2>5, <2>8, <2>9 DEF QueueInv
<1>3. CASE /\ items = <<>> /\ consumer' \in {"none", "wait"} /\ (consumer' = "wait" => ~closed)
           /\ UNCHANGED <<items, notified, received>>
  <2>1. TypeOK'
    BY <1>1, <1>3 DEF QueueInv, TypeOK, ConsumerStates
  <2>2. NoLostSignal'
    BY <1>1, <1>3 DEF QueueInv, NoLostSignal, Full
  <2>3. UNCHANGED <<items, count, history>>
    BY <1>1, <1>3 DEF history
  <2> QED BY <1>1, <2>1, <2>2, <2>3, QuietStep
<1> QED BY <1>2, <1>3 DEF Recv

(* A reader's steps that touch no entry. *)
LEMMA ReaderStep ==
  ASSUME QueueInv, NEW r \in Producers, Arm(r) \/ SpaceAvailable(r) \/ Abort(r)
  PROVE  QueueInv'
<1>1. /\ producer \in [Producers -> ProducerStates] /\ pending \in [Producers -> Item \cup {NoItem}]
      /\ notified \in [Producers -> BOOLEAN]
  BY DEF QueueInv, TypeOK
<1>2. UNCHANGED <<items, closed, permit, consumer, awoken, count, accepted, evicted, received>>
  BY DEF Arm, SpaceAvailable, Abort, receiver, history
<1>3. UNCHANGED <<items, count, history>>
  BY <1>2 DEF history
<1>4. /\ producer' \in [Producers -> ProducerStates] /\ pending' \in [Producers -> Item \cup {NoItem}]
      /\ notified' \in [Producers -> BOOLEAN] /\ producer'[r] # "wait"
      /\ producer'[r] \in Holding => producer[r] \in Holding /\ pending'[r] = pending[r]
      /\ \A s \in Producers : s # r =>
           producer'[s] = producer[s] /\ pending'[s] = pending[s] /\ notified'[s] = notified[s]
  <2>1. CASE Arm(r)
    BY <1>1, <2>1 DEF Arm, ProducerStates, Holding
  <2>2. CASE SpaceAvailable(r)
    BY <1>1, <2>2 DEF SpaceAvailable, ProducerStates, Holding
  <2>3. CASE Abort(r)
    BY <1>1, <2>3 DEF Abort, ProducerStates, Holding
  <2> QED BY <2>1, <2>2, <2>3
<1>5. TypeOK'
  BY <1>2, <1>4 DEF QueueInv, TypeOK
<1>6. NoLostSignal'
  <2>1. \A s \in Producers : producer'[s] = "wait" /\ ~notified'[s] =>
          producer[s] = "wait" /\ ~notified[s]
    BY <1>4
  <2> QED BY <1>2, <2>1 DEF QueueInv, NoLostSignal, Full
<1>7. \A s \in Producers : producer'[s] \in Holding =>
        producer[s] \in Holding /\ pending'[s] = pending[s]
  BY <1>4
<1> QED BY <1>3, <1>5, <1>6, <1>7, QuietStep

(* The receiver's steps that touch no entry, and close. *)
LEMMA SignalStep ==
  ASSUME QueueInv, RecvArm \/ ItemAvailable \/ Close
  PROVE  QueueInv'
<1>1. UNCHANGED <<items, producer, pending, count, accepted, evicted, received>>
  BY DEF RecvArm, ItemAvailable, Close, producers, history
<1>2. UNCHANGED <<items, count, history>>
  BY <1>1 DEF history
<1>3. TypeOK' /\ NoLostSignal'
  <2>1. CASE RecvArm
    BY <1>1, <2>1 DEF RecvArm, QueueInv, TypeOK, ConsumerStates, NoLostSignal, Full, producers
  <2>2. CASE ItemAvailable
    <3>1. permit' \in BOOLEAN
      BY <2>2 DEF ItemAvailable, QueueInv, TypeOK
    <3> QED BY <1>1, <2>2, <3>1
            DEF ItemAvailable, QueueInv, TypeOK, ConsumerStates, NoLostSignal, Full, producers
  <2>3. CASE Close
    <3>1. notified' \in [Producers -> BOOLEAN] /\ awoken' \in BOOLEAN
      BY <2>3 DEF Close, NotifySpace
    <3>2. TypeOK'
      BY <1>1, <2>3, <3>1 DEF Close, QueueInv, TypeOK
    <3>3. \A s \in Producers : producer'[s] = "wait" => notified'[s]
      BY <1>1, <2>3 DEF Close, NotifySpace
    <3>4. consumer' = "wait" => awoken'
      BY <2>3 DEF Close
    <3> QED BY <3>2, <3>3, <3>4 DEF NoLostSignal
  <2> QED BY <2>1, <2>2, <2>3
<1> QED BY <1>1, <1>2, <1>3, QuietStep

LEMMA QueueStep == QueueInv /\ [Next]_vars => QueueInv'
<1> SUFFICES ASSUME QueueInv, [Next]_vars PROVE QueueInv'
  OBVIOUS
<1>1. CASE UNCHANGED vars
  <2>1. /\ UNCHANGED <<items, count, history, producer, pending, notified, closed, permit, consumer,
                       awoken, accepted, evicted, received>>
    BY <1>1 DEF vars, producers, receiver, history
  <2>2. TypeOK' /\ NoLostSignal'
    BY <2>1 DEF QueueInv, TypeOK, NoLostSignal, Full
  <2> QED BY <2>1, <2>2, QuietStep
<1>2. ASSUME NEW r \in Producers, Enqueue(r) \/ Proceed(r) \/ Abort(r) PROVE QueueInv'
  <2>1. CASE Enqueue(r)
    BY <2>1, ReadStep, DropStep, CoalesceStep DEF Enqueue
  <2>2. CASE Proceed(r)
    BY <2>2, MustStep, ReaderStep DEF Proceed
  <2>3. CASE Abort(r)
    BY <2>3, ReaderStep
  <2> QED BY <1>2, <2>1, <2>2, <2>3
<1>3. CASE Receive \/ Close
  BY <1>3, RecvStep, SignalStep DEF Receive
<1> QED BY <1>1, <1>2, <1>3 DEF Next

---------------------------------------------------------------------------
(* The notification queue keeps its inductive invariant.  The readers'     *)
(* and the receiver's fairness is not used.                                *)
THEOREM QueueInvariant == Spec => []QueueInv
<1>1. Init => QueueInv
  BY QueueInit
<1>2. QueueInv /\ [Next]_vars => QueueInv'
  BY QueueStep
<1> QED BY <1>1, <1>2, PTL DEF Spec

(* enqueue_must_deliver: what the queue accepted is received or queued,    *)
(* once and in order, unless enqueue_drop pushed it out of a full queue;   *)
(* neither a coalesced entry, a blocked reader nor an aborted one takes    *)
(* anything from it.                                                       *)
THEOREM MustDeliverTheorem == Spec => []MustDeliverKept
<1>1. QueueInv => MustDeliverKept
  BY DEF QueueInv
<1> QED BY <1>1, QueueInvariant, PTL

(* enqueue_coalesce: the queue holds one entry of a key, newer than every  *)
(* entry of that key that recv has returned.                               *)
THEOREM CoalescedTheorem == Spec => []CoalescedOnce
<1>1. QueueInv => CoalescedOnce
  <2> SUFFICES ASSUME QueueInv, NEW i \in DOMAIN items, items[i].class = "coalesce"
               PROVE  /\ \A j \in DOMAIN items :
                           items[j].class = "coalesce" /\ items[j].key = items[i].key => i = j
                      /\ \A j \in DOMAIN received :
                           received[j].class = "coalesce" /\ received[j].key = items[i].key =>
                             received[j].id < items[i].id
    BY DEF CoalescedOnce
  <2> DEFINE R == Len(received)
             N == Len(items)
  <2>1. /\ R \in Nat /\ N \in Nat /\ DOMAIN Passed = 1..(R + N)
        /\ \A j \in 1..R : Passed[j] = received[j]
        /\ \A j \in 1..N : Passed[R + j] = items[j]
        /\ DOMAIN items = 1..N /\ DOMAIN received = 1..R
    BY PassedFacts DEF QueueInv, TypeOK
  <2>2. \A j, k \in DOMAIN Passed :
          /\ Passed[j].class = "coalesce" /\ Passed[k].class = "coalesce"
          /\ Passed[j].key = Passed[k].key /\ j < k
          => j <= R /\ Passed[j].id < Passed[k].id
    BY DEF QueueInv, CoalesceInv
  <2> HIDE DEF R, N
  <2>3. ASSUME NEW j \in 1..N, items[j].class = "coalesce", items[j].key = items[i].key PROVE i = j
    <3>1. R + i \in DOMAIN Passed /\ R + j \in DOMAIN Passed /\ ~(R + i <= R) /\ ~(R + j <= R)
      BY <2>1
    <3>2. Passed[R + i] = items[i] /\ Passed[R + j] = items[j]
      BY <2>1
    <3>3. ~(R + i < R + j) /\ ~(R + j < R + i)
      BY <2>2, <2>3, <3>1, <3>2
    <3> QED BY <2>1, <3>3
  <2>4. ASSUME NEW j \in 1..R, received[j].class = "coalesce", received[j].key = items[i].key
        PROVE  received[j].id < items[i].id
    <3>1. j \in DOMAIN Passed /\ R + i \in DOMAIN Passed /\ j < R + i
      BY <2>1
    <3>2. Passed[R + i] = items[i] /\ Passed[j] = received[j]
      BY <2>1
    <3> QED BY <2>2, <2>4, <3>1, <3>2
  <2> QED BY <2>1, <2>3, <2>4
<1> QED BY <1>1, QueueInvariant, PTL

(* enqueue_must_deliver, recv, close: a task that sleeps and was not       *)
(* signalled has nothing to wake for, so the gap between a check and its   *)
(* await loses no wakeup, for any number of readers.                       *)
THEOREM SignalTheorem == Spec => []NoLostSignal
<1>1. QueueInv => NoLostSignal
  BY DEF QueueInv
<1> QED BY <1>1, QueueInvariant, PTL
=============================================================================
