--------------------------- MODULE LoopClientsProofs -------------------------
(***************************************************************************)
(* Proofs about a Thread and the clients of its loop, for all programs,     *)
(* timers, watches, posts, observers and bounds: the types, and what the    *)
(* clients promise never to do. One inductive invariant has a part for the  *)
(* thread and one for each client. A step of a client changes the queue in  *)
(* tasks of one kind only and makes the loop busy with its own tasks only;  *)
(* that is all the parts of the others need to know of it.                  *)
(***************************************************************************)
EXTENDS LoopClients, SequenceLemmas, FiniteSetTheorems, TLAPS

-----------------------------------------------------------------------------
(* The inductive invariant, one part for the thread and one for each client. *)

Queued(kind, id) == Task(kind, id) \in ToSet(queue)

Serving == busy.kind \in {"notifying", "observer", "adding"}

(* The thread and its loop: tasks are posted once; none is left behind when *)
(* the loop is gone; code runs only while the loop does; and the thread     *)
(* leaves the loop only on account of Stop.                                 *)
QueueInv ==
    /\ queue \in Seq(Tasks) /\ IsInjective(queue)
    /\ ~ LoopAlive => queue = <<>>

BusyInv ==
    /\ busy \in {Null, Task("notification", 0)} \union {Task("signal", f) : f \in WeakFlags}
                  \union {Task("relay", r) : r \in Relays}
                  \union {Task(kind, k) : kind \in {"timer", "callback"}, k \in TimerTasks}
                  \union {Task("notifying", n) : n \in Notices}
                  \union {Task(kind, o) : kind \in {"adding", "observer"}, o \in Observers}
    /\ main # "running" => busy = Null

LifeInv ==
    /\ main \in {"none", "created", "running", "idle", "cleaning", "deleting", "telling"}
    /\ quit \in BOOLEAN /\ messageLoop \in BOOLEAN /\ started \in BOOLEAN /\ stopping \in BOOLEAN
    /\ owner \in {"idle", "starting", "joining"}
    /\ messageLoop <=> main \in {"running", "idle", "cleaning"}
    /\ main = "created" => owner = "starting"
    /\ owner = "starting" => ~ started /\ main \in {"created", "running"}
    /\ owner = "joining" => started
    /\ owner = "idle" /\ ~ started => main = "none"
    /\ stopping => started
    /\ started /\ ~ stopping => main = "running"
    /\ quit => stopping /\ main \in {"running", "idle"}
    /\ Queued("quit", 0) => stopping /\ main = "running" /\ ~ quit

(* The watcher: its wait exists as long as the registration; until the      *)
(* notification is posted its flag is in no task, and a notification with   *)
(* the flag in force is of a watch that has fired.                          *)
WatcherInv ==
    /\ registered \in BOOLEAN /\ signaled \in BOOLEAN
    /\ callback \in WeakFlags \union {0} /\ validFlag \in WeakFlags \union {0}
    /\ waitThread \in {"none", "waiting", "posting", "resetting", "done"}
    /\ watch \in {"off", "on", "fired"} /\ watcher \in {"usable", "gone"}
    /\ registered <=> waitThread # "none"
    /\ registered <=> validFlag # 0
    /\ registered => LoopAlive /\ watcher = "usable"
    /\ waitThread = "waiting" <=> watch = "on"
    /\ waitThread \in {"posting", "resetting", "done"} <=> watch = "fired"
    /\ waitThread \in {"waiting", "posting"} =>
         callback = validFlag /\ ~ Queued("signal", callback)
    /\ busy.kind = "signal" => busy.id = validFlag /\ watch = "fired"
                               /\ waitThread \in {"resetting", "done"}

(* The relays and posts: a task in a queue has not run; the tasks that were *)
(* in the queue when the thread was told to stop have run or are ahead of   *)
(* the one that quits.                                                      *)
RelayInv ==
    /\ originAlive \in BOOLEAN /\ originQueue \in Seq(Relays) /\ IsInjective(originQueue)
    /\ relay \in [Relays -> {"unused", "new", "posted", "deleted at once", "task done",
                             "reply posted", "replied", "task lost", "reply lost"}]
    /\ post \in [Posts -> {"unused", "new", "posted", "refused", "done", "deleted"}]
    /\ \A r \in Relays : /\ Queued("relay", r) => relay[r] = "posted"
                         /\ busy = Task("relay", r) => relay[r] = "task done"
                         /\ r \in ToSet(originQueue) => relay[r] = "reply posted"
    /\ \A p \in Posts : Queued("post", p) => post[p] = "posted"

AheadOf(tasks, task, other) ==
    \E i, j \in DOMAIN tasks : i < j /\ tasks[i] = task /\ tasks[j] = other

Served(task) ==
    \/ \E p \in Posts : task = Task("post", p) /\ post[p] = "done"
    \/ \E r \in Relays : /\ task = Task("relay", r)
                         /\ relay[r] \in {"task done", "reply posted", "replied", "reply lost"}

StopInv ==
    /\ beforeStop \subseteq {Task("relay", r) : r \in Relays} \union {Task("post", p) : p \in Posts}
    /\ stopping => \A task \in beforeStop : Served(task) \/ AheadOf(queue, task, Task("quit", 0))

(* The timers: a task that belongs to a timer exists and is the one the     *)
(* timer points to; what is left of a delay and what has passed of it make  *)
(* the whole.                                                               *)
Pending(k) == \E i \in DOMAIN delayed : delayed[i].task = Task("timer", k)

DelayedInv ==
    /\ delayed \in Seq([task : {Task("timer", k) : k \in TimerTasks}, left : Nat])
    /\ \A i, j \in DOMAIN delayed : delayed[i].task = delayed[j].task => i = j
    /\ \A k \in TimerTasks : Pending(k) => busy \notin {Task("timer", k), Task("callback", k)}
    /\ ~ LoopAlive \/ main = "telling" => delayed = <<>>

TimerTypes ==
    /\ timerOf \in [TimerTasks -> Timers \union {NoTimer}]
    /\ delayedTask \in [Timers -> TimerTasks \union {0}]
    /\ period \in [TimerTasks -> Nat]
    /\ usable \subseteq Timers
    /\ waited \in [Timers -> Int] /\ toTrigger \in [Timers -> Int]
    /\ \A t \in Timers : waited[t] \in -1 .. Delay[t] /\ toTrigger[t] \in -1 .. Delay[t]

PairsInv ==
    /\ \A t \in Timers, k \in TimerTasks : delayedTask[t] = k <=> timerOf[k] = t
    /\ \A k \in TimerTasks : timerOf[k] # NoTimer => Pending(k) \/ busy = Task("timer", k)
    /\ \A t \in Timers : IsRunning(t) => t \in usable

DelaysInv ==
    \A t \in Timers : IsRunning(t) =>
        /\ waited[t] \in 0 .. Delay[t] /\ period[delayedTask[t]] \in 1 .. Delay[t]
        /\ Kind[t] = "Delay" => toTrigger[t] + waited[t] = Delay[t]
        /\ Kind[t] # "Delay" =>
             /\ period[delayedTask[t]] = Delay[t]
             /\ busy = Task("timer", delayedTask[t]) => waited[t] = Delay[t]
             /\ \A i \in DOMAIN delayed : delayed[i].task = Task("timer", delayedTask[t]) =>
                  delayed[i].left + waited[t] = Delay[t]

TimerInv == DelayedInv /\ TimerTypes /\ PairsInv /\ DelaysInv

(* The observer list. InUse: the contexts an iteration has the address of.  *)
InUse == {deliveries[i].context : i \in DOMAIN deliveries}
Delivered == {deliveries[i].notice : i \in DOMAIN deliveries}

Iterations == [context : Contexts, index : Nat, notice : Notices, observer : Observers \union {0},
               max : Nat, present : SUBSET Observers, called : SUBSET Observers]

(* Code that runs goes back to where it was: the busy task belongs to the   *)
(* innermost iteration.                                                     *)
StackInv ==
    /\ deliveries \in Seq(Iterations) /\ Len(deliveries) <= MaxNotify
    /\ \A i, j \in DOMAIN deliveries : deliveries[i].notice = deliveries[j].notice => i = j
    /\ \A i \in DOMAIN deliveries : i < Len(deliveries) => deliveries[i].observer # 0
    /\ deliveries # <<>> => Serving
    /\ busy.kind \in {"notifying", "observer"} => deliveries # <<>>
    /\ busy.kind = "notifying" => busy.id = Innermost.notice
    /\ busy.kind \in {"observer", "adding"} /\ deliveries # <<>> => Innermost.observer # 0

(* The lists: no observer is in one twice; one that is not the thread's any *)
(* more has no observer; a slot is empty, or a list without a slot, only    *)
(* while something is going on.                                             *)
ListsInv ==
    /\ entry \in Allocated \union {0} /\ Allocated \subseteq Contexts
    /\ Allocated = ({entry} \ {0}) \union InUse
    /\ entry # 0 => LoopAlive
    /\ \A c \in Allocated :
         /\ observers[c] \in Seq(Observers \union {0}) /\ Len(observers[c]) <= MaxList
         /\ \A i, j \in DOMAIN observers[c] :
              observers[c][i] = observers[c][j] /\ observers[c][i] # 0 => i = j
         /\ c # entry => Listed(c) = {}
         /\ c \notin InUse => 0 \notin ToSet(observers[c])
         /\ observers[c] = <<>> => c = entry /\ busy.kind = "adding"
    /\ busy.kind = "adding" => /\ entry # 0 /\ Len(observers[entry]) < MaxList
                               /\ busy.id \notin Registered

(* The notifications: one that was posted is in the queue, with the context *)
(* it is for, or being delivered; whom it still has to call is registered   *)
(* and ahead of the iteration, whom it has called is behind it.             *)
Slot(o, i) == i \in DOMAIN observers[entry] /\ observers[entry][i] = o

NoticeInv(n) ==
    /\ Queued("notify", n) \/ n \in Delivered => notice[n] = "posted"
    /\ ~ (Queued("notify", n) /\ n \in Delivered)
    /\ Queued("notify", n) => sentTo[n] # 0
    /\ due[n] \subseteq Registered
    /\ due[n] # {} => (Queued("notify", n) /\ sentTo[n] = entry) \/ n \in Delivered

IterationInv(i) ==
    /\ due[deliveries[i].notice] # {} => deliveries[i].context = entry
    /\ deliveries[i].context = entry =>
         /\ deliveries[i].called \subseteq Registered
         /\ \A o \in deliveries[i].called, s \in DOMAIN observers[entry] :
              Slot(o, s) => s <= deliveries[i].index
         /\ \A o \in due[deliveries[i].notice], s \in DOMAIN observers[entry] :
              Slot(o, s) => s > deliveries[i].index /\ s <= deliveries[i].max
         /\ existingOnly =>
              /\ deliveries[i].max <= Len(observers[entry])
              /\ \A s \in DOMAIN observers[entry] :
                   s <= deliveries[i].max /\ observers[entry][s] # 0 =>
                     observers[entry][s] \in deliveries[i].present

NoticesInv ==
    /\ existingOnly \in BOOLEAN
    /\ notice \in [Notices -> {"unused", "new", "posted", "done", "lost"}]
    /\ sentTo \in [Notices -> Contexts \union {0}] /\ due \in [Notices -> SUBSET Observers]
    /\ \A n \in Notices : NoticeInv(n)
    /\ \A i \in DOMAIN deliveries : IterationInv(i)

ObserversInv == StackInv /\ ListsInv /\ NoticesInv

ClientsInv == QueueInv /\ BusyInv /\ LifeInv /\ WatcherInv /\ RelayInv /\ StopInv
                /\ TimerInv /\ ObserversInv

-----------------------------------------------------------------------------
(* Two tasks are one when their kinds and what they are for are the same.   *)
LEMMA TaskParts ==
    /\ \A k, i : Task(k, i).kind = k /\ Task(k, i).id = i
    /\ \A k, i, l, j : Task(k, i) = Task(l, j) <=> k = l /\ i = j
    /\ \A k, i : Null = Task(k, i) <=> k = "none" /\ i = 0
    /\ Null.kind = "none"
BY DEF Task, Null

(* What stands where after an insertion.                                    *)
LEMMA InsertedAt ==
    ASSUME NEW S, NEW s \in Seq(S), NEW e \in S, NEW n \in 1 .. Len(s) + 1
    PROVE  /\ InsertAt(s, n, e) \in Seq(S) /\ DOMAIN InsertAt(s, n, e) = 1 .. Len(s) + 1
           /\ \A i \in 1 .. Len(s) + 1 :
                InsertAt(s, n, e)[i] = IF i < n THEN s[i] ELSE IF i = n THEN e ELSE s[i - 1]
<1> DEFINE left == SubSeq(s, 1, n - 1)
           right == SubSeq(s, n, Len(s))
           r == (left \o <<e>>) \o right
<1>1. Len(s) \in Nat /\ DOMAIN s = 1 .. Len(s)
  OBVIOUS
<1>2. left \in Seq(S) /\ Len(left) = n - 1 /\ \A l \in 1 .. n - 1 : left[l] = s[l]
  BY <1>1
<1>3. /\ right \in Seq(S) /\ Len(right) = Len(s) - n + 1
      /\ \A l \in 1 .. Len(s) - n + 1 : right[l] = s[n + l - 1]
  BY <1>1
<1> HIDE DEF left, right
<1>4. /\ left \o <<e>> \in Seq(S) /\ Len(left \o <<e>>) = n
      /\ (left \o <<e>>)[n] = e /\ \A l \in 1 .. n - 1 : (left \o <<e>>)[l] = s[l]
  BY <1>1, <1>2
<1>5. /\ r \in Seq(S) /\ Len(r) = Len(s) + 1 /\ DOMAIN r = 1 .. Len(s) + 1
      /\ \A l \in 1 .. Len(s) + 1 : r[l] = IF l <= n THEN (left \o <<e>>)[l] ELSE right[l - n]
  <2> DEFINE q == left \o <<e>>
  <2> HIDE DEF q
  <2>1. q \in Seq(S) /\ Len(q) = n
    BY <1>4 DEF q
  <2>2. /\ q \o right \in Seq(S) /\ Len(q \o right) = Len(q) + Len(right)
        /\ \A l \in 1 .. Len(q) + Len(right) :
             (q \o right)[l] = IF l <= Len(q) THEN q[l] ELSE right[l - Len(q)]
    BY <1>3, <2>1, ConcatProperties, ZenonT(30)
  <2>3. Len(q) + Len(right) = Len(s) + 1
    BY <1>1, <1>3, <2>1
  <2>4. r = q \o right
    BY DEF q
  <2> HIDE DEF r
  <2> QED
    BY <2>1, <2>2, <2>3, <2>4 DEF q
<1> HIDE DEF r
<1>6. \A i \in 1 .. Len(s) + 1 : r[i] = IF i < n THEN s[i] ELSE IF i = n THEN e ELSE s[i - 1]
  <2> TAKE i \in 1 .. Len(s) + 1
  <2>1. CASE i < n
    BY <1>1, <1>4, <1>5, <2>1
  <2>2. CASE i = n
    BY <1>1, <1>4, <1>5, <2>2
  <2>3. CASE i > n
    <3>1. i - n \in 1 .. Len(s) - n + 1 /\ n + (i - n) - 1 = i - 1 /\ ~ (i <= n)
      BY <1>1, <2>3
    <3>2. right[i - n] = s[i - 1]
      BY <1>3, <3>1
    <3> QED
      BY <1>1, <1>5, <2>3, <3>1, <3>2
  <2> QED
    BY <1>1, <2>1, <2>2, <2>3
<1> QED
  BY <1>5, <1>6 DEF InsertAt, r, left, right

(* Of the slots of a list: each full one has a place of its own.            *)
LEMMA PlacesOfSlots ==
    ASSUME NEW n \in Nat, NEW full \in SUBSET (1 .. n)
    PROVE  /\ IsFiniteSet(full) /\ Cardinality(full) \in Nat /\ Cardinality(full) <= n
           /\ \A p \in 1 .. Cardinality(full) : \E i \in full : Cardinality({j \in full : j <= i}) = p
           /\ \A i \in full : Cardinality({j \in full : j <= i}) \in 1 .. Cardinality(full)
           /\ \A i, k \in full :
                Cardinality({j \in full : j <= i}) = Cardinality({j \in full : j <= k}) => i = k
<1> DEFINE upTo == [i \in full |-> {j \in full : j <= i}]
           place == [i \in full |-> Cardinality(upTo[i])]
<1>1. /\ IsFiniteSet(1 .. n) /\ Cardinality(1 .. n) = n
  BY FS_Interval
<1>2. IsFiniteSet(full) /\ Cardinality(full) <= n
  BY <1>1, FS_Subset
<1>3. Cardinality(full) \in Nat
  BY <1>2, FS_CardinalityType
<1>4. \A i \in full : upTo[i] \in SUBSET full /\ i \in upTo[i]
  OBVIOUS
<1>5. \A i \in full : IsFiniteSet(upTo[i]) /\ Cardinality(upTo[i]) <= Cardinality(full)
  <2> HIDE DEF upTo
  <2> QED
    BY <1>2, <1>4, FS_Subset
<1>6. \A i \in full : Cardinality(upTo[i]) \in Nat /\ Cardinality(upTo[i]) # 0
  <2> HIDE DEF upTo
  <2>1. \A i \in full : Cardinality(upTo[i]) \in Nat
    BY <1>5, FS_CardinalityType
  <2> QED
    BY <1>4, <1>5, <2>1, FS_EmptySet
<1>7. ASSUME NEW i \in full, NEW k \in full, i < k
      PROVE  Cardinality(upTo[i]) # Cardinality(upTo[k])
  <2>1. \A j \in full : j \in Int
    OBVIOUS
  <2>2. /\ \A j : j \in upTo[i] <=> j \in full /\ j <= i
        /\ \A j : j \in upTo[k] <=> j \in full /\ j <= k
    OBVIOUS
  <2>3. upTo[i] \in SUBSET upTo[k] /\ k \in upTo[k] /\ k \notin upTo[i]
    <3> HIDE DEF upTo
    <3>1. k \in Int /\ i \in Int /\ k <= k /\ ~ (k <= i)
      BY <1>7, <2>1
    <3>2. \A j \in full : j <= i => j <= k
      BY <1>7, <2>1
    <3>3. \A j \in upTo[i] : j \in upTo[k]
      BY <2>2, <3>2
    <3> QED
      BY <2>2, <3>1, <3>3
  <2> HIDE DEF upTo
  <2>4. IsFiniteSet(upTo[k])
    BY <1>5
  <2> QED
    BY <2>3, <2>4, FS_Subset
<1>8. \A i, k \in full : place[i] = place[k] => i = k
  <2> TAKE i, k \in full
  <2>1. place[i] = Cardinality(upTo[i]) /\ place[k] = Cardinality(upTo[k])
    OBVIOUS
  <2>2. i < k \/ i = k \/ k < i
    OBVIOUS
  <2> HIDE DEF upTo, place
  <2> QED
    BY <1>7, <2>1, <2>2
<1>9. place \in Injection(full, 1 .. Cardinality(full))
  <2>1. \A i \in full : place[i] \in 1 .. Cardinality(full)
    <3> HIDE DEF upTo
    <3> QED
      BY <1>3, <1>5, <1>6
  <2>2. place \in [full -> 1 .. Cardinality(full)]
    BY <2>1
  <2> QED
    BY <1>8, <2>2 DEF Injection, IsInjective
<1>10. place \in Surjection(full, 1 .. Cardinality(full))
  <2>1. IsFiniteSet(1 .. Cardinality(full)) /\ Cardinality(1 .. Cardinality(full)) = Cardinality(full)
    BY <1>3, FS_Interval
  <2> HIDE DEF place
  <2> QED
    BY <1>9, <2>1, FS_Injection
<1>11. \A p \in 1 .. Cardinality(full) : \E i \in full : place[i] = p
  <2> HIDE DEF place
  <2> QED
    BY <1>10 DEF Surjection
<1>12. \A i \in full : place[i] \in 1 .. Cardinality(full)
  <2> HIDE DEF upTo
  <2> QED
    BY <1>3, <1>5, <1>6
<1>13. \A i \in full : place[i] = Cardinality({j \in full : j <= i})
  OBVIOUS
<1> HIDE DEF place
<1> QED
  BY <1>2, <1>3, <1>8, <1>11, <1>12, <1>13

(* Compaction keeps the full slots and no other.                            *)
LEMMA CompactedList ==
    ASSUME NEW S, NEW list \in Seq(S),
           \A i, j \in DOMAIN list : list[i] = list[j] /\ list[i] # 0 => i = j
    PROVE  /\ Compacted(list) \in Seq(S) /\ Len(Compacted(list)) <= Len(list)
           /\ Len(Compacted(list)) \in Nat
           /\ ToSet(Compacted(list)) = ToSet(list) \ {0}
           /\ IsInjective(Compacted(list))
           /\ Compacted(list) = <<>> <=> ToSet(list) \ {0} = {}
<1> DEFINE full == {i \in DOMAIN list : list[i] # 0}
           Place(i) == Cardinality({j \in full : j <= i})
           size == Cardinality(full)
           slot == [p \in 1 .. size |-> CHOOSE i \in full : Place(i) = p]
           r == [p \in 1 .. size |-> list[slot[p]]]
<1>1. Len(list) \in Nat /\ DOMAIN list = 1 .. Len(list) /\ \A i \in 1 .. Len(list) : list[i] \in S
  OBVIOUS
<1>2. full \in SUBSET (1 .. Len(list))
  BY <1>1
<1>3. \A i \in 1 .. Len(list) : i \in full <=> list[i] # 0
  BY <1>1
<1> HIDE DEF full
<1>4. /\ size \in Nat /\ size <= Len(list)
      /\ \A p \in 1 .. size : \E i \in full : Place(i) = p
      /\ \A i \in full : Place(i) \in 1 .. size
      /\ \A i, k \in full : Place(i) = Place(k) => i = k
  BY <1>1, <1>2, PlacesOfSlots
<1> HIDE DEF Place, size
<1>5. \A p \in 1 .. size : slot[p] \in full /\ Place(slot[p]) = p
  BY <1>4
<1>6. \A i \in full : slot[Place(i)] = i
  <2> HIDE DEF slot
  <2> QED
    BY <1>4, <1>5
<1> HIDE DEF slot
<1>7. r = Compacted(list)
  BY DEF Compacted, full, Place, size, slot
<1>8. DOMAIN r = 1 .. size /\ \A p \in 1 .. size : r[p] = list[slot[p]]
  OBVIOUS
<1>9. \A p \in 1 .. size : r[p] \in S /\ r[p] # 0
  BY <1>1, <1>2, <1>3, <1>5, <1>8
<1>10. r \in Seq(S) /\ Len(r) = size
  BY <1>4, <1>9
<1> HIDE DEF r
<1>11. ToSet(r) = ToSet(list) \ {0}
  <2>1. \A p \in 1 .. size : slot[p] \in DOMAIN list /\ r[p] = list[slot[p]] /\ r[p] # 0
    BY <1>1, <1>2, <1>5, <1>8, <1>9
  <2>2. \A x \in ToSet(r) : x \in ToSet(list) /\ x # 0
    BY <1>8, <2>1 DEF ToSet
  <2>3. \A x \in ToSet(list) : x # 0 => x \in ToSet(r)
    <3> TAKE x \in ToSet(list)
    <3> HAVE x # 0
    <3>1. PICK i \in 1 .. Len(list) : list[i] = x
      BY <1>1 DEF ToSet
    <3>2. i \in full
      BY <1>3, <3>1
    <3>3. Place(i) \in 1 .. size /\ r[Place(i)] = x
      BY <1>4, <1>6, <1>8, <3>1, <3>2
    <3> QED
      BY <1>8, <3>3 DEF ToSet
  <2> QED
    BY <2>2, <2>3
<1>12. IsInjective(r)
  <2>1. ASSUME NEW p \in 1 .. size, NEW q \in 1 .. size, r[p] = r[q]
        PROVE  p = q
    <3>1. slot[p] \in DOMAIN list /\ slot[q] \in DOMAIN list
      BY <1>1, <1>2, <1>5
    <3>2. list[slot[p]] = list[slot[q]] /\ list[slot[p]] # 0
      BY <1>8, <1>9, <2>1
    <3>3. slot[p] = slot[q]
      BY <3>1, <3>2
    <3> QED
      BY <1>5, <3>3
  <2> QED
    BY <1>8, <2>1 DEF IsInjective
<1>13. r = <<>> <=> ToSet(r) = {}
  <2>1. r = <<>> <=> Len(r) = 0
    BY <1>10
  <2>2. Len(r) # 0 => r[1] \in ToSet(r)
    BY <1>4, <1>8, <1>10 DEF ToSet
  <2>3. Len(r) = 0 => ToSet(r) = {}
    BY <1>8, <1>10 DEF ToSet
  <2> QED
    BY <2>1, <2>2, <2>3
<1> QED
  BY <1>4, <1>7, <1>10, <1>11, <1>12, <1>13

(* A delayed task is put in, and the others stay.                           *)
LEMMA InsertedByRunTime ==
    ASSUME NEW S, NEW tasks \in Seq(S), NEW new \in S
    PROVE  LET r == InsertByRunTime(tasks, new)
           IN  /\ r \in Seq(S)
               /\ ToSet(r) = ToSet(tasks) \union {new}
               /\ IsInjective(tasks) /\ new \notin ToSet(tasks) => IsInjective(r)
<1> DEFINE before == {i \in DOMAIN tasks : tasks[i].left <= new.left}
           n == Cardinality(before) + 1
           r == InsertAt(tasks, n, new)
<1>1. Len(tasks) \in Nat /\ DOMAIN tasks = 1 .. Len(tasks)
  OBVIOUS
<1>2. n \in 1 .. Len(tasks) + 1
  <2>1. before \in SUBSET (1 .. Len(tasks))
    BY <1>1
  <2> HIDE DEF before
  <2>2. Cardinality(before) \in Nat /\ Cardinality(before) <= Len(tasks)
    BY <1>1, <2>1, PlacesOfSlots
  <2> QED
    BY <1>1, <2>2
<1>3. r = InsertByRunTime(tasks, new)
  BY DEF InsertByRunTime
<1> HIDE DEF n
<1>4. /\ r \in Seq(S) /\ DOMAIN r = 1 .. Len(tasks) + 1
      /\ \A i \in 1 .. Len(tasks) + 1 :
           r[i] = IF i < n THEN tasks[i] ELSE IF i = n THEN new ELSE tasks[i - 1]
  BY <1>2, InsertedAt
<1> HIDE DEF r
<1>5. /\ n \in 1 .. Len(tasks) + 1 /\ r[n] = new
      /\ \A i \in 1 .. Len(tasks) : i < n => r[i] = tasks[i]
      /\ \A i \in 1 .. Len(tasks) : i >= n => r[i + 1] = tasks[i]
  BY <1>1, <1>2, <1>4
<1>6. \A i \in 1 .. Len(tasks) + 1 :
         \/ i = n
         \/ i < n /\ i \in 1 .. Len(tasks) /\ r[i] = tasks[i]
         \/ i > n /\ i - 1 \in 1 .. Len(tasks) /\ r[i] = tasks[i - 1]
  BY <1>1, <1>2, <1>4
<1>7. ToSet(r) = ToSet(tasks) \union {new}
  <2>1. \A x \in ToSet(r) : x \in ToSet(tasks) \union {new}
    BY <1>1, <1>4, <1>5, <1>6 DEF ToSet
  <2>2. \A i \in 1 .. Len(tasks) : tasks[i] \in ToSet(r)
    <3> TAKE i \in 1 .. Len(tasks)
    <3>1. i \in DOMAIN r /\ i + 1 \in DOMAIN r
      BY <1>1, <1>4
    <3>2. tasks[i] = r[i] \/ tasks[i] = r[i + 1]
      BY <1>1, <1>2, <1>5
    <3> QED
      BY <3>1, <3>2 DEF ToSet
  <2>3. new \in ToSet(r)
    BY <1>4, <1>5 DEF ToSet
  <2> QED
    BY <1>1, <2>1, <2>2, <2>3 DEF ToSet
<1>8. IsInjective(tasks) /\ new \notin ToSet(tasks) => IsInjective(r)
  <2> HAVE IsInjective(tasks) /\ new \notin ToSet(tasks)
  <2>1. \A i, j \in 1 .. Len(tasks) : tasks[i] = tasks[j] => i = j
    BY <1>1 DEF IsInjective
  <2>2. \A i \in 1 .. Len(tasks) : tasks[i] # new
    BY <1>1 DEF ToSet
  <2>3. ASSUME NEW i \in 1 .. Len(tasks) + 1, NEW j \in 1 .. Len(tasks) + 1, r[i] = r[j]
        PROVE  i = j
    BY <1>1, <1>2, <1>5, <1>6, <2>1, <2>2, <2>3
  <2> QED
    BY <1>4, <2>3 DEF IsInjective
<1> QED
  BY <1>3, <1>4, <1>7, <1>8

-----------------------------------------------------------------------------
(* What a step does to the loop that all the clients share: the tasks of    *)
(* one kind come or go and the others keep their order ...                  *)
OnlyKind(kind) ==
    \A task \in Tasks : task.kind # kind => (task \in ToSet(queue') <=> task \in ToSet(queue))

OrderKept ==
    \A a, b \in Tasks :
        AheadOf(queue, a, b) /\ a \in ToSet(queue') /\ b \in ToSet(queue') => AheadOf(queue', a, b)

(* ... and the busy task stays, or is of kinds that one client uses before  *)
(* and after the step.                                                      *)
OnlyBusy(kinds) ==
    busy' = busy \/ (busy.kind \in kinds \union {"none"} /\ busy'.kind \in kinds \union {"none"})

(* The tasks of the loop, by what they are for.                             *)
LEMMA TasksByKind ==
    /\ Task("quit", 0) \in Tasks
    /\ \A f \in WeakFlags : Task("signal", f) \in Tasks
    /\ \A r \in Relays : Task("relay", r) \in Tasks
    /\ \A p \in Posts : Task("post", p) \in Tasks
    /\ \A n \in Notices : Task("notify", n) \in Tasks
    /\ \A task \in Tasks :
         \/ task = Task("quit", 0)
         \/ \E f \in WeakFlags : task = Task("signal", f)
         \/ \E r \in Relays : task = Task("relay", r)
         \/ \E p \in Posts : task = Task("post", p)
         \/ \E n \in Notices : task = Task("notify", n)
BY DEF Tasks

(* A step that leaves the queue alone.                                      *)
LEMMA QueueStays ==
    ASSUME NEW kind, queue' = queue
    PROVE  OnlyKind(kind) /\ OrderKept
BY DEF OnlyKind, OrderKept

(* A task that was not in the queue is posted: the queue holds it once.     *)
LEMMA TaskPosted ==
    ASSUME QueueInv, NEW task \in Tasks, task \notin ToSet(queue),
           queue' = Append(queue, task), LoopAlive'
    PROVE  /\ QueueInv' /\ OnlyKind(task.kind) /\ OrderKept
           /\ ToSet(queue') = ToSet(queue) \union {task}
<1>1. queue \in Seq(Tasks) /\ IsInjective(queue)
  BY DEF QueueInv
<1>2. /\ Append(queue, task) \in Seq(Tasks)
      /\ ToSet(Append(queue, task)) = ToSet(queue) \union {task}
      /\ IsInjective(Append(queue, task))
  BY <1>1, PushedOnto
<1>3. QueueInv'
  BY <1>2 DEF QueueInv
<1>4. OnlyKind(task.kind)
  BY <1>2 DEF OnlyKind
<1>5. \A i \in DOMAIN queue : i \in DOMAIN queue' /\ queue'[i] = queue[i]
  BY <1>1
<1>6. OrderKept
  BY <1>5 DEF OrderKept, AheadOf
<1> QED
  BY <1>2, <1>3, <1>4, <1>6

(* The loop takes the next task off the queue.                              *)
LEMMA TaskTaken ==
    ASSUME QueueInv, queue # <<>>, queue' = Tail(queue), LoopAlive'
    PROVE  /\ QueueInv' /\ OnlyKind(NextTask.kind) /\ OrderKept
           /\ NextTask \in Tasks /\ NextTask \in ToSet(queue) /\ NextTask \notin ToSet(queue')
           /\ ToSet(queue) = ToSet(queue') \union {NextTask}
<1>1. queue \in Seq(Tasks) /\ IsInjective(queue)
  BY DEF QueueInv
<1>2. /\ NextTask \in Tasks /\ Tail(queue) \in Seq(Tasks)
      /\ ToSet(queue) = {NextTask} \union ToSet(Tail(queue))
      /\ IsInjective(Tail(queue)) /\ NextTask \notin ToSet(Tail(queue))
  BY <1>1, TakenOff DEF NextTask
<1>3. QueueInv'
  BY <1>2 DEF QueueInv
<1>4. OnlyKind(NextTask.kind)
  BY <1>2 DEF OnlyKind
<1>5. \A i \in DOMAIN queue : i = 1 \/ (i - 1 \in DOMAIN queue' /\ queue'[i - 1] = queue[i])
  BY <1>1
<1>6. queue[1] = NextTask /\ DOMAIN queue \subseteq Int
  BY <1>1 DEF NextTask
<1>7. ASSUME NEW a \in Tasks, NEW b \in Tasks, AheadOf(queue, a, b), a \in ToSet(queue')
      PROVE  AheadOf(queue', a, b)
  <2>1. PICK i \in DOMAIN queue, j \in DOMAIN queue : i < j /\ queue[i] = a /\ queue[j] = b
    BY <1>7 DEF AheadOf
  <2>2. i # 1
    BY <1>2, <1>6, <1>7, <2>1
  <2>3. j # 1
    BY <1>1, <2>1
  <2>4. /\ i - 1 \in DOMAIN queue' /\ queue'[i - 1] = a
        /\ j - 1 \in DOMAIN queue' /\ queue'[j - 1] = b
    BY <1>5, <2>1, <2>2, <2>3
  <2>5. i - 1 < j - 1
    BY <1>6, <2>1
  <2> QED
    BY <2>4, <2>5 DEF AheadOf
<1>8. OrderKept
  BY <1>7 DEF OrderKept
<1> QED
  BY <1>2, <1>3, <1>4, <1>8

(* The parts of the invariant that a step of another client leaves alone.   *)
LEMMA LifeKept ==
    ASSUME LifeInv, NEW kind, kind # "quit", OnlyKind(kind), UNCHANGED <<mainVars, ownerVars>>
    PROVE  LifeInv'
<1>1. Queued("quit", 0)' <=> Queued("quit", 0)
  BY TasksByKind, TaskParts DEF OnlyKind, Queued
<1> QED
  BY <1>1 DEF LifeInv, mainVars, ownerVars

(* The watcher: the queue has its notifications, the loop is there.         *)
LEMMA WatcherKept ==
    ASSUME WatcherInv, NEW kind, kind # "signal", OnlyKind(kind),
           NEW kinds, "signal" \notin kinds, OnlyBusy(kinds),
           registered /\ LoopAlive => LoopAlive', UNCHANGED watcherVars
    PROVE  WatcherInv'
<1>1. \A f \in WeakFlags : Queued("signal", f)' <=> Queued("signal", f)
  BY TasksByKind, TaskParts DEF OnlyKind, Queued
<1>2. busy'.kind = "signal" => busy' = busy
  BY DEF OnlyBusy
<1>3. waitThread \in {"waiting", "posting"} => callback \in WeakFlags
  BY DEF WatcherInv
<1>4. waitThread' \in {"waiting", "posting"} =>
        callback' = validFlag' /\ ~ Queued("signal", callback)'
  <2> HAVE waitThread' \in {"waiting", "posting"}
  <2>1. callback' = callback /\ validFlag' = validFlag /\ waitThread' = waitThread
    BY DEF watcherVars
  <2>2. callback = validFlag /\ ~ Queued("signal", callback)
    BY <2>1 DEF WatcherInv
  <2> QED
    BY <1>1, <1>3, <2>1, <2>2 DEF Queued
<1> QED
  BY <1>2, <1>4 DEF WatcherInv, watcherVars

(* The relays and posts: those in the queue are the ones there were.        *)
LEMMA RelayKept ==
    ASSUME RelayInv, NEW kind, kind \notin {"relay", "post"}, OnlyKind(kind),
           NEW kinds, "relay" \notin kinds, OnlyBusy(kinds),
           UNCHANGED <<relay, post, originVars>>
    PROVE  RelayInv'
<1>1. /\ \A r \in Relays : Queued("relay", r)' <=> Queued("relay", r)
      /\ \A p \in Posts : Queued("post", p)' <=> Queued("post", p)
  BY TasksByKind, TaskParts DEF OnlyKind, Queued
<1>2. \A r \in Relays : busy' = Task("relay", r) => busy' = busy
  BY TaskParts DEF OnlyBusy
<1> QED
  BY <1>1, <1>2 DEF RelayInv, originVars

(* The tasks that Stop waits for have run or are ahead of the quit task.    *)
LEMMA StopKept ==
    ASSUME StopInv, NEW kind, kind \notin {"relay", "post", "quit"}, OnlyKind(kind), OrderKept,
           UNCHANGED <<stopping, beforeStop>>,
           \A task \in beforeStop : Served(task) => Served(task)'
    PROVE  StopInv'
<1>1. ASSUME NEW task \in beforeStop, AheadOf(queue, task, Task("quit", 0))
      PROVE  AheadOf(queue', task, Task("quit", 0))
  <2>1. task \in Tasks /\ task.kind \in {"relay", "post"}
    BY TasksByKind, TaskParts DEF StopInv
  <2>2. task \in ToSet(queue) /\ Task("quit", 0) \in ToSet(queue)
    BY <1>1 DEF AheadOf, ToSet
  <2>3. task \in ToSet(queue')
    BY <2>1, <2>2 DEF OnlyKind
  <2>4. Task("quit", 0) \in Tasks /\ Task("quit", 0) \in ToSet(queue')
    BY <2>2, TasksByKind, TaskParts DEF OnlyKind
  <2> QED
    BY <1>1, <2>1, <2>3, <2>4 DEF OrderKept
<1> QED
  BY <1>1 DEF StopInv

(* The timers: their tasks are delayed, or the busy task, as before.        *)
LEMMA TimersKept ==
    ASSUME TimerInv, NEW kinds, "timer" \notin kinds, "callback" \notin kinds, OnlyBusy(kinds),
           (~ LoopAlive \/ main = "telling")' => ~ LoopAlive \/ main = "telling" \/ delayed = <<>>,
           UNCHANGED <<delayed, timerVars>>
    PROVE  TimerInv'
<1>1. \A k : /\ busy' = Task("timer", k) <=> busy = Task("timer", k)
             /\ busy' = Task("callback", k) <=> busy = Task("callback", k)
  BY TaskParts DEF OnlyBusy
<1>2. DelayedInv'
  <2>1. \A k \in TimerTasks : Pending(k)' => Pending(k)
    BY DEF Pending
  <2>2. (~ LoopAlive \/ main = "telling")' => delayed' = <<>>
    BY DEF TimerInv, DelayedInv
  <2>3. \A k \in TimerTasks : Pending(k)' => busy' \notin {Task("timer", k), Task("callback", k)}
    BY <1>1, <2>1 DEF TimerInv, DelayedInv
  <2>4. /\ delayed' \in Seq([task : {Task("timer", k) : k \in TimerTasks}, left : Nat])
        /\ \A i, j \in DOMAIN delayed' : delayed'[i].task = delayed'[j].task => i = j
    BY DEF TimerInv, DelayedInv
  <2> QED
    BY <2>2, <2>3, <2>4 DEF DelayedInv
<1>3. TimerTypes'
  BY DEF TimerInv, TimerTypes, timerVars
<1>4. PairsInv'
  <2>1. \A k \in TimerTasks : Pending(k)' <=> Pending(k)
    BY DEF Pending
  <2> QED
    BY <1>1, <2>1 DEF TimerInv, PairsInv, timerVars, IsRunning
<1>5. DelaysInv'
  BY <1>1 DEF TimerInv, DelaysInv, timerVars, IsRunning
<1> QED
  BY <1>2, <1>3, <1>4, <1>5 DEF TimerInv

(* The queue, for the observer list: its notifications are those it was.    *)
LEMMA ObserversKept ==
    ASSUME ObserversInv, NEW kind, kind # "notify", OnlyKind(kind),
           NEW kinds, OnlyBusy(kinds), kinds \cap {"notifying", "observer", "adding"} = {},
           entry # 0 /\ LoopAlive => LoopAlive', UNCHANGED observerVars
    PROVE  ObserversInv'
<1>1. \A n \in Notices : Queued("notify", n)' <=> Queued("notify", n)
  BY TasksByKind, TaskParts DEF OnlyKind, Queued
<1>2. /\ busy'.kind = "notifying" <=> busy.kind = "notifying"
      /\ busy'.kind = "observer" <=> busy.kind = "observer"
      /\ busy'.kind = "adding" <=> busy.kind = "adding"
      /\ Serving => busy' = busy
  BY DEF OnlyBusy, Serving
<1>3. StackInv'
  BY <1>2 DEF ObserversInv, StackInv, observerVars, Serving, Innermost
<1>4. ListsInv'
  <2>1. Allocated' = Allocated /\ InUse' = InUse /\ Registered' = Registered
    BY DEF observerVars, Allocated, InUse, Registered, Listed
  <2>2. \A c : Listed(c)' = Listed(c)
    BY DEF observerVars, Listed
  <2>3. busy.kind = "adding" => busy' = busy
    BY <1>2 DEF Serving
  <2> QED
    BY <1>2, <2>1, <2>2, <2>3 DEF ObserversInv, ListsInv, observerVars
<1>5. NoticesInv'
  <2>1. Delivered' = Delivered /\ Registered' = Registered
    BY DEF observerVars, Delivered, Registered, Listed
  <2>2. \A o, s : Slot(o, s)' = Slot(o, s)
    BY DEF observerVars, Slot
  <2> QED
    BY <1>1, <2>1, <2>2 DEF ObserversInv, NoticesInv, NoticeInv, IterationInv, observerVars
<1> QED
  BY <1>3, <1>4, <1>5 DEF ObserversInv

-----------------------------------------------------------------------------
(* The watcher.                                                             *)
LEMMA WatchStopped ==
    ASSUME WatcherInv, StopWatching, UNCHANGED <<callback, signaled>>,
           watcher' \in {watcher, "gone"}, busy'.kind # "signal"
    PROVE  WatcherInv'
<1>1. ~ registered' /\ validFlag' = 0 /\ watch' = "off" /\ waitThread' = "none"
  <2>1. CASE registered
    BY <2>1 DEF StopWatching, NoCallbackInFlight, WatcherInv
  <2>2. CASE ~ registered
    BY <2>2 DEF StopWatching, WatcherInv
  <2> QED
    BY <2>1, <2>2
<1> QED
  BY <1>1 DEF WatcherInv, StopWatching

(* The loop takes a notification of the watcher, valid or not.              *)
LEMMA TakeSignalStep ==
    ASSUME QueueInv, BusyInv, WatcherInv, OfWatcher(TakeSignal)
    PROVE  /\ QueueInv' /\ BusyInv' /\ WatcherInv'
           /\ OnlyKind("signal") /\ OrderKept /\ OnlyBusy({"signal", "notification"})
<1> USE DEF OfWatcher, TakeSignal, TakeTask, Idle, mainVars, watcherVars
<1>1. LoopAlive'
  BY DEF LoopAlive
<1>2. /\ QueueInv' /\ OnlyKind("signal") /\ OrderKept
      /\ NextTask \in Tasks /\ NextTask \in ToSet(queue) /\ NextTask.kind = "signal"
      /\ ToSet(queue) = ToSet(queue') \union {NextTask}
  BY <1>1, TaskTaken
<1>3. PICK f \in WeakFlags : NextTask = Task("signal", f)
  BY <1>2, TasksByKind, TaskParts
<1>4. busy = Null /\ (busy' = Null \/ (busy' = NextTask /\ f = validFlag))
  BY <1>3, TaskParts DEF Valid
<1>5. BusyInv'
  BY <1>3, <1>4 DEF BusyInv
<1>6. OnlyBusy({"signal", "notification"})
  BY <1>3, <1>4, TaskParts DEF OnlyBusy
<1>7. WatcherInv'
  <2>1. Queued("signal", callback)' => Queued("signal", callback)
    BY <1>2 DEF Queued
  <2>2. Queued("signal", f)
    BY <1>2, <1>3 DEF Queued
  <2>3. f = validFlag => waitThread \in {"resetting", "done"} /\ watch = "fired"
    <3>1. f # 0
      BY WeakFlagsAssumption
    <3>2. f = validFlag => waitThread # "none" /\ waitThread \notin {"waiting", "posting"}
      BY <2>2, <3>1 DEF WatcherInv
    <3> QED
      BY <3>2 DEF WatcherInv
  <2>4. busy'.kind = "signal" => busy'.id = validFlag /\ f = validFlag
    BY <1>3, <1>4, TaskParts
  <2>5. LoopAlive' <=> LoopAlive
    BY DEF LoopAlive
  <2>6. waitThread' \in {"waiting", "posting"} =>
          callback' = validFlag' /\ ~ Queued("signal", callback)'
    BY <2>1 DEF WatcherInv
  <2> QED
    BY <2>3, <2>4, <2>5, <2>6 DEF WatcherInv
<1> QED
  BY <1>2, <1>5, <1>6, <1>7

(* The notification is given to the delegate, and the delegate returns.     *)
LEMMA NotificationSteps ==
    ASSUME QueueInv, BusyInv, WatcherInv, OfWatcher(NotifyDelegate \/ FinishNotification)
    PROVE  /\ QueueInv' /\ BusyInv' /\ WatcherInv'
           /\ OnlyKind("signal") /\ OrderKept /\ OnlyBusy({"signal", "notification"})
<1> USE DEF OfWatcher, NotifyDelegate, FinishNotification, mainVars
<1>1. /\ main = "running" /\ busy.kind \in {"signal", "notification"} /\ main' = main
      /\ busy' \in {Null, Task("notification", 0)} /\ queue' = queue
  OBVIOUS
<1>2. QueueInv' /\ OnlyKind("signal") /\ OrderKept
  BY <1>1, QueueStays DEF QueueInv, LoopAlive
<1>3. BusyInv'
  BY <1>1 DEF BusyInv
<1>4. busy'.kind \in {"none", "notification"}
  BY <1>1, TaskParts
<1>5. OnlyBusy({"signal", "notification"})
  BY <1>1, <1>4 DEF OnlyBusy
<1>6. CASE NotifyDelegate
  <2>1. StopWatching /\ UNCHANGED <<callback, signaled>> /\ watcher' \in {watcher, "gone"}
    BY <1>6
  <2>2. busy'.kind # "signal"
    BY <1>4
  <2> QED
    BY <1>2, <1>3, <1>5, <2>1, <2>2, WatchStopped
<1>7. CASE FinishNotification
  <2>1. OnlyKind("none") /\ UNCHANGED watcherVars /\ (LoopAlive' <=> LoopAlive)
    BY <1>1, <1>7, QueueStays DEF LoopAlive
  <2>2. OnlyBusy({"notification"})
    BY <1>4, <1>7, TaskParts DEF OnlyBusy
  <2>3. "none" # "signal" /\ "signal" \notin {"notification"}
    OBVIOUS
  <2> QED
    BY <1>2, <1>3, <1>5, <2>1, <2>2, <2>3, WatcherKept
<1> QED
  BY <1>2, <1>3, <1>5, <1>6, <1>7

(* The program starts, stops and destroys the watcher; the object changes.  *)
LEMMA WatcherCalls ==
    ASSUME QueueInv, BusyInv, WatcherInv, OfWatcher(WatcherCall \/ ObjectChanges)
    PROVE  /\ QueueInv' /\ BusyInv' /\ WatcherInv'
           /\ OnlyKind("signal") /\ OrderKept /\ OnlyBusy({"signal", "notification"})
<1>1. UNCHANGED threadVars
  BY DEF OfWatcher, WatcherCall, ObjectChanges
<1>2. queue' = queue /\ busy' = busy /\ main' = main
  BY <1>1 DEF threadVars, loopVars, mainVars
<1>3. QueueInv' /\ BusyInv' /\ OnlyKind("signal") /\ OrderKept /\ OnlyBusy({"signal", "notification"})
  BY <1>2, QueueStays DEF QueueInv, BusyInv, OnlyBusy, LoopAlive
<1>4. (LoopAlive' <=> LoopAlive) /\ \A f : Queued("signal", f)' <=> Queued("signal", f)
  BY <1>2 DEF LoopAlive, Queued
<1>5. CASE StartWatching
  <2>1. PICK flag \in WeakFlags \ UsedFlags : callback' = flag /\ validFlag' = flag
    BY <1>5 DEF StartWatching
  <2>2. ~ Queued("signal", flag)
    <3>1. ASSUME NEW i \in DOMAIN queue, queue[i] = Task("signal", flag)
          PROVE  FALSE
      <4>1. queue[i].kind = "signal" /\ queue[i].id = flag
        BY <3>1, TaskParts
      <4>2. flag \in UsedFlags
        BY <4>1 DEF UsedFlags
      <4> QED
        BY <2>1, <4>2
    <3> QED
      BY <3>1 DEF Queued, ToSet
  <2>3. flag \in WeakFlags /\ flag # 0
    BY WeakFlagsAssumption
  <2>4. LoopAlive
    BY <1>5 DEF StartWatching, ProgramRuns, LoopAlive
  <2>5. busy'.kind # "signal"
    BY <1>2, <1>5 DEF StartWatching, ProgramRuns
  <2>6. ~ Queued("signal", callback)'
    BY <1>2, <2>1, <2>2 DEF Queued
  <2>7. /\ registered' = TRUE /\ waitThread' = "waiting" /\ watch' = "on" /\ watcher = "usable"
        /\ watcher' = watcher /\ signaled' = signaled
    BY <1>5 DEF StartWatching
  <2>8. WatcherInv'
    BY <1>4, <2>1, <2>3, <2>4, <2>5, <2>6, <2>7 DEF WatcherInv
  <2> QED
    BY <1>3, <2>8
<1>6. CASE ProgramStopsWatching \/ DestroyWatcher
  <2>1. busy.kind # "signal"
    BY <1>6, TaskParts DEF ProgramStopsWatching, DestroyWatcher, ProgramRuns, BusyInv
  <2>2. StopWatching /\ UNCHANGED <<callback, signaled>> /\ watcher' \in {watcher, "gone"}
    BY <1>6 DEF ProgramStopsWatching, DestroyWatcher
  <2> QED
    BY <1>2, <1>3, <2>1, <2>2, WatchStopped
<1>7. CASE ObjectChanges
  <2>1. UNCHANGED <<registered, waitThread, callback, validFlag, watcher, watch>> /\ signaled' \in BOOLEAN
    BY <1>7 DEF ObjectChanges, WatcherInv
  <2>2. \A f : Queued("signal", f)' <=> Queued("signal", f)
    BY <1>4
  <2>3. busy' = busy /\ (LoopAlive' <=> LoopAlive)
    BY <1>2, <1>4
  <2>4. waitThread' \in {"waiting", "posting"} =>
          callback' = validFlag' /\ ~ Queued("signal", callback)'
    BY <1>2, <2>1 DEF WatcherInv, Queued
  <2>5. WatcherInv'
    BY <2>1, <2>3, <2>4 DEF WatcherInv
  <2> QED
    BY <1>3, <2>5
<1> QED
  BY <1>3, <1>5, <1>6, <1>7 DEF OfWatcher, WatcherCall

(* The system's wait ends, posts to the loop and resets the callback.       *)
LEMMA WaitThreadSteps ==
    ASSUME QueueInv, BusyInv, WatcherInv, SystemStep
    PROVE  /\ QueueInv' /\ BusyInv' /\ WatcherInv'
           /\ OnlyKind("signal") /\ OrderKept /\ OnlyBusy({"signal", "notification"})
<1>1. busy' = busy /\ main' = main /\ UNCHANGED <<registered, validFlag, watcher, signaled>>
  BY DEF SystemStep, OfWatcher, WaitThreadStep, WaitEnds, DoneWaitingPosts, DoneWaitingResets,
         threadVars, loopVars, mainVars
<1>2. BusyInv' /\ OnlyBusy({"signal", "notification"}) /\ (LoopAlive' <=> LoopAlive)
  BY <1>1 DEF BusyInv, OnlyBusy, LoopAlive
<1>3. CASE WaitEnds \/ DoneWaitingResets
  <2>1. queue' = queue
    BY <1>3 DEF WaitEnds, DoneWaitingResets, threadVars, loopVars
  <2>2. QueueInv' /\ OnlyKind("signal") /\ OrderKept
    BY <1>1, <2>1, QueueStays DEF QueueInv, LoopAlive
  <2>3. CASE WaitEnds
    <3>1. waitThread = "waiting" /\ waitThread' = "posting" /\ watch' = "fired" /\ callback' = callback
      BY <2>3 DEF WaitEnds
    <3>2. Queued("signal", callback)' <=> Queued("signal", callback)
      BY <2>1, <3>1 DEF Queued
    <3>3. WatcherInv'
      BY <1>1, <1>2, <3>1, <3>2 DEF WatcherInv
    <3> QED
      BY <1>2, <2>2, <3>3
  <2>4. CASE DoneWaitingResets
    <3>1. waitThread = "resetting" /\ waitThread' = "done" /\ watch' = watch /\ callback' = 0
      BY <2>4 DEF DoneWaitingResets
    <3>2. WatcherInv'
      BY <1>1, <1>2, <3>1 DEF WatcherInv
    <3> QED
      BY <1>2, <2>2, <3>2
  <2> QED
    BY <1>3, <2>3, <2>4
<1>4. CASE DoneWaitingPosts
  <2>1. /\ waitThread = "posting" /\ waitThread' = "resetting" /\ watch' = watch /\ callback' = callback
        /\ queue' = Append(queue, Task("signal", callback))
    BY <1>4 DEF DoneWaitingPosts, PostTask
  <2>2. callback \in WeakFlags /\ ~ Queued("signal", callback) /\ LoopAlive
    BY <2>1 DEF WatcherInv
  <2>3. Task("signal", callback) \in Tasks /\ Task("signal", callback) \notin ToSet(queue)
        /\ Task("signal", callback).kind = "signal"
    BY <2>2, TasksByKind, TaskParts DEF Queued
  <2>4. QueueInv' /\ OnlyKind("signal") /\ OrderKept
    BY <1>2, <2>1, <2>2, <2>3, TaskPosted
  <2>5. WatcherInv'
    BY <1>1, <1>2, <2>1 DEF WatcherInv
  <2> QED
    BY <1>2, <2>4, <2>5
<1> QED
  BY <1>3, <1>4 DEF SystemStep, OfWatcher, WaitThreadStep

-----------------------------------------------------------------------------
(* The relays and the posts.                                                *)
LEMMA StopKeptBy ==
    ASSUME StopInv, OrderKept, UNCHANGED <<stopping, beforeStop>>,
           Task("quit", 0) \in ToSet(queue) => Task("quit", 0) \in ToSet(queue'),
           \A task \in beforeStop :
               /\ Served(task) => Served(task)'
               /\ task \in ToSet(queue) => task \in ToSet(queue') \/ Served(task)'
    PROVE  StopInv'
<1>1. ASSUME NEW task \in beforeStop, AheadOf(queue, task, Task("quit", 0))
      PROVE  AheadOf(queue', task, Task("quit", 0)) \/ Served(task)'
  <2>1. task \in Tasks /\ Task("quit", 0) \in Tasks
    BY TasksByKind DEF StopInv
  <2>2. task \in ToSet(queue) /\ Task("quit", 0) \in ToSet(queue)
    BY <1>1 DEF AheadOf, ToSet
  <2> QED
    BY <1>1, <2>1, <2>2 DEF OrderKept
<1> QED
  BY <1>1 DEF StopInv

(* A posted task runs.                                                      *)
LEMMA RunPostStep ==
    ASSUME QueueInv, BusyInv, RelayInv, StopInv, OfRelays(RunPost)
    PROVE  /\ QueueInv' /\ BusyInv' /\ RelayInv' /\ StopInv'
           /\ OnlyKind("post") /\ OrderKept /\ OnlyBusy({"relay"})
<1>1. /\ main = "running" /\ main' = main /\ busy' = busy /\ stopping' = stopping
      /\ relay' = relay /\ beforeStop' = beforeStop /\ UNCHANGED originVars
      /\ queue # <<>> /\ queue' = Tail(queue) /\ NextTask.kind = "post"
      /\ post' = [post EXCEPT ![NextTask.id] = "done"]
  BY DEF OfRelays, RunPost, TakeTask, Idle, mainVars, ownerVars
<1>2. LoopAlive'
  BY <1>1 DEF LoopAlive
<1>3. /\ QueueInv' /\ OnlyKind("post") /\ OrderKept
      /\ NextTask \in Tasks /\ NextTask \notin ToSet(queue')
      /\ ToSet(queue) = ToSet(queue') \union {NextTask}
  BY <1>1, <1>2, TaskTaken
<1>4. PICK p \in Posts : NextTask = Task("post", p)
  BY <1>1, <1>3, TasksByKind, TaskParts
<1>5. BusyInv' /\ OnlyBusy({"relay"})
  <2>1. busy' = busy /\ main' = main
    BY <1>1
  <2> QED
    BY <2>1 DEF BusyInv, OnlyBusy
<1>6. post' = [post EXCEPT ![p] = "done"]
  BY <1>1, <1>4, TaskParts
<1>7. RelayInv'
  <2>1. \A q \in Posts : Queued("post", q)' => Queued("post", q) /\ q # p
    BY <1>3, <1>4, TaskParts DEF Queued
  <2>2. \A r \in Relays : Queued("relay", r)' => Queued("relay", r)
    BY <1>3 DEF Queued
  <2>3. /\ post' \in [Posts -> {"unused", "new", "posted", "refused", "done", "deleted"}]
        /\ \A q \in Posts : q # p => post'[q] = post[q]
    BY <1>6 DEF RelayInv
  <2>4. UNCHANGED <<busy, relay, originAlive, originQueue>>
    BY <1>1 DEF originVars
  <2> QED
    BY <2>1, <2>2, <2>3, <2>4 DEF RelayInv
<1>8. \A task : Served(task) => Served(task)'
  <2>1. \A q \in Posts : post[q] = "done" => post'[q] = "done"
    BY <1>6 DEF RelayInv
  <2> QED
    BY <1>1, <2>1 DEF Served
<1>9. Served(Task("post", p))'
  <2>1. post'[p] = "done"
    BY <1>6 DEF RelayInv
  <2> QED
    BY <2>1 DEF Served
<1>10. StopInv'
  <2>1. Task("quit", 0) \in ToSet(queue) => Task("quit", 0) \in ToSet(queue')
    BY <1>3, <1>4, TaskParts
  <2>2. \A task \in beforeStop : task \in ToSet(queue) => task \in ToSet(queue') \/ Served(task)'
    BY <1>3, <1>4, <1>9
  <2> QED
    BY <1>1, <1>3, <1>8, <2>1, <2>2, StopKeptBy
<1> QED
  BY <1>3, <1>5, <1>7, <1>10

(* The task of a relay runs.                                                *)
LEMMA RunRelayTaskStep ==
    ASSUME QueueInv, BusyInv, RelayInv, StopInv, OfRelays(RunRelayTask)
    PROVE  /\ QueueInv' /\ BusyInv' /\ RelayInv' /\ StopInv'
           /\ OnlyKind("relay") /\ OrderKept /\ OnlyBusy({"relay"})
<1>1. /\ main = "running" /\ main' = main /\ busy = Null /\ busy' = NextTask
      /\ post' = post /\ beforeStop' = beforeStop /\ UNCHANGED originVars /\ stopping' = stopping
      /\ queue # <<>> /\ queue' = Tail(queue) /\ NextTask.kind = "relay"
      /\ relay' = [relay EXCEPT ![NextTask.id] = "task done"]
  BY DEF OfRelays, RunRelayTask, TakeTask, Idle, mainVars, ownerVars
<1>2. LoopAlive'
  BY <1>1 DEF LoopAlive
<1>3. /\ QueueInv' /\ OnlyKind("relay") /\ OrderKept
      /\ NextTask \in Tasks /\ NextTask \in ToSet(queue) /\ NextTask \notin ToSet(queue')
      /\ ToSet(queue) = ToSet(queue') \union {NextTask}
  BY <1>1, <1>2, TaskTaken
<1>4. PICK r \in Relays : NextTask = Task("relay", r)
  <2>1. NextTask.kind = "relay" /\ NextTask \in Tasks
    BY <1>1, <1>3
  <2> QED
    BY <2>1, TasksByKind, TaskParts
<1>5. BusyInv'
  <2>1. busy' = Task("relay", r) /\ main' = "running"
    BY <1>1, <1>4
  <2> QED
    BY <2>1 DEF BusyInv
<1>6. OnlyBusy({"relay"})
  BY <1>1, TaskParts DEF OnlyBusy
<1>7. relay' = [relay EXCEPT ![r] = "task done"] /\ relay[r] = "posted"
  <2>1. NextTask.id = r
    BY <1>4, TaskParts
  <2>2. relay[r] = "posted"
    BY <1>3, <1>4 DEF RelayInv, Queued
  <2> QED
    BY <1>1, <2>1, <2>2
<1>8. /\ relay'[r] = "task done" /\ \A s \in Relays : s # r => relay'[s] = relay[s]
      /\ relay' \in [Relays -> {"unused", "new", "posted", "deleted at once", "task done",
                                "reply posted", "replied", "task lost", "reply lost"}]
  BY <1>7 DEF RelayInv
<1>9. RelayInv'
  <2>1. \A s \in Relays : Queued("relay", s)' => Queued("relay", s) /\ s # r
    BY <1>3, <1>4, TaskParts DEF Queued
  <2>2. \A p \in Posts : Queued("post", p)' => Queued("post", p)
    BY <1>3 DEF Queued
  <2>3. \A s \in Relays : busy' = Task("relay", s) => s = r
    <3>1. busy' = Task("relay", r)
      BY <1>1, <1>4
    <3> QED
      BY <3>1, TaskParts
  <2>4. r \notin ToSet(originQueue)
    BY <1>7 DEF RelayInv
  <2>5. UNCHANGED <<post, originAlive, originQueue>>
    BY <1>1 DEF originVars
  <2> QED
    BY <1>8, <2>1, <2>2, <2>3, <2>4, <2>5 DEF RelayInv
<1>10. \A task : Served(task) => Served(task)'
  BY <1>1, <1>7, <1>8 DEF Served
<1>11. Served(Task("relay", r))'
  BY <1>8 DEF Served
<1>12. StopInv'
  <2>1. Task("quit", 0) \in ToSet(queue) => Task("quit", 0) \in ToSet(queue')
    BY <1>3, <1>4, TaskParts
  <2>2. \A task \in beforeStop : task \in ToSet(queue) => task \in ToSet(queue') \/ Served(task)'
    BY <1>3, <1>4, <1>11
  <2> QED
    BY <1>1, <1>3, <1>10, <2>1, <2>2, StopKeptBy
<1> QED
  BY <1>3, <1>5, <1>6, <1>9, <1>12

(* Steps of the relays that take nothing from the queue.                    *)
LEMMA PostReplyStep ==
    ASSUME QueueInv, BusyInv, RelayInv, StopInv, OfRelays(PostReply)
    PROVE  /\ QueueInv' /\ BusyInv' /\ RelayInv' /\ StopInv'
           /\ OnlyKind("relay") /\ OrderKept /\ OnlyBusy({"relay"})
<1>1. /\ main = "running" /\ main' = main /\ busy.kind = "relay" /\ busy' = Null
      /\ queue' = queue /\ post' = post /\ beforeStop' = beforeStop
      /\ originAlive' = originAlive /\ stopping' = stopping
      /\ originQueue' = IF originAlive THEN Append(originQueue, busy.id) ELSE originQueue
      /\ relay' = [relay EXCEPT ![busy.id] = IF originAlive THEN "reply posted" ELSE "reply lost"]
  BY DEF OfRelays, PostReply, mainVars, ownerVars
<1>2. PICK r \in Relays : busy = Task("relay", r)
  <2>1. busy.kind = "relay"
    BY <1>1
  <2> QED
    BY <2>1, TaskParts DEF BusyInv
<1>3. busy.id = r /\ relay[r] = "task done" /\ r \notin ToSet(originQueue)
  <2>1. busy.id = r
    BY <1>2, TaskParts
  <2> QED
    BY <1>2, <2>1 DEF RelayInv
<1>4. QueueInv' /\ OnlyKind("relay") /\ OrderKept
  BY <1>1, QueueStays DEF QueueInv, LoopAlive
<1>5. BusyInv' /\ OnlyBusy({"relay"})
  <2>1. busy.kind = "relay" /\ busy' = Null /\ busy'.kind = "none"
    BY <1>1, TaskParts
  <2> QED
    BY <2>1 DEF BusyInv, OnlyBusy
<1>6. /\ relay'[r] = (IF originAlive THEN "reply posted" ELSE "reply lost")
      /\ \A s \in Relays : s # r => relay'[s] = relay[s]
      /\ relay' \in [Relays -> {"unused", "new", "posted", "deleted at once", "task done",
                                "reply posted", "replied", "task lost", "reply lost"}]
  BY <1>1, <1>3 DEF RelayInv
<1>7. /\ originQueue' \in Seq(Relays) /\ IsInjective(originQueue')
      /\ \A s \in ToSet(originQueue') : s \in ToSet(originQueue) \/ (s = r /\ originAlive)
  <2>1. originQueue \in Seq(Relays) /\ IsInjective(originQueue)
    BY DEF RelayInv
  <2>2. CASE originAlive
    <3>1. originQueue' = Append(originQueue, r)
      BY <1>1, <1>3, <2>2
    <3>2. Append(originQueue, r) \in Seq(Relays)
          /\ ToSet(Append(originQueue, r)) = ToSet(originQueue) \union {r}
          /\ IsInjective(Append(originQueue, r))
      <4>1. r \in Relays /\ r \notin ToSet(originQueue)
        BY <1>3
      <4> QED
        BY <2>1, <4>1, PushedOnto, Zenon
    <3> QED
      BY <2>2, <3>1, <3>2
  <2>3. CASE ~ originAlive
    BY <1>1, <2>1, <2>3
  <2> QED
    BY <2>2, <2>3
<1>8. \A k, i : Queued(k, i)' <=> Queued(k, i)
  BY <1>1 DEF Queued
<1>9. RelayInv'
  <2>1. ~ Queued("relay", r)
    BY <1>3 DEF RelayInv
  <2>2. \A s \in Relays : busy' # Task("relay", s)
    BY <1>1, TaskParts
  <2> QED
    BY <1>1, <1>3, <1>6, <1>7, <1>8, <2>1, <2>2 DEF RelayInv
<1>10. \A task : Served(task) => Served(task)'
  BY <1>1, <1>3, <1>6 DEF Served
<1>11. StopInv'
  BY <1>1, <1>4, <1>10, StopKeptBy
<1> QED
  BY <1>4, <1>5, <1>9, <1>11

(* The owner posts a relay, which the proxy may refuse.                     *)
LEMMA OwnerPostsStep ==
    ASSUME QueueInv, BusyInv, RelayInv, StopInv, NEW r \in Relays, OfRelays(OwnerPosts(r))
    PROVE  /\ QueueInv' /\ BusyInv' /\ RelayInv' /\ StopInv'
           /\ OnlyKind("relay") /\ OrderKept /\ OnlyBusy({"relay"})
<1>1. /\ relay[r] = "new" /\ main' = main /\ busy' = busy /\ post' = post
      /\ beforeStop' = beforeStop /\ UNCHANGED originVars /\ stopping' = stopping
      /\ queue' = (IF LoopAlive THEN Append(queue, Task("relay", r)) ELSE queue)
      /\ relay' = [relay EXCEPT ![r] = IF LoopAlive THEN "posted" ELSE "deleted at once"]
  BY DEF OfRelays, OwnerPosts, mainVars, ownerVars, ProxyPost, PostTask
<1>2. LoopAlive' <=> LoopAlive
  BY <1>1 DEF LoopAlive
<1>3. /\ Task("relay", r) \in Tasks /\ Task("relay", r).kind = "relay"
      /\ Task("relay", r) \notin ToSet(queue)
  BY <1>1, TasksByKind, TaskParts DEF RelayInv, Queued
<1>4. /\ QueueInv' /\ OnlyKind("relay") /\ OrderKept
      /\ ToSet(queue') = ToSet(queue) \union (IF LoopAlive THEN {Task("relay", r)} ELSE {})
  <2>1. CASE LoopAlive
    BY <1>1, <1>2, <1>3, <2>1, TaskPosted
  <2>2. CASE ~ LoopAlive
    BY <1>1, <1>2, <2>2, QueueStays DEF QueueInv
  <2> QED
    BY <2>1, <2>2
<1>5. BusyInv' /\ OnlyBusy({"relay"})
  <2>1. busy' = busy /\ main' = main
    BY <1>1
  <2> QED
    BY <2>1 DEF BusyInv, OnlyBusy
<1>6. /\ relay'[r] = (IF LoopAlive THEN "posted" ELSE "deleted at once")
      /\ \A s \in Relays : s # r => relay'[s] = relay[s]
      /\ relay' \in [Relays -> {"unused", "new", "posted", "deleted at once", "task done",
                                "reply posted", "replied", "task lost", "reply lost"}]
  BY <1>1 DEF RelayInv
<1>7. RelayInv'
  <2>1. /\ \A s \in Relays : Queued("relay", s)' => Queued("relay", s) \/ (s = r /\ LoopAlive)
        /\ \A p \in Posts : Queued("post", p)' => Queued("post", p)
    BY <1>4, TaskParts DEF Queued
  <2>2. busy' # Task("relay", r) /\ r \notin ToSet(originQueue)
    BY <1>1 DEF RelayInv
  <2>3. UNCHANGED <<busy, post, originAlive, originQueue>>
    BY <1>1 DEF originVars
  <2>4. ASSUME NEW s \in Relays
        PROVE  /\ Queued("relay", s)' => relay'[s] = "posted"
               /\ busy' = Task("relay", s) => relay'[s] = "task done"
               /\ s \in ToSet(originQueue') => relay'[s] = "reply posted"
    <3>1. CASE s = r
      BY <1>3, <1>6, <2>1, <2>2, <2>3, <3>1 DEF Queued
    <3>2. CASE s # r
      BY <1>6, <2>1, <2>3, <3>2 DEF RelayInv
    <3> QED
      BY <3>1, <3>2
  <2> QED
    BY <1>6, <2>1, <2>3, <2>4 DEF RelayInv
<1>8. \A task : Served(task) => Served(task)'
  BY <1>1, <1>6 DEF Served
<1>9. StopInv'
  BY <1>1, <1>4, <1>8, StopKeptBy
<1> QED
  BY <1>4, <1>5, <1>7, <1>9

(* Another thread posts a task, which the proxy may refuse.                 *)
LEMMA OtherPostsStep ==
    ASSUME QueueInv, BusyInv, RelayInv, StopInv, NEW p \in Posts, OfRelays(OtherPosts(p))
    PROVE  /\ QueueInv' /\ BusyInv' /\ RelayInv' /\ StopInv'
           /\ OnlyKind("post") /\ OrderKept /\ OnlyBusy({"relay"})
<1>1. /\ post[p] = "new" /\ main' = main /\ busy' = busy /\ relay' = relay
      /\ beforeStop' = beforeStop /\ UNCHANGED originVars /\ stopping' = stopping
      /\ queue' = (IF LoopAlive THEN Append(queue, Task("post", p)) ELSE queue)
      /\ post' = [post EXCEPT ![p] = IF LoopAlive THEN "posted" ELSE "refused"]
  BY DEF OfRelays, OtherPosts, mainVars, ownerVars, ProxyPost, PostTask
<1>2. LoopAlive' <=> LoopAlive
  BY <1>1 DEF LoopAlive
<1>3. /\ Task("post", p) \in Tasks /\ Task("post", p).kind = "post"
      /\ Task("post", p) \notin ToSet(queue)
  BY <1>1, TasksByKind, TaskParts DEF RelayInv, Queued
<1>4. /\ QueueInv' /\ OnlyKind("post") /\ OrderKept
      /\ ToSet(queue') = ToSet(queue) \union (IF LoopAlive THEN {Task("post", p)} ELSE {})
  <2>1. CASE LoopAlive
    BY <1>1, <1>2, <1>3, <2>1, TaskPosted
  <2>2. CASE ~ LoopAlive
    BY <1>1, <1>2, <2>2, QueueStays DEF QueueInv
  <2> QED
    BY <2>1, <2>2
<1>5. BusyInv' /\ OnlyBusy({"relay"})
  <2>1. busy' = busy /\ main' = main
    BY <1>1
  <2> QED
    BY <2>1 DEF BusyInv, OnlyBusy
<1>6. /\ post'[p] = (IF LoopAlive THEN "posted" ELSE "refused")
      /\ \A q \in Posts : q # p => post'[q] = post[q]
      /\ post' \in [Posts -> {"unused", "new", "posted", "refused", "done", "deleted"}]
  BY <1>1 DEF RelayInv
<1>7. RelayInv'
  <2>1. /\ \A q \in Posts : Queued("post", q)' => Queued("post", q) \/ (q = p /\ LoopAlive)
        /\ \A r \in Relays : Queued("relay", r)' => Queued("relay", r)
    BY <1>4, TaskParts DEF Queued
  <2>2. UNCHANGED <<busy, relay, originAlive, originQueue>>
    BY <1>1 DEF originVars
  <2>3. ASSUME NEW q \in Posts, Queued("post", q)'
        PROVE  post'[q] = "posted"
    <3>1. CASE q = p
      BY <1>3, <1>6, <2>1, <2>3, <3>1 DEF Queued
    <3>2. CASE q # p
      BY <1>6, <2>1, <2>3, <3>2 DEF RelayInv
    <3> QED
      BY <3>1, <3>2
  <2> QED
    BY <1>6, <2>1, <2>2, <2>3 DEF RelayInv
<1>8. \A task : Served(task) => Served(task)'
  BY <1>1, <1>6 DEF Served
<1>9. StopInv'
  BY <1>1, <1>4, <1>8, StopKeptBy
<1> QED
  BY <1>4, <1>5, <1>7, <1>9

(* The owner's loop: a reply runs, or the loop ends with the replies in it. *)
LEMMA OwnerLoopSteps ==
    ASSUME QueueInv, BusyInv, RelayInv, StopInv,
           OwnerReplies \/ OfRelays(OriginMatters /\ OriginEnds /\ OriginQueueLost)
    PROVE  /\ QueueInv' /\ BusyInv' /\ RelayInv' /\ StopInv'
           /\ OnlyKind("none") /\ OrderKept /\ OnlyBusy({})
<1>1. /\ UNCHANGED <<queue, busy, main, stopping, post, beforeStop>>
  BY DEF OwnerReplies, OfRelays, RunReplyAndSelfDestruct, OriginEnds, OriginQueueLost, loopVars,
         mainVars, ownerVars
<1>2. QueueInv' /\ BusyInv' /\ OnlyKind("none") /\ OrderKept /\ OnlyBusy({})
  BY <1>1, QueueStays DEF QueueInv, BusyInv, OnlyBusy, LoopAlive
<1>3. \A k, i : Queued(k, i)' <=> Queued(k, i)
  BY <1>1 DEF Queued
<1>4. originQueue \in Seq(Relays) /\ IsInjective(originQueue)
  BY DEF RelayInv
<1>5. /\ originAlive' \in BOOLEAN /\ originQueue' \in Seq(Relays) /\ IsInjective(originQueue')
      /\ relay' \in [Relays -> {"unused", "new", "posted", "deleted at once", "task done",
                                "reply posted", "replied", "task lost", "reply lost"}]
      /\ \A r \in Relays : r \in ToSet(originQueue') => r \in ToSet(originQueue) /\ relay'[r] = relay[r]
      /\ \A r \in Relays : \/ relay'[r] = relay[r]
                          \/ (r \in ToSet(originQueue) /\ relay'[r] \in {"replied", "reply lost"})
  <2>1. CASE OwnerReplies
    <3>1. /\ originQueue # <<>> /\ originQueue' = Tail(originQueue) /\ originAlive' = originAlive
          /\ relay' = [relay EXCEPT ![Head(originQueue)] = "replied"]
      BY <2>1 DEF OwnerReplies, OfRelays, RunReplyAndSelfDestruct
    <3>2. /\ Head(originQueue) \in Relays /\ Tail(originQueue) \in Seq(Relays)
          /\ ToSet(originQueue) = {Head(originQueue)} \union ToSet(Tail(originQueue))
          /\ IsInjective(Tail(originQueue)) /\ Head(originQueue) \notin ToSet(Tail(originQueue))
      BY <1>4, <3>1, TakenOff
    <3>3. /\ relay'[Head(originQueue)] = "replied"
          /\ \A r \in Relays : r # Head(originQueue) => relay'[r] = relay[r]
          /\ relay' \in [Relays -> {"unused", "new", "posted", "deleted at once", "task done",
                                    "reply posted", "replied", "task lost", "reply lost"}]
      BY <3>1, <3>2 DEF RelayInv
    <3>4. originAlive' \in BOOLEAN
      BY <3>1 DEF RelayInv
    <3> DEFINE first == Head(originQueue)
    <3> HIDE DEF first
    <3>5. /\ first \in ToSet(originQueue) /\ first \notin ToSet(originQueue')
          /\ \A r : r \in ToSet(originQueue') => r \in ToSet(originQueue)
          /\ relay'[first] = "replied" /\ \A r \in Relays : r # first => relay'[r] = relay[r]
      BY <3>1, <3>2, <3>3 DEF first
    <3>6. originQueue' \in Seq(Relays) /\ IsInjective(originQueue')
      BY <3>1, <3>2
    <3> QED
      BY <3>3, <3>4, <3>5, <3>6
  <2>2. CASE OfRelays(OriginMatters /\ OriginEnds /\ OriginQueueLost)
    <3>1. /\ originQueue' = <<>> /\ originAlive' = FALSE
          /\ relay' = [r \in Relays |-> IF \E i \in DOMAIN originQueue : originQueue[i] = r
                                        THEN "reply lost" ELSE relay[r]]
      BY <2>2 DEF OfRelays, OriginEnds, OriginQueueLost
    <3>2. \A r \in Relays : relay'[r] = IF r \in ToSet(originQueue) THEN "reply lost" ELSE relay[r]
      BY <3>1 DEF ToSet
    <3>3. relay' \in [Relays -> {"unused", "new", "posted", "deleted at once", "task done",
                                "reply posted", "replied", "task lost", "reply lost"}]
      BY <3>1 DEF RelayInv
    <3>4. originQueue' \in Seq(Relays) /\ DOMAIN originQueue' = {}
      <4>1. originQueue' = <<>>
        BY <3>1
      <4> QED
        BY <4>1
    <3>5. IsInjective(originQueue') /\ ToSet(originQueue') = {}
      BY <3>4 DEF IsInjective, ToSet
    <3> QED
      BY <3>1, <3>2, <3>3, <3>4, <3>5
  <2> QED
    BY <2>1, <2>2
<1>6. RelayInv'
  <2>1. \A r \in Relays : r \in ToSet(originQueue) =>
           relay[r] = "reply posted" /\ ~ Queued("relay", r) /\ busy # Task("relay", r)
    BY DEF RelayInv
  <2> QED
    BY <1>1, <1>3, <1>5, <2>1 DEF RelayInv
<1>7. \A task : Served(task) => Served(task)'
  BY <1>1, <1>5 DEF Served
<1>8. StopInv'
  BY <1>1, <1>2, <1>7, StopKeptBy
<1> QED
  BY <1>2, <1>6, <1>8

-----------------------------------------------------------------------------
(* The owner and ThreadMain.                                                *)

(* Stop and StopSoon: the helper that quits goes behind the tasks there are. *)
LEMMA StopStep ==
    ASSUME QueueInv, BusyInv, LifeInv, StopInv,
           OfRelays(((~ Observing /\ StopSoon) \/ Stop) /\ Told /\ UNCHANGED <<relay, post>>)
    PROVE  /\ QueueInv' /\ BusyInv' /\ LifeInv' /\ StopInv'
           /\ OnlyKind("quit") /\ OrderKept /\ OnlyBusy({})
<1>1. /\ UNCHANGED <<busy, main, quit, messageLoop, started, relay, post>> /\ started
      /\ owner = "idle" /\ owner' \in {"idle", "joining"}
      /\ beforeStop' = IF stopping' = stopping THEN beforeStop
                       ELSE {task \in ToSet(queue) : task.kind \in {"relay", "post"}}
      /\ PostQuitHelper
  BY DEF OfRelays, StopSoon, Stop, Told, mainVars
<1>2. BusyInv' /\ OnlyBusy({}) /\ (LoopAlive' <=> LoopAlive)
  BY <1>1 DEF BusyInv, OnlyBusy, LoopAlive
<1>3. \A task : Served(task)' <=> Served(task)
  BY <1>1 DEF Served
<1>4. CASE NothingToStop
  <2>1. queue' = queue /\ stopping' = stopping /\ beforeStop' = beforeStop
    BY <1>1, <1>4 DEF PostQuitHelper
  <2>2. QueueInv' /\ OnlyKind("quit") /\ OrderKept
    BY <1>2, <2>1, QueueStays DEF QueueInv
  <2>3. Queued("quit", 0)' <=> Queued("quit", 0)
    BY <2>1 DEF Queued
  <2>4. LifeInv'
    BY <1>1, <2>1, <2>3 DEF LifeInv
  <2>5. StopInv'
    BY <1>3, <2>1, <2>2, StopKeptBy
  <2> QED
    BY <1>2, <2>2, <2>4, <2>5
<1>5. CASE ~ NothingToStop
  <2>1. stopping' = TRUE /\ stopping = FALSE /\ queue' = Append(queue, Task("quit", 0))
    BY <1>1, <1>5 DEF PostQuitHelper, PostTask, NothingToStop, LifeInv
  <2>2. main = "running" /\ ~ quit /\ ~ Queued("quit", 0)
    BY <1>1, <2>1 DEF LifeInv
  <2>3. Task("quit", 0) \in Tasks /\ Task("quit", 0) \notin ToSet(queue) /\ LoopAlive'
        /\ Task("quit", 0).kind = "quit"
    BY <1>2, <2>2, TasksByKind, TaskParts DEF Queued, LoopAlive
  <2>4. QueueInv' /\ OnlyKind("quit") /\ OrderKept
    BY <2>1, <2>3, TaskPosted
  <2>5. LifeInv'
    BY <1>1, <2>1, <2>2 DEF LifeInv
  <2>6. beforeStop' = {task \in ToSet(queue) : task.kind \in {"relay", "post"}}
    BY <1>1, <2>1
  <2>7. queue \in Seq(Tasks)
    BY DEF QueueInv
  <2>8. StopInv'
    <3>1. ASSUME NEW task \in ToSet(queue)
          PROVE  AheadOf(queue', task, Task("quit", 0))
      <4>1. PICK i \in 1 .. Len(queue) : queue[i] = task
        BY <2>7 DEF ToSet
      <4>2. /\ i \in DOMAIN queue' /\ queue'[i] = task /\ Len(queue) + 1 \in DOMAIN queue'
            /\ queue'[Len(queue) + 1] = Task("quit", 0) /\ i < Len(queue) + 1
        BY <2>1, <2>3, <2>7, <4>1
      <4> QED
        BY <4>2 DEF AheadOf
    <3>2. \A task \in ToSet(queue) : task \in Tasks
      BY <2>7 DEF ToSet
    <3>3. \A task \in ToSet(queue) : task.kind \in {"relay", "post"} =>
             task \in {Task("relay", r) : r \in Relays} \union {Task("post", p) : p \in Posts}
      BY <3>2, TasksByKind, TaskParts
    <3> QED
      BY <2>6, <3>1, <3>3 DEF StopInv
  <2> QED
    BY <1>2, <2>4, <2>5, <2>8
<1> QED
  BY <1>4, <1>5

(* The steps of the owner and of ThreadMain that only change where they are. *)
LEMMA OwnerAndMainSteps ==
    ASSUME QueueInv, BusyInv, LifeInv, StopInv,
           \/ OfNone(Start) \/ OwnerWaitEnds
           \/ LifeStep \/ DoIdleWork
    PROVE  /\ QueueInv' /\ BusyInv' /\ LifeInv' /\ StopInv'
           /\ OnlyKind("none") /\ OrderKept /\ OnlyBusy({}) /\ (LoopAlive => LoopAlive')
           /\ ((~ LoopAlive \/ main = "telling")' => ~ LoopAlive \/ main = "telling")
           /\ UNCHANGED <<delayed, originVars, timerVars, watcherVars, relayVars, observerVars>>
<1> USE DEF LifeStep, DoIdleWork, OwnerWaitEnds, OfNone, Start, OwnerReturns, StartReturns,
            StopReturns, ThreadBegins, FindNoWork, RunReturns, CleanUp, loopVars, mainVars, ownerVars
<1>1. UNCHANGED <<queue, delayed, busy, originVars, timerVars, watcherVars, relayVars, observerVars>>
  OBVIOUS
<1>2. OnlyKind("none") /\ OrderKept /\ OnlyBusy({})
  BY <1>1, QueueStays DEF OnlyBusy
<1>3. Queued("quit", 0)' <=> Queued("quit", 0)
  BY <1>1 DEF Queued
<1>4. /\ LifeInv' /\ (LoopAlive => LoopAlive') /\ (main' # "running" => busy = Null)
      /\ ((~ LoopAlive \/ main = "telling")' => ~ LoopAlive \/ main = "telling")
      /\ (stopping' => stopping)
      /\ (~ LoopAlive' => ~ LoopAlive)
  <2>1. CASE OfNone(Start)
    BY <1>3, <2>1 DEF LifeInv, LoopAlive, BusyInv
  <2>2. CASE OfNone(StartReturns)
    BY <1>3, <2>2 DEF LifeInv, LoopAlive, BusyInv
  <2>3. CASE OfNone(StopReturns)
    <3>1. /\ main = "none" /\ started' = FALSE /\ stopping' = FALSE /\ owner' = "idle"
          /\ UNCHANGED <<main, quit, messageLoop>>
      BY <2>3
    <3>2. ~ quit /\ ~ Queued("quit", 0) /\ ~ messageLoop /\ busy = Null
      BY <3>1 DEF LifeInv, BusyInv
    <3>3. LifeInv'
      BY <1>3, <3>1, <3>2 DEF LifeInv
    <3> QED
      BY <3>1, <3>2, <3>3 DEF LoopAlive
  <2>4. CASE OfNone(ThreadBegins)
    BY <1>3, <2>4 DEF LifeInv, LoopAlive, BusyInv
  <2>5. CASE OfNone(FindNoWork)
    <3>1. busy = Null /\ ~ Queued("quit", 0)
      BY <2>5 DEF Idle, ReadyToQuit, Queued, ToSet
    <3> QED
      BY <1>3, <2>5, <3>1 DEF LifeInv, LoopAlive, Idle, ReadyToQuit
  <2>6. CASE OfNone(RunReturns)
    <3>1. /\ main = "idle" /\ main' = "cleaning" /\ quit' = FALSE
          /\ UNCHANGED <<messageLoop, started, stopping, owner>>
      BY <2>6
    <3>2. stopping /\ ~ Queued("quit", 0) /\ messageLoop /\ busy = Null
      BY <3>1 DEF LifeInv, BusyInv
    <3>3. LifeInv'
      BY <1>3, <3>1, <3>2 DEF LifeInv
    <3> QED
      BY <3>1, <3>2, <3>3 DEF LoopAlive
  <2>7. CASE OfNone(CleanUp)
    <3>1. /\ main = "cleaning" /\ main' = "deleting" /\ messageLoop' = FALSE
          /\ UNCHANGED <<quit, started, stopping, owner>>
      BY <2>7
    <3>2. ~ quit /\ ~ Queued("quit", 0) /\ busy = Null
      BY <3>1 DEF LifeInv, BusyInv
    <3>3. LifeInv'
      BY <1>3, <3>1, <3>2 DEF LifeInv
    <3> QED
      BY <3>1, <3>2, <3>3 DEF LoopAlive
  <2> QED
    BY <2>1, <2>2, <2>3, <2>4, <2>5, <2>6, <2>7
<1>5. QueueInv'
  BY <1>1, <1>4 DEF QueueInv
<1>6. BusyInv'
  BY <1>1, <1>4 DEF BusyInv
<1>7. StopInv'
  BY <1>1, <1>4 DEF StopInv, relayVars, Served
<1> QED
  BY <1>1, <1>2, <1>4, <1>5, <1>6, <1>7

(* The helper that quits runs: whatever was ahead of it has been served.    *)
LEMMA QuitStep ==
    ASSUME QueueInv, BusyInv, LifeInv, StopInv, OfNone(ThreadQuitHelper)
    PROVE  /\ QueueInv' /\ BusyInv' /\ LifeInv' /\ StopInv'
           /\ OnlyKind("quit") /\ OrderKept /\ OnlyBusy({}) /\ main' = main
           /\ UNCHANGED <<delayed, originVars, timerVars, watcherVars, relayVars, observerVars>>
<1>1. /\ main = "running" /\ busy = Null /\ queue # <<>> /\ NextTask.kind = "quit"
      /\ queue' = Tail(queue) /\ quit' = TRUE
      /\ UNCHANGED <<delayed, busy, main, messageLoop, ownerVars, originVars, timerVars,
                     watcherVars, relayVars, observerVars>>
  BY DEF OfNone, ThreadQuitHelper, TakeTask, Idle
<1>2. LoopAlive'
  BY <1>1 DEF LoopAlive
<1>3. /\ QueueInv' /\ OnlyKind("quit") /\ OrderKept
      /\ NextTask \in Tasks /\ NextTask \in ToSet(queue) /\ NextTask \notin ToSet(queue')
  BY <1>1, <1>2, TaskTaken
<1>4. NextTask = Task("quit", 0)
  <2>1. NextTask.kind = "quit" /\ NextTask \in Tasks
    BY <1>1, <1>3
  <2> QED
    BY <2>1, TasksByKind, TaskParts
<1>5. BusyInv' /\ OnlyBusy({})
  BY <1>1 DEF BusyInv, OnlyBusy
<1>6. LifeInv'
  <2>1. Queued("quit", 0) /\ ~ Queued("quit", 0)'
    BY <1>3, <1>4 DEF Queued
  <2> QED
    BY <1>1, <2>1 DEF LifeInv, ownerVars
<1>7. StopInv'
  <2>1. \A task : Served(task)' <=> Served(task)
    BY <1>1 DEF Served, relayVars
  <2>2. \A task : ~ AheadOf(queue, task, Task("quit", 0))
    <3>1. queue \in Seq(Tasks) /\ IsInjective(queue)
      BY DEF QueueInv
    <3>2. queue[1] = Task("quit", 0) /\ 1 \in DOMAIN queue
      BY <1>1, <1>4, <3>1 DEF NextTask
    <3>3. \A j \in DOMAIN queue : queue[j] = Task("quit", 0) => j = 1
      BY <3>1, <3>2 DEF IsInjective
    <3>4. \A i \in DOMAIN queue : ~ (i < 1)
      BY <3>1
    <3> QED
      BY <3>3, <3>4 DEF AheadOf
  <2> QED
    BY <1>1, <2>1, <2>2 DEF StopInv, ownerVars, relayVars
<1> QED
  BY <1>1, <1>3, <1>5, <1>6, <1>7

-----------------------------------------------------------------------------
(* The timers.                                                              *)
TimerEntries == [task : {Task("timer", k) : k \in TimerTasks}, left : Nat]

(* A delayed task is kept with the others; each of them stays.              *)
LEMMA DelayedInserted ==
    ASSUME DelayedInv, NEW k \in TimerTasks, ~ Pending(k), NEW d \in Nat,
           delayed' = InsertByRunTime(delayed, [task |-> Task("timer", k), left |-> d])
    PROVE  /\ delayed' \in Seq(TimerEntries)
           /\ \A i, j \in DOMAIN delayed' : delayed'[i].task = delayed'[j].task => i = j
           /\ \A j \in TimerTasks : Pending(j)' <=> Pending(j) \/ j = k
           /\ \A i \in DOMAIN delayed' :
                \/ delayed'[i] = [task |-> Task("timer", k), left |-> d]
                \/ \E j \in DOMAIN delayed : delayed'[i] = delayed[j]
<1> DEFINE new == [task |-> Task("timer", k), left |-> d]
<1>1. new \in TimerEntries /\ new.task = Task("timer", k)
  BY DEF TimerEntries
<1>2. /\ delayed \in Seq(TimerEntries)
      /\ \A i, j \in DOMAIN delayed : delayed[i].task = delayed[j].task => i = j
  BY DEF DelayedInv, TimerEntries
<1>3. delayed' = InsertByRunTime(delayed, new)
  OBVIOUS
<1>4. \A i \in DOMAIN delayed : delayed[i].task # Task("timer", k)
  BY DEF Pending
<1> HIDE DEF new
<1>5. IsInjective(delayed) /\ new \notin ToSet(delayed)
  BY <1>1, <1>2, <1>4 DEF IsInjective, ToSet
<1>6. /\ delayed' \in Seq(TimerEntries) /\ ToSet(delayed') = ToSet(delayed) \union {new}
      /\ IsInjective(delayed')
  <2>1. new \in TimerEntries /\ delayed \in Seq(TimerEntries)
    BY <1>1, <1>2
  <2>2. /\ InsertByRunTime(delayed, new) \in Seq(TimerEntries)
        /\ ToSet(InsertByRunTime(delayed, new)) = ToSet(delayed) \union {new}
        /\ IsInjective(InsertByRunTime(delayed, new))
    BY <1>5, <2>1, InsertedByRunTime, Zenon
  <2> QED
    BY <1>3, <2>2
<1>7. \A i \in DOMAIN delayed' :
         delayed'[i] = new \/ \E j \in DOMAIN delayed : delayed'[i] = delayed[j]
  BY <1>6 DEF ToSet
<1>8. /\ \A j \in DOMAIN delayed : \E i \in DOMAIN delayed' : delayed'[i] = delayed[j]
      /\ \E i \in DOMAIN delayed' : delayed'[i] = new
  BY <1>6 DEF ToSet
<1>9. ASSUME NEW i \in DOMAIN delayed', NEW j \in DOMAIN delayed',
             delayed'[i].task = delayed'[j].task
      PROVE  i = j
  <2>1. delayed'[i] = delayed'[j]
    BY <1>1, <1>2, <1>4, <1>7, <1>9
  <2> QED
    BY <1>6, <2>1 DEF IsInjective
<1>10. \A j \in TimerTasks : Pending(j)' <=> Pending(j) \/ j = k
  <2>1. \A j : Task("timer", j) = Task("timer", k) <=> j = k
    BY TaskParts
  <2> QED
    BY <1>1, <1>7, <1>8, <2>1 DEF Pending
<1> QED
  BY <1>6, <1>7, <1>9, <1>10 DEF new

(* Whether the busy task is one of the timers', from one step to the next:  *)
(* it stays, or the task of a timer comes to the call of its method.        *)
BusyStays(k) == busy' = busy \/ (busy = Task("timer", k) /\ busy' = Task("callback", k))

(* The task that is busy with a timer is one of the TimerTasks.             *)
LEMMA BusyOfTimers ==
    ASSUME NEW k, BusyStays(k)
    PROVE  /\ \A j : busy' = Task("timer", j) => busy = Task("timer", j) /\ (busy' = busy \/ j # k)
           /\ \A j : j # k => /\ busy' = Task("timer", j) <=> busy = Task("timer", j)
                              /\ busy' = Task("callback", j) <=> busy = Task("callback", j)
           /\ \A j : busy' \in {Task("timer", j), Task("callback", j)} =>
                       busy \in {Task("timer", j), Task("callback", j)}
BY TaskParts DEF BusyStays

(* OrphanDelayedTask: the timer and its task forget each other.             *)
LEMMA OrphanedTask ==
    ASSUME TimerTypes, PairsInv, NEW t \in Timers
    PROVE  /\ Orphaned(t) \in [TimerTasks -> Timers \union {NoTimer}]
           /\ \A k \in TimerTasks :
                Orphaned(t)[k] = IF timerOf[k] = t THEN NoTimer ELSE timerOf[k]
<1>1. timerOf \in [TimerTasks -> Timers \union {NoTimer}]
  BY DEF TimerTypes
<1>2. 0 \notin TimerTasks /\ t # NoTimer
  BY TimerAssumption
<1>3. \A k \in TimerTasks : delayedTask[t] = k <=> timerOf[k] = t
  BY DEF PairsInv
<1>4. CASE IsRunning(t)
  <2>1. delayedTask[t] \in TimerTasks
    BY <1>4 DEF TimerTypes, IsRunning
  <2>2. Orphaned(t) = [timerOf EXCEPT ![delayedTask[t]] = NoTimer]
    BY <1>4 DEF Orphaned
  <2> QED
    BY <1>1, <1>3, <2>1, <2>2
<1>5. CASE ~ IsRunning(t)
  <2>1. Orphaned(t) = timerOf /\ delayedTask[t] = 0
    BY <1>5 DEF Orphaned, IsRunning
  <2> QED
    BY <1>1, <1>2, <1>3, <2>1
<1> QED
  BY <1>4, <1>5

(* A timer is stopped or destroyed: the task forgets it, and it the task.   *)
LEMMA TimerOff ==
    ASSUME TimerInv, NEW t \in Timers, NEW k, BusyStays(k),
           busy' = busy \/ (timerOf'[k] = NoTimer /\ LoopAlive /\ main # "telling"),
           main' = main, delayed' = delayed,
           timerOf' = Orphaned(t), delayedTask' = [delayedTask EXCEPT ![t] = 0],
           waited' = [waited EXCEPT ![t] = -1], UNCHANGED <<period, toTrigger>>,
           usable' = usable \/ usable' = usable \ {t}
    PROVE  TimerInv'
<1>1. TimerTypes /\ PairsInv /\ DelaysInv /\ DelayedInv
  BY DEF TimerInv
<1>2. /\ timerOf' \in [TimerTasks -> Timers \union {NoTimer}]
      /\ \A j \in TimerTasks : timerOf'[j] = IF timerOf[j] = t THEN NoTimer ELSE timerOf[j]
  BY <1>1, OrphanedTask
<1>3. /\ delayedTask' \in [Timers -> TimerTasks \union {0}] /\ delayedTask'[t] = 0
      /\ \A s \in Timers : s # t => delayedTask'[s] = delayedTask[s]
  BY <1>1 DEF TimerTypes
<1>4. \A s \in Timers : s # t => waited'[s] = waited[s] /\ toTrigger'[s] = toTrigger[s]
  BY <1>1 DEF TimerTypes
<1>5. DelayedInv'
  <2>1. \A j \in TimerTasks : Pending(j)' => Pending(j)
    BY DEF Pending
  <2>2. \A j \in TimerTasks : Pending(j)' => busy' \notin {Task("timer", j), Task("callback", j)}
    BY <1>1, <2>1, BusyOfTimers DEF DelayedInv
  <2>3. LoopAlive' <=> LoopAlive
    BY DEF LoopAlive
  <2> QED
    BY <1>1, <2>2, <2>3 DEF DelayedInv
<1>6. TimerTypes'
  <2>1. waited' \in [Timers -> Int] /\ waited'[t] = -1 /\ Delay[t] \in Nat
    BY <1>1, TimerAssumption DEF TimerTypes
  <2>2. \A s \in Timers : waited'[s] \in -1 .. Delay[s] /\ toTrigger'[s] \in -1 .. Delay[s]
    BY <1>1, <1>4, <2>1 DEF TimerTypes
  <2> QED
    BY <1>1, <1>2, <1>3, <2>1, <2>2 DEF TimerTypes
<1>7. PairsInv'
  <2>1. \A s \in Timers, j \in TimerTasks : delayedTask'[s] = j <=> timerOf'[j] = s
    <3>1. 0 \notin TimerTasks /\ NoTimer \notin Timers
      BY TimerAssumption
    <3> QED
      BY <1>1, <1>2, <1>3, <3>1 DEF PairsInv
  <2>2. ASSUME NEW j \in TimerTasks, timerOf'[j] # NoTimer
        PROVE  Pending(j)' \/ busy' = Task("timer", j)
    <3>1. timerOf[j] # NoTimer
      BY <1>2, <2>2
    <3>2. Pending(j) \/ busy = Task("timer", j)
      BY <1>1, <3>1 DEF PairsInv
    <3>3. Pending(j)' <=> Pending(j)
      BY DEF Pending
    <3>4. busy = Task("timer", j) => busy' = Task("timer", j)
      <4>1. busy # busy' => j # k
        BY <2>2
      <4> QED
        BY <4>1, BusyOfTimers
    <3> QED
      BY <3>2, <3>3, <3>4
  <2>3. \A s \in Timers : IsRunning(s)' => s \in usable'
    BY <1>1, <1>3 DEF PairsInv, IsRunning
  <2> QED
    BY <2>1, <2>2, <2>3 DEF PairsInv
<1>8. DelaysInv'
  <2> SUFFICES ASSUME NEW s \in Timers, IsRunning(s)'
               PROVE  /\ waited'[s] \in 0 .. Delay[s] /\ period'[delayedTask'[s]] \in 1 .. Delay[s]
                      /\ Kind[s] = "Delay" => toTrigger'[s] + waited'[s] = Delay[s]
                      /\ Kind[s] # "Delay" =>
                           /\ period'[delayedTask'[s]] = Delay[s]
                           /\ busy' = Task("timer", delayedTask'[s]) => waited'[s] = Delay[s]
                           /\ \A i \in DOMAIN delayed' :
                                delayed'[i].task = Task("timer", delayedTask'[s]) =>
                                  delayed'[i].left + waited'[s] = Delay[s]
    BY DEF DelaysInv
  <2>1. s # t /\ IsRunning(s) /\ delayedTask'[s] = delayedTask[s]
    BY <1>3 DEF IsRunning
  <2>2. waited'[s] = waited[s] /\ toTrigger'[s] = toTrigger[s]
    BY <1>4, <2>1
  <2>3. busy' = Task("timer", delayedTask[s]) => busy = Task("timer", delayedTask[s])
    BY BusyOfTimers
  <2> QED
    BY <1>1, <2>1, <2>2, <2>3 DEF DelaysInv
<1> QED
  BY <1>5, <1>6, <1>7, <1>8 DEF TimerInv

(* A new task for a timer, which has none or forgets the one it has.        *)
LEMMA TimerOn ==
    ASSUME TimerInv, NEW t \in usable, NEW d \in 1 .. Delay[t], NEW w \in 0 .. Delay[t],
           NEW x \in -1 .. Delay[t], NEW k, BusyStays(k), busy' = busy \/ timerOf[k] = t,
           main' = main, LoopAlive, main # "telling",
           PostTimerTask(t, d, Orphaned(t)),
           waited' = [waited EXCEPT ![t] = w], toTrigger' = [toTrigger EXCEPT ![t] = x],
           Kind[t] = "Delay" => x + w = Delay[t], Kind[t] # "Delay" => d = Delay[t] /\ w = 0,
           usable' = usable
    PROVE  TimerInv'
<1>1. TimerTypes /\ PairsInv /\ DelaysInv /\ DelayedInv /\ t \in Timers
  BY DEF TimerInv, TimerTypes
<1>2. PICK new \in TimerTasks :
         /\ ~ Exists(new)
         /\ timerOf' = [Orphaned(t) EXCEPT ![new] = t]
         /\ delayedTask' = [delayedTask EXCEPT ![t] = new]
         /\ period' = [period EXCEPT ![new] = d]
         /\ delayed' = InsertByRunTime(delayed, [task |-> Task("timer", new), left |-> d])
  BY DEF PostTimerTask, Free
<1>3. /\ ~ Pending(new) /\ busy # Task("timer", new) /\ busy # Task("callback", new)
      /\ timerOf[new] = NoTimer
  BY <1>1, <1>2 DEF Exists, Pending, PairsInv
<1>4. d \in Nat /\ Delay[t] \in Nat \ {0} /\ 0 \notin TimerTasks /\ NoTimer \notin Timers /\ new # 0
  BY <1>1, TimerAssumption
<1>5. /\ timerOf' \in [TimerTasks -> Timers \union {NoTimer}] /\ timerOf'[new] = t
      /\ \A j \in TimerTasks :
           j # new => timerOf'[j] = IF timerOf[j] = t THEN NoTimer ELSE timerOf[j]
  <2>1. /\ Orphaned(t) \in [TimerTasks -> Timers \union {NoTimer}]
        /\ \A j \in TimerTasks : Orphaned(t)[j] = IF timerOf[j] = t THEN NoTimer ELSE timerOf[j]
    BY <1>1, OrphanedTask
  <2> DEFINE old == Orphaned(t)
  <2>2. timerOf' = [old EXCEPT ![new] = t]
    BY <1>2
  <2> HIDE DEF old
  <2>3. /\ old \in [TimerTasks -> Timers \union {NoTimer}]
        /\ \A j \in TimerTasks : old[j] = IF timerOf[j] = t THEN NoTimer ELSE timerOf[j]
    BY <2>1 DEF old
  <2> QED
    BY <1>1, <2>2, <2>3
<1>6. /\ delayedTask' \in [Timers -> TimerTasks \union {0}] /\ delayedTask'[t] = new
      /\ \A s \in Timers : s # t => delayedTask'[s] = delayedTask[s]
  BY <1>1, <1>2 DEF TimerTypes
<1>7. /\ period' \in [TimerTasks -> Nat] /\ period'[new] = d
      /\ \A j \in TimerTasks : j # new => period'[j] = period[j]
  BY <1>1, <1>2, <1>4 DEF TimerTypes
<1>8. /\ waited'[t] = w /\ toTrigger'[t] = x
      /\ \A s \in Timers : s # t => waited'[s] = waited[s] /\ toTrigger'[s] = toTrigger[s]
      /\ waited' \in [Timers -> Int] /\ toTrigger' \in [Timers -> Int]
  BY <1>1, <1>4 DEF TimerTypes
<1>9. /\ delayed' \in Seq(TimerEntries)
      /\ \A i, j \in DOMAIN delayed' : delayed'[i].task = delayed'[j].task => i = j
      /\ \A j \in TimerTasks : Pending(j)' <=> Pending(j) \/ j = new
      /\ \A i \in DOMAIN delayed' :
           \/ delayed'[i] = [task |-> Task("timer", new), left |-> d]
           \/ \E j \in DOMAIN delayed : delayed'[i] = delayed[j]
  BY <1>1, <1>2, <1>3, <1>4, DelayedInserted
<1>10. DelayedInv'
  <2>1. \A j \in TimerTasks : Pending(j)' => busy' \notin {Task("timer", j), Task("callback", j)}
    <3>1. \A j \in TimerTasks : Pending(j) => busy \notin {Task("timer", j), Task("callback", j)}
      BY <1>1 DEF DelayedInv
    <3> QED
      BY <1>3, <1>9, <3>1, BusyOfTimers
  <2>2. LoopAlive' /\ main' # "telling"
    BY DEF LoopAlive
  <2> QED
    BY <1>9, <2>1, <2>2 DEF DelayedInv, TimerEntries
<1>11. TimerTypes'
  <2>1. waited'[t] \in -1 .. Delay[t] /\ toTrigger'[t] \in -1 .. Delay[t]
    BY <1>4, <1>8
  <2>2. \A s \in Timers : waited'[s] \in -1 .. Delay[s] /\ toTrigger'[s] \in -1 .. Delay[s]
    BY <1>1, <1>8, <2>1 DEF TimerTypes
  <2> QED
    BY <1>1, <1>5, <1>6, <1>7, <1>8, <2>2 DEF TimerTypes
<1>12. PairsInv'
  <2>1. ASSUME NEW s \in Timers, NEW j \in TimerTasks
        PROVE  delayedTask'[s] = j <=> timerOf'[j] = s
    <3>1. delayedTask[s] = j <=> timerOf[j] = s
      BY <1>1 DEF PairsInv
    <3> QED
      BY <1>1, <1>3, <1>4, <1>5, <1>6, <3>1
  <2>2. ASSUME NEW j \in TimerTasks, timerOf'[j] # NoTimer
        PROVE  Pending(j)' \/ busy' = Task("timer", j)
    <3>1. CASE j = new
      BY <1>9, <3>1
    <3>2. CASE j # new
      <4>1. timerOf[j] # NoTimer /\ timerOf[j] # t
        BY <1>5, <2>2, <3>2
      <4>2. Pending(j) \/ busy = Task("timer", j)
        BY <1>1, <4>1 DEF PairsInv
      <4>3. busy = Task("timer", j) => busy' = Task("timer", j)
        <5>1. busy # busy' => j # k
          BY <4>1
        <5> QED
          BY <5>1, BusyOfTimers
      <4> QED
        BY <1>9, <4>2, <4>3
    <3> QED
      BY <3>1, <3>2
  <2>3. \A s \in Timers : IsRunning(s)' => s \in usable'
    BY <1>1, <1>6 DEF PairsInv, IsRunning
  <2> QED
    BY <2>1, <2>2, <2>3 DEF PairsInv
<1>13. DelaysInv'
  <2> SUFFICES ASSUME NEW s \in Timers, IsRunning(s)'
               PROVE  /\ waited'[s] \in 0 .. Delay[s] /\ period'[delayedTask'[s]] \in 1 .. Delay[s]
                      /\ Kind[s] = "Delay" => toTrigger'[s] + waited'[s] = Delay[s]
                      /\ Kind[s] # "Delay" =>
                           /\ period'[delayedTask'[s]] = Delay[s]
                           /\ busy' = Task("timer", delayedTask'[s]) => waited'[s] = Delay[s]
                           /\ \A i \in DOMAIN delayed' :
                                delayed'[i].task = Task("timer", delayedTask'[s]) =>
                                  delayed'[i].left + waited'[s] = Delay[s]
    BY DEF DelaysInv
  <2>1. CASE s = t
    <3>1. /\ delayedTask'[s] = new /\ waited'[s] = w /\ toTrigger'[s] = x /\ period'[new] = d
      BY <1>6, <1>7, <1>8, <2>1
    <3>2. busy' # Task("timer", new)
      BY <1>3, BusyOfTimers
    <3>3. ASSUME NEW i \in DOMAIN delayed', delayed'[i].task = Task("timer", new)
          PROVE  delayed'[i].left = d
      <4>1. \A j \in DOMAIN delayed : delayed[j].task # Task("timer", new)
        BY <1>3 DEF Pending
      <4> QED
        BY <1>9, <3>3, <4>1
    <3> QED
      BY <1>4, <2>1, <3>1, <3>2, <3>3
  <2>2. CASE s # t
    <3>1. /\ IsRunning(s) /\ delayedTask'[s] = delayedTask[s] /\ waited'[s] = waited[s]
          /\ toTrigger'[s] = toTrigger[s] /\ delayedTask[s] \in TimerTasks
      BY <1>1, <1>6, <1>8, <2>2 DEF IsRunning, TimerTypes
    <3>2. timerOf[delayedTask[s]] = s
      BY <1>1, <3>1 DEF PairsInv
    <3>3. delayedTask[s] # new
      BY <1>3, <1>4, <3>2
    <3>4. period'[delayedTask[s]] = period[delayedTask[s]]
      BY <1>7, <3>1, <3>3
    <3>5. busy' = Task("timer", delayedTask[s]) => busy = Task("timer", delayedTask[s])
      BY BusyOfTimers
    <3>6. \A i \in DOMAIN delayed' :
             delayed'[i].task = Task("timer", delayedTask[s]) =>
               \E j \in DOMAIN delayed : delayed'[i] = delayed[j]
      BY <1>9, <3>3, TaskParts
    <3>7. /\ waited[s] \in 0 .. Delay[s] /\ period[delayedTask[s]] \in 1 .. Delay[s]
          /\ Kind[s] = "Delay" => toTrigger[s] + waited[s] = Delay[s]
          /\ Kind[s] # "Delay" =>
               /\ period[delayedTask[s]] = Delay[s]
               /\ busy = Task("timer", delayedTask[s]) => waited[s] = Delay[s]
               /\ \A i \in DOMAIN delayed : delayed[i].task = Task("timer", delayedTask[s]) =>
                    delayed[i].left + waited[s] = Delay[s]
      BY <1>1, <3>1 DEF DelaysInv
    <3>8. \A i \in DOMAIN delayed' : Kind[s] # "Delay" /\ delayed'[i].task = Task("timer", delayedTask[s]) =>
             delayed'[i].left + waited[s] = Delay[s]
      BY <3>6, <3>7
    <3> QED
      BY <3>1, <3>4, <3>5, <3>7, <3>8
  <2> QED
    BY <2>1, <2>2
<1> QED
  BY <1>10, <1>11, <1>12, <1>13 DEF TimerInv

(* TimerTask::Run is about to be called.                                    *)
LEMMA TakeTimerTaskStep ==
    ASSUME BusyInv, TimerInv, DoDelayedWork
    PROVE  BusyInv' /\ TimerInv' /\ OnlyBusy({"timer", "callback"})
<1>1. /\ main = "running" /\ main' = main /\ busy = Null /\ delayed # <<>>
      /\ Head(delayed).left = 0 /\ delayed' = Tail(delayed) /\ busy' = Head(delayed).task
      /\ UNCHANGED timerVars
  BY DEF DoDelayedWork, OfTimers, TakeTimerTask, TakeDelayedTask, Idle, mainVars
<1>2. TimerTypes /\ PairsInv /\ DelaysInv /\ DelayedInv
  BY DEF TimerInv
<1>3. /\ delayed \in Seq(TimerEntries)
      /\ \A i, j \in DOMAIN delayed : delayed[i].task = delayed[j].task => i = j
  BY <1>2 DEF DelayedInv, TimerEntries
<1>4. /\ 1 \in DOMAIN delayed /\ Head(delayed) = delayed[1] /\ delayed[1] \in TimerEntries
      /\ delayed' \in Seq(TimerEntries)
      /\ \A i \in DOMAIN delayed' : i + 1 \in DOMAIN delayed /\ delayed'[i] = delayed[i + 1]
      /\ \A i \in DOMAIN delayed : i # 1 => i - 1 \in DOMAIN delayed' /\ delayed'[i - 1] = delayed[i]
      /\ DOMAIN delayed' \subseteq Nat \ {0}
  BY <1>1, <1>3
<1>5. PICK k \in TimerTasks : delayed[1].task = Task("timer", k)
  BY <1>4 DEF TimerEntries
<1>6. busy' = Task("timer", k) /\ delayed[1].left = 0
  BY <1>1, <1>4, <1>5
<1>7. \A j \in TimerTasks : Pending(j) <=> Pending(j)' \/ j = k
  <2>1. ASSUME NEW j \in TimerTasks, Pending(j)
        PROVE  Pending(j)' \/ j = k
    <3>1. PICK i \in DOMAIN delayed : delayed[i].task = Task("timer", j)
      BY <2>1 DEF Pending
    <3>2. i = 1 => j = k
      BY <1>5, <3>1, TaskParts
    <3> QED
      BY <1>4, <3>1, <3>2 DEF Pending
  <2>2. ASSUME NEW j \in TimerTasks, Pending(j)' \/ j = k
        PROVE  Pending(j)
    BY <1>4, <1>5, <2>2 DEF Pending
  <2> QED
    BY <2>1, <2>2
<1>8. ~ Pending(k)'
  <2>1. \A i \in DOMAIN delayed' : delayed'[i].task # Task("timer", k)
    <3>1. \A i \in DOMAIN delayed' : i + 1 \in DOMAIN delayed /\ i + 1 # 1 /\ delayed'[i] = delayed[i + 1]
      BY <1>4
    <3> QED
      BY <1>3, <1>4, <1>5, <3>1
  <2> QED
    BY <2>1 DEF Pending
<1>9. DelayedInv'
  <2>1. ASSUME NEW i \in DOMAIN delayed', NEW j \in DOMAIN delayed', delayed'[i].task = delayed'[j].task
        PROVE  i = j
    <3>1. i + 1 = j + 1
      BY <1>3, <1>4, <2>1
    <3> QED
      BY <1>4, <3>1
  <2>2. \A j \in TimerTasks : Pending(j)' => busy' \notin {Task("timer", j), Task("callback", j)}
    BY <1>6, <1>8, TaskParts
  <2>3. LoopAlive' /\ main' # "telling"
    BY <1>1 DEF LoopAlive
  <2> QED
    BY <1>4, <2>1, <2>2, <2>3 DEF DelayedInv, TimerEntries
<1>10. TimerTypes'
  BY <1>1, <1>2 DEF TimerTypes, timerVars
<1>11. PairsInv'
  <2>1. \A j \in TimerTasks : busy # Task("timer", j)
    BY <1>1, TaskParts
  <2>2. \A j \in TimerTasks : timerOf[j] # NoTimer => Pending(j)' \/ busy' = Task("timer", j)
    BY <1>2, <1>6, <1>7, <2>1 DEF PairsInv
  <2> QED
    BY <1>1, <1>2, <2>2 DEF PairsInv, timerVars, IsRunning
<1>12. DelaysInv'
  <2>1. \A j \in TimerTasks : busy' = Task("timer", j) => delayed[1].task = Task("timer", j)
    BY <1>5, <1>6
  <2>2. ASSUME NEW t \in Timers, IsRunning(t), Kind[t] # "Delay", busy' = Task("timer", delayedTask[t])
        PROVE  waited[t] = Delay[t]
    <3>1. delayed[1].left + waited[t] = Delay[t]
      BY <1>2, <1>4, <1>5, <1>6, <2>2 DEF DelaysInv
    <3>2. waited[t] \in Int
      BY <1>2 DEF TimerTypes
    <3> QED
      BY <1>6, <3>1, <3>2
  <2>3. ASSUME NEW t \in Timers, IsRunning(t), Kind[t] # "Delay", NEW i \in DOMAIN delayed',
               delayed'[i].task = Task("timer", delayedTask[t])
        PROVE  delayed'[i].left + waited[t] = Delay[t]
    BY <1>2, <1>4, <2>3 DEF DelaysInv
  <2>4. UNCHANGED <<waited, period, delayedTask, toTrigger>>
    BY <1>1 DEF timerVars
  <2> QED
    BY <1>2, <2>2, <2>3, <2>4 DEF DelaysInv, IsRunning
<1>13. BusyInv'
  BY <1>1, <1>6 DEF BusyInv
<1>14. OnlyBusy({"timer", "callback"})
  BY <1>1, <1>6, TaskParts DEF OnlyBusy
<1> QED
  BY <1>9, <1>10, <1>11, <1>12, <1>13, <1>14 DEF TimerInv

(* The task of a timer runs, to the call of the method.                     *)
LEMMA RunTimerTaskStep ==
    ASSUME BusyInv, TimerInv, OfTimers(RunTimerTask)
    PROVE  BusyInv' /\ TimerInv' /\ OnlyBusy({"timer", "callback"})
<1>1. /\ main = "running" /\ main' = main /\ busy.kind = "timer"
      /\ busy' = Task("callback", busy.id)
      /\ \/ RunOrphan(busy.id)
         \/ \E t \in Timers :
              RunOneShot(busy.id, t) \/ RunRepeating(busy.id, t) \/ RunDelayCheck(busy.id, t)
  BY DEF OfTimers, RunTimerTask, mainVars
<1>2. PICK k \in TimerTasks : busy = Task("timer", k) /\ busy.id = k
  <2>1. busy.kind = "timer"
    BY <1>1
  <2> QED
    BY <2>1, TaskParts DEF BusyInv
<1>3. busy' = Task("callback", k) /\ BusyStays(k)
  BY <1>1, <1>2 DEF BusyStays
<1>4. BusyInv'
  BY <1>1, <1>3 DEF BusyInv
<1>5. OnlyBusy({"timer", "callback"})
  BY <1>2, <1>3, TaskParts DEF OnlyBusy
<1>6. TimerTypes /\ PairsInv /\ DelaysInv /\ DelayedInv
  BY DEF TimerInv
<1>7. LoopAlive /\ main # "telling"
  BY <1>1 DEF LoopAlive
<1>8. CASE RunOrphan(k)
  <2>1. timerOf[k] = NoTimer /\ delayed' = delayed /\ UNCHANGED timerVars
    BY <1>8 DEF RunOrphan
  <2>2. \A j \in TimerTasks : Pending(j)' <=> Pending(j)
    BY <2>1 DEF Pending
  <2>3. DelayedInv'
    <3>1. \A j \in TimerTasks : Pending(j)' => busy' \notin {Task("timer", j), Task("callback", j)}
      BY <1>3, <1>6, <2>2, BusyOfTimers DEF DelayedInv
    <3>2. LoopAlive' /\ main' # "telling"
      BY <1>1 DEF LoopAlive
    <3> QED
      BY <1>6, <2>1, <3>1, <3>2 DEF DelayedInv
  <2>4. TimerTypes'
    BY <1>6, <2>1 DEF TimerTypes, timerVars
  <2>5. PairsInv'
    <3>1. ASSUME NEW j \in TimerTasks, timerOf[j] # NoTimer
          PROVE  Pending(j) \/ busy' = Task("timer", j)
      <4>1. j # k /\ (Pending(j) \/ busy = Task("timer", j))
        BY <1>6, <2>1, <3>1 DEF PairsInv
      <4> QED
        BY <1>3, <4>1, BusyOfTimers
    <3> QED
      BY <1>6, <2>1, <2>2, <3>1 DEF PairsInv, timerVars, IsRunning
  <2>6. DelaysInv'
    <3>1. \A j : busy' = Task("timer", j) => busy = Task("timer", j)
      BY <1>3, BusyOfTimers
    <3> QED
      BY <1>6, <2>1, <3>1 DEF DelaysInv, timerVars, IsRunning
  <2> QED
    BY <1>4, <1>5, <2>3, <2>4, <2>5, <2>6 DEF TimerInv
<1>9. ASSUME NEW t \in Timers, timerOf[k] = t
      PROVE  /\ delayedTask[t] = k /\ IsRunning(t) /\ t \in usable /\ Cleared(k) = Orphaned(t)
             /\ (ClearBaseTimer(k) => /\ timerOf' = Orphaned(t)
                                      /\ delayedTask' = [delayedTask EXCEPT ![t] = 0])
             /\ Orphaned(t)[k] = NoTimer
  <2>1. delayedTask[t] = k /\ k # 0
    BY <1>6, <1>9, TimerAssumption DEF PairsInv
  <2>2. IsRunning(t) /\ t \in usable
    BY <1>6, <2>1 DEF PairsInv, IsRunning
  <2>3. Cleared(k) = Orphaned(t)
    BY <2>1, <2>2 DEF Cleared, Orphaned
  <2>4. ClearBaseTimer(k) => /\ timerOf' = Orphaned(t)
                             /\ delayedTask' = [delayedTask EXCEPT ![t] = 0]
    BY <1>9, <2>1, <2>3 DEF ClearBaseTimer
  <2>5. Orphaned(t)[k] = NoTimer
    BY <1>6, <1>9, OrphanedTask
  <2> QED
    BY <2>1, <2>2, <2>3, <2>4, <2>5
<1>10. ASSUME NEW t \in Timers, RunOneShot(k, t)
       PROVE  TimerInv'
  <2>1. /\ timerOf[k] = t /\ Kind[t] = "OneShot" /\ ClearBaseTimer(k)
        /\ waited' = [waited EXCEPT ![t] = -1]
        /\ UNCHANGED <<delayed, period, toTrigger, usable>>
    BY <1>10 DEF RunOneShot, Calls
  <2>2. /\ timerOf' = Orphaned(t) /\ timerOf'[k] = NoTimer
        /\ delayedTask' = [delayedTask EXCEPT ![t] = 0]
    BY <1>9, <2>1
  <2> QED
    BY <1>1, <1>3, <1>7, <2>1, <2>2, TimerOff
<1>11. ASSUME NEW t \in Timers, RunRepeating(k, t)
       PROVE  TimerInv'
  <2>1. /\ timerOf[k] = t /\ Kind[t] = "Repeating" /\ PostTimerTask(t, period[k], Orphaned(t))
        /\ waited' = [waited EXCEPT ![t] = 0]
        /\ UNCHANGED <<toTrigger, usable>>
    BY <1>11 DEF RunRepeating, Calls, InitiateDelayedTask
  <2>2. t \in usable /\ IsRunning(t) /\ delayedTask[t] = k
    BY <1>9, <2>1
  <2>3. period[k] = Delay[t] /\ Delay[t] \in Nat \ {0}
    BY <1>6, <2>1, <2>2, TimerAssumption DEF DelaysInv
  <2>4. period[k] \in 1 .. Delay[t] /\ 0 \in 0 .. Delay[t]
    BY <2>3
  <2>5. toTrigger' = [toTrigger EXCEPT ![t] = toTrigger[t]] /\ toTrigger[t] \in -1 .. Delay[t]
    BY <1>6, <2>1 DEF TimerTypes
  <2>6. Kind[t] # "Delay" /\ usable' = usable
    BY <2>1
  <2> QED
    BY <1>1, <1>3, <1>7, <2>1, <2>2, <2>3, <2>4, <2>5, <2>6, TimerOn
<1>12. ASSUME NEW t \in Timers, RunDelayCheck(k, t)
       PROVE  TimerInv'
  <2>1. timerOf[k] = t /\ Kind[t] = "Delay" /\ UNCHANGED <<toTrigger, usable>>
    BY <1>12 DEF RunDelayCheck
  <2>2. /\ t \in usable /\ IsRunning(t) /\ delayedTask[t] = k /\ Cleared(k) = Orphaned(t)
        /\ Orphaned(t)[k] = NoTimer
    BY <1>9, <2>1
  <2>3. CASE TooEarly(t)
    <3>1. PostTimerTask(t, toTrigger[t], Orphaned(t)) /\ waited' = waited /\ toTrigger[t] > 0
      BY <1>12, <2>2, <2>3 DEF RunDelayCheck, TooEarly
    <3>2. /\ toTrigger[t] \in -1 .. Delay[t] /\ waited[t] \in 0 .. Delay[t]
          /\ toTrigger[t] + waited[t] = Delay[t]
          /\ waited' = [waited EXCEPT ![t] = waited[t]]
          /\ toTrigger' = [toTrigger EXCEPT ![t] = toTrigger[t]]
      BY <1>6, <2>1, <2>2, <3>1 DEF TimerTypes, DelaysInv
    <3>3. toTrigger[t] \in 1 .. Delay[t]
      BY <3>1, <3>2, TimerAssumption
    <3>4. usable' = usable
      BY <2>1
    <3> QED
      BY <1>1, <1>3, <1>7, <2>1, <2>2, <3>1, <3>2, <3>3, <3>4, TimerOn
  <2>4. CASE ~ TooEarly(t)
    <3>1. /\ ClearBaseTimer(k) /\ waited' = [waited EXCEPT ![t] = -1]
          /\ UNCHANGED <<delayed, period, toTrigger, usable>>
      BY <1>12, <2>1, <2>4 DEF RunDelayCheck, Calls
    <3>2. /\ timerOf' = Orphaned(t) /\ timerOf'[k] = NoTimer
          /\ delayedTask' = [delayedTask EXCEPT ![t] = 0]
      BY <1>9, <2>1, <3>1
    <3> QED
      BY <1>1, <1>3, <1>7, <3>1, <3>2, TimerOff
  <2> QED
    BY <2>3, <2>4
<1> QED
  BY <1>1, <1>2, <1>4, <1>5, <1>8, <1>10, <1>11, <1>12

(* The method has returned: the task, which no timer points to, is deleted. *)
LEMMA FinishTimerTaskStep ==
    ASSUME BusyInv, TimerInv, OfTimers(FinishTimerTask)
    PROVE  BusyInv' /\ TimerInv' /\ OnlyBusy({"timer", "callback"})
<1>1. /\ main = "running" /\ main' = main /\ busy.kind = "callback" /\ busy' = Null
      /\ ClearBaseTimer(busy.id) /\ period' = [period EXCEPT ![busy.id] = 0]
      /\ UNCHANGED <<delayed, toTrigger, usable, waited>>
  BY DEF OfTimers, FinishTimerTask, mainVars
<1>2. PICK k \in TimerTasks : busy = Task("callback", k) /\ busy.id = k
  <2>1. busy.kind = "callback"
    BY <1>1
  <2> QED
    BY <2>1, TaskParts DEF BusyInv
<1>3. TimerTypes /\ PairsInv /\ DelaysInv /\ DelayedInv
  BY DEF TimerInv
<1>4. \A j \in TimerTasks : busy # Task("timer", j) /\ busy' # Task("timer", j)
  BY <1>1, <1>2, TaskParts
<1>5. timerOf[k] = NoTimer
  BY <1>2, <1>3, <1>4 DEF PairsInv, DelayedInv
<1>6. timerOf' = timerOf /\ delayedTask' = delayedTask
  <2>1. timerOf \in [TimerTasks -> Timers \union {NoTimer}]
    BY <1>3 DEF TimerTypes
  <2> QED
    BY <1>1, <1>2, <1>5, <2>1, TimerAssumption DEF ClearBaseTimer, Cleared
<1>7. /\ period' \in [TimerTasks -> Nat] /\ \A j \in TimerTasks : j # k => period'[j] = period[j]
      /\ \A t \in Timers : delayedTask[t] # k
  BY <1>1, <1>2, <1>3, <1>5, TimerAssumption DEF TimerTypes, PairsInv
<1>8. \A j \in TimerTasks : Pending(j)' <=> Pending(j)
  BY <1>1 DEF Pending
<1>9. DelayedInv'
  <2>1. \A j \in TimerTasks : busy' \notin {Task("timer", j), Task("callback", j)}
    BY <1>1, TaskParts
  <2>2. LoopAlive' /\ main' # "telling"
    BY <1>1 DEF LoopAlive
  <2> QED
    BY <1>1, <1>3, <2>1, <2>2 DEF DelayedInv
<1>10. TimerTypes'
  BY <1>1, <1>3, <1>6, <1>7 DEF TimerTypes
<1>11. PairsInv'
  BY <1>1, <1>3, <1>4, <1>6, <1>8 DEF PairsInv, IsRunning
<1>12. DelaysInv'
  <2>1. \A t \in Timers : IsRunning(t) => delayedTask[t] \in TimerTasks /\ delayedTask[t] # k
    BY <1>3, <1>7 DEF TimerTypes, IsRunning
  <2>2. \A t \in Timers : IsRunning(t) => /\ period'[delayedTask[t]] = period[delayedTask[t]]
                                          /\ busy' # Task("timer", delayedTask[t])
    BY <1>4, <1>7, <2>1
  <2> QED
    BY <1>1, <1>3, <1>6, <2>2 DEF DelaysInv, IsRunning
<1>13. BusyInv' /\ OnlyBusy({"timer", "callback"})
  BY <1>1, TaskParts DEF BusyInv, OnlyBusy
<1> QED
  BY <1>9, <1>10, <1>11, <1>12, <1>13 DEF TimerInv

(* Start, Reset, Stop and the destructor.                                   *)
LEMMA TimerCallStep ==
    ASSUME BusyInv, LifeInv, TimerInv, NEW t \in Timers, OfTimers(TimerCall(t))
    PROVE  BusyInv' /\ TimerInv' /\ OnlyBusy({})
<1>1. /\ main' = main /\ busy' = busy
      /\ StartTimer(t) \/ ResetTimer(t) \/ StopTimer(t) \/ DestroyTimer(t) \/ ResetDelayTimer(t)
  BY DEF OfTimers, TimerCall, mainVars
<1>2. BusyInv' /\ OnlyBusy({})
  BY <1>1 DEF BusyInv, OnlyBusy
<1>3. TimerTypes /\ PairsInv /\ DelaysInv /\ DelayedInv
  BY DEF TimerInv
<1>4. \A k : BusyStays(k)
  BY <1>1 DEF BusyStays
<1>5. /\ Delay[t] \in Nat \ {0} /\ 0 \in 0 .. Delay[t] /\ Delay[t] \in 1 .. Delay[t]
      /\ Delay[t] \in -1 .. Delay[t]
  <2>1. Delay[t] \in Nat \ {0}
    BY TimerAssumption
  <2> QED
    BY <2>1
<1>6. ProgramRuns => LoopAlive /\ main # "telling"
  BY DEF ProgramRuns, LoopAlive
<1>7. /\ toTrigger' = toTrigger => toTrigger' = [toTrigger EXCEPT ![t] = toTrigger[t]]
      /\ toTrigger[t] \in -1 .. Delay[t]
  BY <1>3 DEF TimerTypes
<1>8. ASSUME Kind[t] # "Delay", t \in usable, ProgramRuns, PostTimerTask(t, Delay[t], Orphaned(t)),
             waited' = [waited EXCEPT ![t] = 0], toTrigger' = toTrigger, usable' = usable
      PROVE  TimerInv'
  <2>1. toTrigger' = [toTrigger EXCEPT ![t] = toTrigger[t]]
    BY <1>7, <1>8
  <2> QED
    BY <1>1, <1>4, <1>5, <1>6, <1>7, <1>8, <2>1, TimerOn
<1>9. CASE StartTimer(t)
  <2>1. /\ Kind[t] # "Delay" /\ t \in usable /\ ProgramRuns
        /\ PostTimerTask(t, Delay[t], Orphaned(t))
        /\ waited' = [waited EXCEPT ![t] = 0] /\ toTrigger' = toTrigger /\ usable' = usable
    BY <1>9 DEF StartTimer, InitiateDelayedTask
  <2> QED
    BY <1>2, <1>8, <2>1
<1>10. CASE ResetTimer(t)
  <2>1. IsRunning(t) /\ Kind[t] # "Delay"
    BY <1>10 DEF ResetTimer
  <2>2. period[delayedTask[t]] = Delay[t]
    BY <1>3, <2>1 DEF DelaysInv
  <2>3. /\ t \in usable /\ ProgramRuns /\ PostTimerTask(t, Delay[t], Orphaned(t))
        /\ waited' = [waited EXCEPT ![t] = 0] /\ toTrigger' = toTrigger /\ usable' = usable
    BY <1>10, <2>2 DEF ResetTimer, InitiateDelayedTask
  <2> QED
    BY <1>2, <1>8, <2>1, <2>3
<1>11. CASE StopTimer(t) \/ DestroyTimer(t)
  <2>1. /\ timerOf' = Orphaned(t) /\ delayedTask' = [delayedTask EXCEPT ![t] = 0]
        /\ waited' = [waited EXCEPT ![t] = -1] /\ UNCHANGED <<delayed, period, toTrigger>>
        /\ usable' = usable \/ usable' = usable \ {t}
    BY <1>11 DEF StopTimer, DestroyTimer, OrphanDelayedTask
  <2> QED
    BY <1>1, <1>4, <2>1, <1>2, TimerOff
<1>12. CASE ResetDelayTimer(t)
  <2>1. /\ ProgramRuns /\ t \in usable /\ Kind[t] = "Delay"
        /\ waited' = [waited EXCEPT ![t] = 0] /\ usable' = usable
        /\ toTrigger' = [toTrigger EXCEPT ![t] = Delay[t]]
        /\ IF IsRunning(t) /\ period[delayedTask[t]] <= Delay[t]
           THEN UNCHANGED <<timerOf, delayedTask, period, delayed>>
           ELSE InitiateDelayedTask(t, Delay[t])
    BY <1>12 DEF ResetDelayTimer, DelayFor
  <2>2. CASE IsRunning(t) /\ period[delayedTask[t]] <= Delay[t]
    <3>1. UNCHANGED <<timerOf, delayedTask, period, delayed>>
      BY <2>1, <2>2
    <3>2. /\ waited'[t] = 0 /\ toTrigger'[t] = Delay[t]
          /\ \A s \in Timers : s # t => waited'[s] = waited[s] /\ toTrigger'[s] = toTrigger[s]
          /\ waited' \in [Timers -> Int] /\ toTrigger' \in [Timers -> Int]
      BY <1>3, <1>5, <2>1 DEF TimerTypes
    <3>3. \A j \in TimerTasks : Pending(j)' <=> Pending(j)
      BY <3>1 DEF Pending
    <3>4. DelayedInv'
      BY <1>1, <1>3, <3>1, <3>3 DEF DelayedInv, LoopAlive
    <3>5. TimerTypes'
      <4>1. 0 \in -1 .. Delay[t]
        BY <1>5
      <4>2. \A s \in Timers : waited'[s] \in -1 .. Delay[s] /\ toTrigger'[s] \in -1 .. Delay[s]
        BY <1>3, <1>5, <3>2, <4>1 DEF TimerTypes
      <4> QED
        BY <1>3, <2>1, <3>1, <3>2, <4>2 DEF TimerTypes
    <3>6. PairsInv'
      BY <1>1, <1>3, <2>1, <3>1, <3>3 DEF PairsInv, IsRunning
    <3>7. DelaysInv'
      <4> SUFFICES ASSUME NEW s \in Timers, IsRunning(s)'
                   PROVE  /\ waited'[s] \in 0 .. Delay[s] /\ period'[delayedTask'[s]] \in 1 .. Delay[s]
                          /\ Kind[s] = "Delay" => toTrigger'[s] + waited'[s] = Delay[s]
                          /\ Kind[s] # "Delay" =>
                               /\ period'[delayedTask'[s]] = Delay[s]
                               /\ busy' = Task("timer", delayedTask'[s]) => waited'[s] = Delay[s]
                               /\ \A i \in DOMAIN delayed' :
                                    delayed'[i].task = Task("timer", delayedTask'[s]) =>
                                      delayed'[i].left + waited'[s] = Delay[s]
        BY DEF DelaysInv
      <4>1. IsRunning(s)
        BY <3>1 DEF IsRunning
      <4>2. CASE s = t
        BY <1>3, <1>5, <2>1, <3>1, <3>2, <4>1, <4>2 DEF DelaysInv
      <4>3. CASE s # t
        BY <1>1, <1>3, <3>1, <3>2, <4>1, <4>3 DEF DelaysInv
      <4> QED
        BY <4>2, <4>3
    <3> QED
      BY <1>2, <3>4, <3>5, <3>6, <3>7 DEF TimerInv
  <2>3. CASE ~ (IsRunning(t) /\ period[delayedTask[t]] <= Delay[t])
    <3>1. PostTimerTask(t, Delay[t], Orphaned(t))
      BY <2>1, <2>3 DEF InitiateDelayedTask
    <3>2. Delay[t] + 0 = Delay[t]
      BY <1>5
    <3> QED
      BY <1>1, <1>2, <1>4, <1>5, <1>6, <2>1, <3>1, <3>2, TimerOn
  <2> QED
    BY <2>2, <2>3
<1> QED
  BY <1>1, <1>2, <1>9, <1>10, <1>11, <1>12

(* Time passes for the tasks and for what is left to do.                    *)
LEMMA ClockStep ==
    ASSUME BusyInv, TimerInv, Clock
    PROVE  BusyInv' /\ TimerInv' /\ OnlyBusy({})
<1>1. /\ main' = main /\ busy' = busy /\ UNCHANGED <<timerOf, delayedTask, period, usable>>
      /\ delayed' = [i \in DOMAIN delayed |-> Elapsed(delayed[i])]
      /\ waited' = [t \in Timers |-> IF waited[t] \in 0 .. Delay[t] - 1 THEN waited[t] + 1
                                     ELSE waited[t]]
      /\ toTrigger' = [t \in Timers |-> IF toTrigger[t] > 0 THEN toTrigger[t] - 1 ELSE toTrigger[t]]
  BY DEF Clock, TimePasses, TimersAge, mainVars
<1>2. TimerTypes /\ PairsInv /\ DelaysInv /\ DelayedInv
  BY DEF TimerInv
<1>3. delayed \in Seq(TimerEntries)
  BY <1>2 DEF DelayedInv, TimerEntries
<1>4. /\ DOMAIN delayed' = DOMAIN delayed
      /\ \A i \in DOMAIN delayed :
           /\ delayed'[i] \in TimerEntries /\ delayed'[i].task = delayed[i].task
           /\ delayed'[i].left = IF delayed[i].left = 0 THEN 0 ELSE delayed[i].left - 1
  <2>1. ASSUME NEW e \in TimerEntries
        PROVE  /\ Elapsed(e) \in TimerEntries /\ Elapsed(e).task = e.task
               /\ Elapsed(e).left = IF e.left = 0 THEN 0 ELSE e.left - 1
    BY DEF Elapsed, TimerEntries
  <2>2. \A i \in DOMAIN delayed : delayed[i] \in TimerEntries
    BY <1>3
  <2>3. DOMAIN delayed' = DOMAIN delayed /\ \A i \in DOMAIN delayed : delayed'[i] = Elapsed(delayed[i])
    BY <1>1
  <2> QED
    BY <2>1, <2>2, <2>3
<1>5. delayed' \in Seq(TimerEntries)
  <2>1. Len(delayed) \in Nat /\ DOMAIN delayed = 1 .. Len(delayed)
    BY <1>3
  <2>2. delayed' \in [1 .. Len(delayed) -> TimerEntries]
    BY <1>1, <1>4, <2>1
  <2> QED
    BY <2>1, <2>2, SeqDef
<1>6. \A j \in TimerTasks : Pending(j)' <=> Pending(j)
  BY <1>4 DEF Pending
<1>7. DelayedInv'
  <2>1. \A i, j \in DOMAIN delayed' : delayed'[i].task = delayed'[j].task => i = j
    BY <1>2, <1>4 DEF DelayedInv
  <2>2. \A j \in TimerTasks : Pending(j)' => busy' \notin {Task("timer", j), Task("callback", j)}
    BY <1>1, <1>2, <1>6 DEF DelayedInv
  <2>3. (~ LoopAlive \/ main = "telling")' => delayed' = <<>>
    <3> HAVE (~ LoopAlive \/ main = "telling")'
    <3>1. delayed = <<>>
      BY <1>1, <1>2 DEF DelayedInv, LoopAlive
    <3>2. DOMAIN delayed' = {}
      BY <1>4, <3>1
    <3> QED
      BY <1>5, <3>2
  <2> QED
    BY <1>5, <2>1, <2>2, <2>3 DEF DelayedInv, TimerEntries
<1>8. ASSUME NEW t \in Timers
      PROVE  /\ waited[t] \in -1 .. Delay[t] /\ toTrigger[t] \in -1 .. Delay[t] /\ Delay[t] \in Nat \ {0}
             /\ waited'[t] = IF waited[t] >= 0 /\ waited[t] < Delay[t] THEN waited[t] + 1 ELSE waited[t]
             /\ toTrigger'[t] = IF toTrigger[t] > 0 THEN toTrigger[t] - 1 ELSE toTrigger[t]
  <2>1. waited[t] \in -1 .. Delay[t] /\ toTrigger[t] \in -1 .. Delay[t] /\ Delay[t] \in Nat \ {0}
    BY <1>2, TimerAssumption DEF TimerTypes
  <2> QED
    BY <1>1, <2>1
<1>9. TimerTypes'
  <2>1. \A t \in Timers : waited'[t] \in -1 .. Delay[t] /\ toTrigger'[t] \in -1 .. Delay[t]
    BY <1>8
  <2>2. \A t \in Timers : waited'[t] \in Int /\ toTrigger'[t] \in Int
    BY <1>8
  <2>3. waited' \in [Timers -> Int] /\ toTrigger' \in [Timers -> Int]
    BY <1>1, <2>2
  <2> QED
    BY <1>1, <1>2, <2>1, <2>3 DEF TimerTypes
<1>10. PairsInv'
  BY <1>1, <1>2, <1>6 DEF PairsInv, IsRunning
<1>11. DelaysInv'
  <2> SUFFICES ASSUME NEW s \in Timers, IsRunning(s)
               PROVE  /\ waited'[s] \in 0 .. Delay[s] /\ period[delayedTask[s]] \in 1 .. Delay[s]
                      /\ Kind[s] = "Delay" => toTrigger'[s] + waited'[s] = Delay[s]
                      /\ Kind[s] # "Delay" =>
                           /\ period[delayedTask[s]] = Delay[s]
                           /\ busy = Task("timer", delayedTask[s]) => waited'[s] = Delay[s]
                           /\ \A i \in DOMAIN delayed :
                                delayed[i].task = Task("timer", delayedTask[s]) =>
                                  delayed'[i].left + waited'[s] = Delay[s]
    BY <1>1, <1>4 DEF DelaysInv, IsRunning
  <2>1. /\ waited[s] \in 0 .. Delay[s] /\ period[delayedTask[s]] \in 1 .. Delay[s]
        /\ Kind[s] = "Delay" => toTrigger[s] + waited[s] = Delay[s]
        /\ Kind[s] # "Delay" =>
             /\ period[delayedTask[s]] = Delay[s]
             /\ busy = Task("timer", delayedTask[s]) => waited[s] = Delay[s]
             /\ \A i \in DOMAIN delayed : delayed[i].task = Task("timer", delayedTask[s]) =>
                  delayed[i].left + waited[s] = Delay[s]
    BY <1>2 DEF DelaysInv
  <2>2. waited'[s] \in 0 .. Delay[s] /\ (waited[s] = Delay[s] => waited'[s] = Delay[s])
    BY <1>8, <2>1
  <2>3. toTrigger[s] + waited[s] = Delay[s] => toTrigger'[s] + waited'[s] = Delay[s]
    BY <1>8, <2>1
  <2>4. \A i \in DOMAIN delayed : delayed[i].left + waited[s] = Delay[s] =>
           delayed'[i].left + waited'[s] = Delay[s]
    <3>1. \A i \in DOMAIN delayed : delayed[i] \in TimerEntries
      BY <1>3
    <3>2. \A i \in DOMAIN delayed : delayed[i].left \in Nat
      BY <3>1 DEF TimerEntries
    <3> QED
      BY <1>4, <1>8, <2>1, <3>2
  <2> QED
    BY <2>1, <2>2, <2>3, <2>4
<1>12. BusyInv' /\ OnlyBusy({})
  BY <1>1 DEF BusyInv, OnlyBusy
<1> QED
  BY <1>7, <1>9, <1>10, <1>11, <1>12 DEF TimerInv

-----------------------------------------------------------------------------
(* The end of the loop: what is in the queue is deleted, twice.             *)
LEMMA QueueDeleted ==
    ASSUME QueueInv, BusyInv, LifeInv, RelayInv, StopInv, ObserversInv,
           main \in {"deleting", "telling"}, main' \in {"telling", "none"},
           queue' = <<>>, busy' = busy, UNCHANGED <<originAlive, originQueue, stopping>>,
           QueueLost, NoticesLost
    PROVE  /\ QueueInv' /\ BusyInv' /\ RelayInv' /\ StopInv' /\ NoticesInv'
           /\ busy = Null /\ deliveries = <<>> /\ \A k, i : ~ Queued(k, i)'
<1>1. busy = Null /\ deliveries = <<>>
  BY DEF BusyInv, ObserversInv, StackInv, Serving, Null
<1>2. ToSet(queue') = {} /\ IsInjective(queue') /\ queue' \in Seq(Tasks)
  <2>1. queue' = <<>>
    OBVIOUS
  <2>2. queue' \in Seq(Tasks) /\ DOMAIN queue' = {}
    BY <2>1
  <2> QED
    BY <2>2 DEF ToSet, IsInjective
<1>3. QueueInv'
  BY <1>2 DEF QueueInv
<1>4. BusyInv'
  BY <1>1 DEF BusyInv
<1>5. \A k, i : ~ Queued(k, i)' /\ (InQueue(k, i) <=> Queued(k, i))
  BY <1>2 DEF Queued, InQueue, ToSet
<1>6. \A n : InTransit(n) <=> Queued("notify", n)
  BY DEF Queued, InTransit, ToSet
<1>7. /\ relay' = [r \in Relays |-> IF Queued("relay", r) THEN "task lost" ELSE relay[r]]
      /\ post' = [p \in Posts |-> IF Queued("post", p) THEN "deleted" ELSE post[p]]
      /\ beforeStop' = beforeStop
  <2>1. DOMAIN post = Posts
    BY DEF RelayInv
  <2> QED
    BY <1>5, <2>1 DEF QueueLost
<1>8. RelayInv'
  <2>1. /\ relay' \in [Relays -> {"unused", "new", "posted", "deleted at once", "task done",
                                  "reply posted", "replied", "task lost", "reply lost"}]
        /\ post' \in [Posts -> {"unused", "new", "posted", "refused", "done", "deleted"}]
    BY <1>7 DEF RelayInv
  <2>2. \A r \in Relays : r \in ToSet(originQueue) => relay'[r] = "reply posted"
    BY <1>7 DEF RelayInv
  <2>3. \A r \in Relays : busy' # Task("relay", r)
    BY <1>1, TaskParts
  <2>4. /\ originAlive' \in BOOLEAN /\ originQueue' \in Seq(Relays) /\ IsInjective(originQueue')
        /\ originQueue' = originQueue
    BY DEF RelayInv
  <2> QED
    BY <1>5, <2>1, <2>2, <2>3, <2>4 DEF RelayInv
<1>9. StopInv'
  <2>1. ~ Queued("quit", 0)
    BY DEF LifeInv
  <2>2. \A task : ~ AheadOf(queue, task, Task("quit", 0))
    BY <2>1 DEF AheadOf, Queued, ToSet
  <2>3. \A task : Served(task) => Served(task)'
    BY <1>7 DEF Served, RelayInv
  <2> QED
    BY <1>7, <2>2, <2>3 DEF StopInv
<1>10. NoticesInv'
  <2>1. Delivered = {} /\ deliveries' = deliveries /\ existingOnly' = existingOnly
    <3>1. DOMAIN deliveries = {}
      BY <1>1
    <3> QED
      BY <3>1 DEF Delivered, NoticesLost
  <2>2. Delivered' = {} /\ DOMAIN deliveries' = {}
    BY <1>1, <2>1 DEF Delivered
  <2>3. /\ notice' = [n \in Notices |-> IF Queued("notify", n) THEN "lost" ELSE notice[n]]
        /\ due' = [n \in Notices |-> IF Queued("notify", n) THEN {} ELSE due[n]]
        /\ sentTo' = [n \in Notices |-> IF Queued("notify", n) THEN 0 ELSE sentTo[n]]
    BY <1>6 DEF NoticesLost
  <2>4. /\ notice \in [Notices -> {"unused", "new", "posted", "done", "lost"}]
        /\ sentTo \in [Notices -> Contexts \union {0}] /\ due \in [Notices -> SUBSET Observers]
        /\ existingOnly \in BOOLEAN
        /\ \A n \in Notices : due[n] # {} => Queued("notify", n)
    BY <2>1 DEF ObserversInv, NoticesInv, NoticeInv, IterationInv
  <2>5. /\ notice' \in [Notices -> {"unused", "new", "posted", "done", "lost"}]
        /\ sentTo' \in [Notices -> Contexts \union {0}] /\ due' \in [Notices -> SUBSET Observers]
        /\ \A n \in Notices : due'[n] = {}
    BY <2>3, <2>4
  <2> QED
    BY <1>5, <2>1, <2>2, <2>4, <2>5 DEF NoticesInv, NoticeInv, IterationInv
<1> QED
  BY <1>1, <1>3, <1>4, <1>5, <1>8, <1>9, <1>10

(* The loop goes in two steps, with the tasks each finds in the queue.      *)
LEMMA DestroyLoopStep ==
    ASSUME ClientsInv, DestroyLoop
    PROVE  ClientsInv'
<1>1. /\ QueueInv /\ BusyInv /\ LifeInv /\ WatcherInv /\ RelayInv /\ StopInv /\ TimerInv
      /\ ObserversInv
  BY DEF ClientsInv
<1>2. /\ main \in {"deleting", "telling"} /\ main' \in {"telling", "none"}
      /\ queue' = <<>> /\ busy' = busy /\ QueueLost /\ NoticesLost
      /\ UNCHANGED <<originAlive, originQueue, stopping, started, owner, quit, messageLoop>>
  BY DEF DestroyLoop, DeletePendingTasks, TellObservers, ownerVars, originVars
<1>3. /\ QueueInv' /\ BusyInv' /\ RelayInv' /\ StopInv' /\ NoticesInv'
      /\ busy = Null /\ deliveries = <<>> /\ \A k, i : ~ Queued(k, i)'
  BY <1>1, <1>2, QueueDeleted
<1>4. LifeInv'
  BY <1>1, <1>2, <1>3 DEF LifeInv
<1>5. StackInv'
  <2>1. deliveries' = deliveries
    BY <1>2 DEF NoticesLost
  <2> QED
    BY <1>1, <1>2, <1>3, <2>1, TaskParts DEF ObserversInv, StackInv, Serving
<1>6. InUse' = {} /\ InUse = {}
  <2>1. deliveries' = deliveries /\ DOMAIN deliveries = {}
    BY <1>2, <1>3 DEF NoticesLost
  <2> QED
    BY <2>1 DEF InUse
<1>7. CASE main = "deleting"
  <2>1. /\ main' = "telling" /\ delayed' = <<>> /\ TimerTasksDeleted
        /\ UNCHANGED <<watcherVars, entry, observers>>
    BY <1>7 DEF DestroyLoop, DeletePendingTasks, TellObservers
  <2>2. WatcherInv'
    BY <1>1, <1>2, <1>3, <2>1, TaskParts DEF WatcherInv, watcherVars, LoopAlive
  <2>3. ListsInv'
    <3>1. /\ Allocated' = Allocated /\ \A c : Listed(c)' = Listed(c)
      BY <2>1 DEF Allocated, Listed
    <3>2. busy'.kind # "adding" /\ LoopAlive'
      BY <1>2, <1>3, <2>1, TaskParts DEF LoopAlive
    <3> QED
      BY <1>1, <1>2, <1>3, <1>6, <2>1, <3>1, <3>2 DEF ObserversInv, ListsInv
  <2>4. TimerInv'
    <3>1. TimerTypes /\ PairsInv /\ DelaysInv /\ DelayedInv
      BY <1>1 DEF TimerInv
    <3>2. \A k \in TimerTasks : timerOf[k] # NoTimer => Exists(k)
      BY <3>1 DEF PairsInv, Exists, Pending
    <3>3. \A k \in TimerTasks : timerOf'[k] = NoTimer
      BY <2>1, <3>2 DEF TimerTasksDeleted
    <3>4. \A t \in Timers : delayedTask'[t] = 0
      <4> TAKE t \in Timers
      <4>1. CASE delayedTask[t] = 0
        BY <2>1, <4>1 DEF TimerTasksDeleted
      <4>2. CASE delayedTask[t] \in TimerTasks
        <5>1. timerOf[delayedTask[t]] # NoTimer
          BY <3>1, <4>2, TimerAssumption DEF PairsInv
        <5> QED
          BY <2>1, <3>2, <4>2, <5>1 DEF TimerTasksDeleted
      <4> QED
        BY <3>1, <4>1, <4>2 DEF TimerTypes
    <3>5. TimerTypes'
      <4>1. /\ timerOf' \in [TimerTasks -> Timers \union {NoTimer}]
            /\ delayedTask' \in [Timers -> TimerTasks \union {0}]
            /\ period' \in [TimerTasks -> Nat]
            /\ UNCHANGED <<toTrigger, usable>>
        BY <2>1, <3>1 DEF TimerTasksDeleted, TimerTypes
      <4>2. \A t \in Timers : waited'[t] \in {-1, waited[t]}
        BY <2>1 DEF TimerTasksDeleted
      <4>3. \A t \in Timers : Delay[t] \in Nat /\ waited[t] \in -1 .. Delay[t]
        BY <3>1, TimerAssumption DEF TimerTypes
      <4>4. \A t \in Timers : waited'[t] \in -1 .. Delay[t] /\ waited'[t] \in Int
        BY <4>2, <4>3
      <4>5. DOMAIN waited' = Timers /\ waited' = [t \in Timers |-> waited'[t]]
        BY <2>1 DEF TimerTasksDeleted
      <4>6. waited' \in [Timers -> Int]
        BY <4>4, <4>5
      <4> QED
        BY <3>1, <4>1, <4>4, <4>6 DEF TimerTypes
    <3>6. DOMAIN delayed' = {} /\ delayed' \in Seq([task : {Task("timer", k) : k \in TimerTasks}, left : Nat])
      <4>1. delayed' = <<>>
        BY <2>1
      <4> QED
        BY <4>1
    <3>7. DelayedInv'
      BY <2>1, <3>6 DEF DelayedInv, Pending
    <3>8. PairsInv'
      BY <3>3, <3>4, TimerAssumption DEF PairsInv, IsRunning
    <3>9. DelaysInv'
      BY <3>4 DEF DelaysInv, IsRunning
    <3> QED
      BY <3>5, <3>7, <3>8, <3>9 DEF TimerInv
  <2> QED
    BY <1>3, <1>4, <1>5, <2>2, <2>3, <2>4 DEF ClientsInv, ObserversInv
<1>8. CASE main = "telling"
  <2>1. /\ main' = "none" /\ delayed' = delayed /\ LoopEndsWatch /\ ContextAbandoned
        /\ UNCHANGED timerVars
    BY <1>8 DEF DestroyLoop, DeletePendingTasks, TellObservers
  <2>2. WatcherInv'
    <3>1. StopWatching /\ UNCHANGED <<callback, signaled>> /\ watcher' = watcher
      BY <2>1 DEF LoopEndsWatch
    <3>2. busy'.kind # "signal"
      BY <1>2, <1>3, TaskParts
    <3> QED
      BY <1>1, <3>1, <3>2, WatchStopped
  <2>3. ListsInv'
    <3>1. entry' = 0 /\ observers' = << >>
      BY <2>1 DEF ContextAbandoned
    <3>2. Allocated' = {}
      BY <3>1 DEF Allocated
    <3>3. busy'.kind # "adding"
      BY <1>2, <1>3, TaskParts
    <3> QED
      BY <1>6, <3>1, <3>2, <3>3 DEF ListsInv
  <2>4. TimerInv'
    <3>1. OnlyBusy({})
      BY <1>2 DEF OnlyBusy
    <3>2. ~ LoopAlive \/ main = "telling" \/ delayed = <<>>
      BY <1>8
    <3> QED
      BY <1>1, <2>1, <3>1, <3>2, TimersKept
  <2> QED
    BY <1>3, <1>4, <1>5, <2>2, <2>3, <2>4 DEF ClientsInv, ObserversInv
<1> QED
  BY <1>2, <1>7, <1>8

-----------------------------------------------------------------------------
(* The observer list.                                                       *)
(* notify_depth_ is 0 for a list that no iteration is of.                   *)
LEMMA NoIterations ==
    ASSUME NEW S, NEW s \in Seq(S), NEW c
    PROVE  NotifyDepth(c, s) = 0 <=> \A i \in DOMAIN s : s[i].context # c
<1> DEFINE own == {i \in DOMAIN s : s[i].context = c}
<1>1. Len(s) \in Nat /\ own \in SUBSET (1 .. Len(s))
  OBVIOUS
<1>2. own = {} <=> \A i \in DOMAIN s : s[i].context # c
  OBVIOUS
<1>3. NotifyDepth(c, s) = Cardinality(own)
  BY DEF NotifyDepth
<1> HIDE DEF own
<1>4. IsFiniteSet(own)
  BY <1>1, PlacesOfSlots
<1>5. Cardinality(own) = 0 <=> own = {}
  BY <1>4, FS_EmptySet
<1> QED
  BY <1>2, <1>3, <1>5

(* What the lists invariant says of the list of each context.               *)
LEMMA ListFacts ==
    ASSUME ListsInv
    PROVE  /\ entry # 0 => entry \in Allocated /\ Registered = Listed(entry)
           /\ Registered # {} => entry # 0
           /\ Allocated \subseteq Contexts /\ 0 \notin Contexts /\ 0 \notin Observers
           /\ InUse \subseteq Allocated
           /\ \A c \in Allocated :
                /\ observers[c] \in Seq(Observers \union {0}) /\ Len(observers[c]) \in Nat
                /\ DOMAIN observers[c] = 1 .. Len(observers[c]) /\ Len(observers[c]) <= MaxList
                /\ Listed(c) \subseteq Observers
                /\ \A s \in DOMAIN observers[c] :
                     observers[c][s] # 0 <=> observers[c][s] \in Listed(c)
                /\ \A o \in Listed(c) : \E s \in DOMAIN observers[c] : observers[c][s] = o
<1>1. 0 \notin Contexts /\ 0 \notin Observers
  BY ObserversAssumption
<1>2. Allocated \subseteq Contexts /\ InUse \subseteq Allocated /\ (entry # 0 => entry \in Allocated)
  BY DEF ListsInv
<1>3. (entry # 0 => Registered = Listed(entry)) /\ (Registered # {} => entry # 0)
  BY DEF Registered
<1>4. ASSUME NEW c \in Allocated
      PROVE  /\ observers[c] \in Seq(Observers \union {0}) /\ Len(observers[c]) \in Nat
             /\ DOMAIN observers[c] = 1 .. Len(observers[c]) /\ Len(observers[c]) <= MaxList
             /\ Listed(c) \subseteq Observers
             /\ \A s \in DOMAIN observers[c] :
                  observers[c][s] # 0 <=> observers[c][s] \in Listed(c)
             /\ \A o \in Listed(c) : \E s \in DOMAIN observers[c] : observers[c][s] = o
  <2>1. observers[c] \in Seq(Observers \union {0}) /\ Len(observers[c]) <= MaxList
    BY DEF ListsInv
  <2>2. \A s \in DOMAIN observers[c] : observers[c][s] \in Observers \union {0}
    BY <2>1
  <2> QED
    BY <2>1, <2>2 DEF Listed, ToSet
<1> QED
  BY <1>1, <1>2, <1>3, <1>4

(* The innermost iteration is the last one.                                 *)
LEMMA StackFacts ==
    ASSUME StackInv
    PROVE  /\ deliveries \in Seq(Iterations) /\ Len(deliveries) \in Nat
           /\ DOMAIN deliveries = 1 .. Len(deliveries)
           /\ \A i \in DOMAIN deliveries :
                /\ deliveries[i] \in Iterations
                /\ deliveries[i].context \in Contexts /\ deliveries[i].index \in Nat
                /\ deliveries[i].notice \in Notices /\ deliveries[i].max \in Nat
                /\ deliveries[i].context \in InUse /\ deliveries[i].notice \in Delivered
           /\ deliveries # <<>> => /\ Len(deliveries) \in DOMAIN deliveries
                                   /\ Innermost = deliveries[Len(deliveries)]
<1>1. deliveries \in Seq(Iterations)
  BY DEF StackInv
<1>2. /\ Len(deliveries) \in Nat /\ DOMAIN deliveries = 1 .. Len(deliveries)
      /\ \A i \in DOMAIN deliveries : deliveries[i] \in Iterations
      /\ deliveries # <<>> => Len(deliveries) \in DOMAIN deliveries
  BY <1>1
<1>3. \A i \in DOMAIN deliveries :
         /\ deliveries[i].context \in Contexts /\ deliveries[i].index \in Nat
         /\ deliveries[i].notice \in Notices /\ deliveries[i].max \in Nat
  BY <1>2 DEF Iterations
<1>4. \A i \in DOMAIN deliveries : deliveries[i].context \in InUse /\ deliveries[i].notice \in Delivered
  BY DEF InUse, Delivered
<1> QED
  BY <1>1, <1>2, <1>3, <1>4 DEF Innermost, Last

(* A notification comes to its context, or too late for it.                 *)
LEMMA TakeNoticeStep ==
    ASSUME QueueInv, BusyInv, ObserversInv, OfObservers(TakeNotice)
    PROVE  /\ QueueInv' /\ BusyInv' /\ ObserversInv' /\ main' = main
           /\ OnlyKind("notify") /\ OrderKept /\ OnlyBusy({"notifying", "observer", "adding"})
<1>1. /\ \/ main = "running" /\ busy = Null
         \/ main = "running" /\ busy.kind = "observer" /\ Len(deliveries) < MaxNotify
      /\ queue # <<>> /\ NextTask.kind = "notify" /\ queue' = Tail(queue)
      /\ BeginDelivery(NextTask.id) /\ sentTo' = [sentTo EXCEPT ![NextTask.id] = 0]
      /\ main' = main /\ UNCHANGED <<entry, observers, existingOnly, due>>
  BY DEF OfObservers, TakeNotice, Idle, mainVars
<1>2. StackInv /\ ListsInv /\ NoticesInv
  BY DEF ObserversInv
<1>3. LoopAlive'
  BY <1>1 DEF LoopAlive
<1>4. /\ QueueInv' /\ OnlyKind("notify") /\ OrderKept
      /\ NextTask \in Tasks /\ NextTask \in ToSet(queue) /\ NextTask \notin ToSet(queue')
      /\ ToSet(queue) = ToSet(queue') \union {NextTask}
  BY <1>1, <1>3, TaskTaken
<1>5. PICK n \in Notices : NextTask = Task("notify", n) /\ NextTask.id = n
  <2>1. NextTask.kind = "notify" /\ NextTask \in Tasks
    BY <1>1, <1>4
  <2> QED
    BY <2>1, TasksByKind, TaskParts
<1>6. /\ \A m \in Notices : Queued("notify", m)' <=> Queued("notify", m) /\ m # n
      /\ Queued("notify", n)
  BY <1>4, <1>5, TaskParts DEF Queued
<1>7. /\ notice[n] = "posted" /\ n \notin Delivered /\ sentTo[n] # 0
      /\ sentTo'[n] = 0 /\ \A m \in Notices : m # n => sentTo'[m] = sentTo[m]
      /\ sentTo' \in [Notices -> Contexts \union {0}]
  BY <1>1, <1>2, <1>5, <1>6 DEF NoticesInv, NoticeInv, IterationInv
<1>8. busy.kind \in {"none", "observer"} /\ busy.kind # "adding" /\ busy.kind # "notifying"
  BY <1>1, TaskParts
<1>9. Registered' = Registered /\ Allocated' = Allocated /\ \A c : Listed(c)' = Listed(c)
  BY <1>1 DEF Registered, Allocated, Listed
<1>10. \A o, i : Slot(o, i)' <=> Slot(o, i)
  BY <1>1 DEF Slot
<1>11. /\ existingOnly' \in BOOLEAN /\ due' \in [Notices -> SUBSET Observers]
       /\ \A m \in Notices : due'[m] = due[m] /\ due[m] \subseteq Registered
  BY <1>1, <1>2 DEF NoticesInv, NoticeInv, IterationInv
<1>12. CASE entry # sentTo[n]
  <2>1. /\ notice' = [notice EXCEPT ![n] = "done"] /\ UNCHANGED <<busy, deliveries>>
    BY <1>1, <1>5, <1>12 DEF BeginDelivery
  <2>2. BusyInv' /\ OnlyBusy({"notifying", "observer", "adding"})
    BY <1>1, <2>1 DEF BusyInv, OnlyBusy
  <2>3. Delivered' = Delivered /\ InUse' = InUse
    BY <2>1 DEF Delivered, InUse
  <2>4. StackInv'
    BY <1>2, <2>1 DEF StackInv, Serving, Innermost
  <2>5. ListsInv'
    BY <1>1, <1>2, <1>3, <1>8, <1>9, <2>1, <2>3 DEF ListsInv
  <2>6. NoticesInv'
    <3>1. due[n] = {}
      BY <1>2, <1>7, <1>12 DEF NoticesInv, NoticeInv, IterationInv
    <3>2. /\ notice' \in [Notices -> {"unused", "new", "posted", "done", "lost"}]
          /\ \A m \in Notices : m # n => notice'[m] = notice[m]
      BY <1>2, <2>1 DEF NoticesInv, NoticeInv, IterationInv
    <3>3. \A m \in Notices : NoticeInv(m)'
      BY <1>1, <1>2, <1>6, <1>7, <1>9, <1>11, <2>3, <3>1, <3>2 DEF NoticesInv, NoticeInv, IterationInv
    <3> QED
      BY <1>1, <1>2, <1>7, <1>9, <1>10, <1>11, <2>1, <3>2, <3>3 DEF NoticesInv, NoticeInv, IterationInv
  <2> QED
    BY <1>1, <1>4, <2>2, <2>4, <2>5, <2>6 DEF ObserversInv
<1>13. CASE entry = sentTo[n]
  <2>1. /\ deliveries' = Append(deliveries, Iteration(n)) /\ busy' = Task("notifying", n)
        /\ notice' = notice
    BY <1>1, <1>5, <1>13 DEF BeginDelivery
  <2>2. BusyInv' /\ OnlyBusy({"notifying", "observer", "adding"})
    <3>1. busy'.kind = "notifying" /\ main' = "running"
      BY <1>1, <2>1, TaskParts
    <3> QED
      BY <1>8, <2>1, <3>1 DEF BusyInv, OnlyBusy
  <2>3. entry # 0 /\ entry \in Allocated /\ entry \in Contexts /\ Registered = Listed(entry)
    BY <1>2, <1>7, <1>13, ListFacts
  <2>4. /\ Len(observers[entry]) \in Nat /\ DOMAIN observers[entry] = 1 .. Len(observers[entry])
        /\ Len(observers[entry]) <= MaxList /\ MaxList \in Nat /\ Registered \subseteq Observers
        /\ \A s \in DOMAIN observers[entry] :
             observers[entry][s] # 0 => observers[entry][s] \in Registered
    BY <1>2, <2>3, ListFacts, ObserversAssumption
  <2> DEFINE new == Iteration(n)
  <2>5. /\ new.context = entry /\ new.index = 0 /\ new.notice = n /\ new.observer = 0
        /\ new.max = (IF existingOnly THEN Len(observers[entry]) ELSE MaxList)
        /\ new.present = (IF existingOnly THEN Registered ELSE {}) /\ new.called = {}
        /\ new \in Iterations
    BY <1>2, <2>3, <2>4 DEF Iteration, Iterations, NoticesInv, NoticeInv, IterationInv
  <2>6. deliveries' = Append(deliveries, new)
    BY <2>1
  <2> HIDE DEF new
  <2>7. deliveries \in Seq(Iterations) /\ Len(deliveries) \in Nat /\ DOMAIN deliveries = 1 .. Len(deliveries)
    BY <1>2, StackFacts
  <2>8. /\ deliveries' \in Seq(Iterations) /\ Len(deliveries') = Len(deliveries) + 1
        /\ DOMAIN deliveries' = 1 .. Len(deliveries) + 1
        /\ \A i \in DOMAIN deliveries : i \in DOMAIN deliveries' /\ deliveries'[i] = deliveries[i]
        /\ deliveries'[Len(deliveries) + 1] = new
        /\ \A i \in DOMAIN deliveries' : i \in DOMAIN deliveries \/ i = Len(deliveries) + 1
    BY <2>5, <2>6, <2>7
  <2>9. Delivered' = Delivered \union {n} /\ InUse' = InUse \union {entry}
    <3>1. Len(deliveries) + 1 \in DOMAIN deliveries'
      BY <2>7, <2>8
    <3> QED
      BY <2>5, <2>8, <3>1 DEF Delivered, InUse
  <2>10. StackInv'
    <3>1. busy = Null => deliveries = <<>>
      BY <1>2, TaskParts DEF StackInv, Serving
    <3>2. Len(deliveries') <= MaxNotify
      <4>1. MaxNotify \in Nat \ {0} /\ (deliveries = <<>> => Len(deliveries) = 0)
        BY ObserversAssumption
      <4> QED
        BY <1>1, <2>7, <2>8, <3>1, <4>1
    <3>3. \A i, j \in DOMAIN deliveries' : deliveries'[i].notice = deliveries'[j].notice => i = j
      <4>1. \A i \in DOMAIN deliveries : deliveries[i].notice # n
        BY <1>7 DEF Delivered
      <4>2. \A i, j \in DOMAIN deliveries : deliveries[i].notice = deliveries[j].notice => i = j
        BY <1>2 DEF StackInv
      <4> QED
        BY <2>5, <2>8, <4>1, <4>2
    <3>4. \A i \in DOMAIN deliveries : deliveries[i].observer # 0
      <4>1. CASE deliveries = <<>>
        BY <2>7, <4>1
      <4>2. CASE deliveries # <<>>
        <5>1. busy.kind = "observer"
          BY <1>1, <3>1, <4>2
        <5>2. Innermost.observer # 0 /\ Innermost = deliveries[Len(deliveries)]
          BY <1>2, <4>2, <5>1, StackFacts DEF StackInv
        <5>3. \A i \in DOMAIN deliveries : i < Len(deliveries) => deliveries[i].observer # 0
          BY <1>2 DEF StackInv
        <5> QED
          BY <2>7, <5>2, <5>3
      <4> QED
        BY <4>1, <4>2
    <3>5. Innermost'.notice = n
      <4>1. Innermost' = deliveries'[Len(deliveries) + 1]
        BY <2>8 DEF Innermost, Last
      <4> QED
        BY <2>5, <2>8, <4>1
    <3>6. deliveries' # <<>>
      BY <2>7, <2>8
    <3>7. \A i \in DOMAIN deliveries' : i < Len(deliveries') => deliveries'[i].observer # 0
      BY <2>7, <2>8, <3>4
    <3> QED
      BY <2>1, <2>8, <3>2, <3>3, <3>5, <3>6, <3>7, TaskParts DEF StackInv, Serving
  <2>11. ListsInv'
    <3>1. busy'.kind # "adding"
      BY <2>1, TaskParts
    <3>2. \A c \in Allocated : observers[c] # <<>>
      BY <1>2, <1>8 DEF ListsInv
    <3> QED
      BY <1>1, <1>2, <1>3, <1>9, <2>3, <2>9, <3>1, <3>2 DEF ListsInv
  <2>12. NoticesInv'
    <3>1. \A m \in Notices : NoticeInv(m)'
      BY <1>1, <1>2, <1>6, <1>7, <1>9, <1>11, <2>1, <2>9 DEF NoticesInv, NoticeInv, IterationInv
    <3>2. ASSUME NEW i \in DOMAIN deliveries'
          PROVE  IterationInv(i)'
      <4>1. CASE i \in DOMAIN deliveries
        <5>1. deliveries'[i] = deliveries[i]
          BY <2>8, <4>1
        <5>2. UNCHANGED <<entry, observers, existingOnly, due>>
          BY <1>1
        <5> QED
          BY <1>2, <1>9, <1>10, <4>1, <5>1, <5>2 DEF NoticesInv, NoticeInv, IterationInv
      <4>2. CASE i = Len(deliveries) + 1
        <5>1. deliveries'[i] = new
          BY <2>8, <4>2
        <5>2. UNCHANGED <<entry, observers, existingOnly, due>>
          BY <1>1
        <5> QED
          BY <2>4, <2>5, <5>1, <5>2 DEF IterationInv
      <4> QED
        BY <2>8, <4>1, <4>2
    <3>3. notice' \in [Notices -> {"unused", "new", "posted", "done", "lost"}]
      BY <1>2, <2>1 DEF NoticesInv, NoticeInv, IterationInv
    <3> QED
      BY <1>7, <1>11, <3>1, <3>2, <3>3 DEF NoticesInv, NoticeInv, IterationInv
  <2> QED
    BY <1>1, <1>4, <2>2, <2>10, <2>11, <2>12 DEF ObserversInv
<1> QED
  BY <1>12, <1>13

(* What the thread goes back to is the method that an iteration has called. *)
LEMMA GoneBackTo ==
    ASSUME NEW S, NEW s \in Seq(S), s = <<>> \/ Last(s).observer \in Observers
    PROVE  /\ BackTo(s) \in {Null} \union {Task("observer", o) : o \in Observers}
           /\ s = <<>> => BackTo(s) = Null
           /\ s # <<>> => BackTo(s).kind = "observer"
BY TaskParts DEF BackTo

(* The new observer goes to the end of the list.                            *)
LEMMA PushObserverStep ==
    ASSUME QueueInv, BusyInv, ObserversInv, OfObservers(PushObserver)
    PROVE  /\ QueueInv' /\ BusyInv' /\ ObserversInv' /\ main' = main
           /\ OnlyKind("notify") /\ OrderKept /\ OnlyBusy({"notifying", "observer", "adding"})
<1>1. /\ busy.kind = "adding" /\ busy' = BackTo(deliveries) /\ queue' = queue /\ main' = main
      /\ observers' = [observers EXCEPT ![entry] = Append(@, busy.id)]
      /\ UNCHANGED <<entry, existingOnly, deliveries, notice, sentTo, due>>
  BY DEF OfObservers, PushObserver, mainVars
<1>2. StackInv /\ ListsInv /\ NoticesInv
  BY DEF ObserversInv
<1>3. PICK o \in Observers : busy = Task("adding", o) /\ busy.id = o
  <2>1. busy.kind = "adding"
    BY <1>1
  <2> QED
    BY <2>1, TaskParts DEF BusyInv
<1>4. main = "running"
  BY <1>3, TaskParts DEF BusyInv
<1>5. QueueInv' /\ OnlyKind("notify") /\ OrderKept
  BY <1>1, QueueStays DEF QueueInv, LoopAlive
<1>6. /\ entry # 0 /\ entry \in Allocated /\ Len(observers[entry]) < MaxList /\ o \notin Registered
      /\ Registered = Listed(entry) /\ o # 0
  BY <1>1, <1>2, <1>3, ListFacts DEF ListsInv
<1>7. deliveries = <<>> \/ Last(deliveries).observer \in Observers
  <2>1. deliveries # <<>> => Innermost.observer # 0 /\ Innermost \in Iterations
    BY <1>1, <1>2, StackFacts DEF StackInv
  <2> QED
    BY <2>1 DEF Innermost, Iterations
<1>8. /\ busy' \in {Null} \union {Task("observer", x) : x \in Observers}
      /\ deliveries = <<>> => busy' = Null
      /\ deliveries # <<>> => busy'.kind = "observer"
  <2>1. deliveries \in Seq(Iterations)
    BY <1>2 DEF StackInv
  <2> QED
    BY <1>1, <1>7, <2>1, GoneBackTo
<1>9. BusyInv' /\ OnlyBusy({"notifying", "observer", "adding"})
  <2>1. busy'.kind \in {"none", "observer"}
    BY <1>8, TaskParts
  <2> QED
    BY <1>1, <1>4, <1>8, <2>1 DEF BusyInv, OnlyBusy
<1>10. StackInv'
  <2>1. deliveries' # <<>> => Innermost'.observer # 0
    BY <1>1, <1>2 DEF StackInv, Innermost
  <2>2. deliveries' = <<>> => busy'.kind = "none"
    BY <1>1, <1>8, TaskParts
  <2> QED
    BY <1>1, <1>2, <1>8, <2>1, <2>2 DEF StackInv, Serving
<1> DEFINE old == observers[entry]
           list == Append(old, o)
<1>11. /\ old \in Seq(Observers \union {0}) /\ Len(old) \in Nat /\ DOMAIN old = 1 .. Len(old)
       /\ \A s \in DOMAIN old : old[s] # 0 <=> old[s] \in Registered
       /\ \A i, j \in DOMAIN old : old[i] = old[j] /\ old[i] # 0 => i = j
  BY <1>2, <1>6, ListFacts DEF ListsInv
<1>12. /\ Allocated' = Allocated /\ observers'[entry] = list
       /\ \A c \in Allocated : c # entry => observers'[c] = observers[c]
  BY <1>1, <1>3, <1>6 DEF Allocated
<1> HIDE DEF old
<1>13. /\ list \in Seq(Observers \union {0}) /\ Len(list) = Len(old) + 1
       /\ DOMAIN list = 1 .. Len(old) + 1 /\ list[Len(old) + 1] = o
       /\ \A s \in 1 .. Len(old) : list[s] = old[s]
  BY <1>11
<1>14. ToSet(list) = ToSet(old) \union {o} /\ ToSet(list) \ {0} = (ToSet(old) \ {0}) \union {o}
  BY <1>6, <1>11, PushedOnto
<1> HIDE DEF list
<1>15. Registered' = Registered \union {o}
  <2>1. Registered' = ToSet(list) \ {0} /\ Registered = ToSet(old) \ {0}
    BY <1>1, <1>6, <1>12 DEF Registered, Listed, old
  <2> QED
    BY <1>14, <2>1
<1>16. InUse' = InUse
  BY <1>1 DEF InUse
<1>17. ListsInv'
  <2>1. \A i, j \in DOMAIN list : list[i] = list[j] /\ list[i] # 0 => i = j
    <3>1. \A s \in 1 .. Len(old) : old[s] # o
      BY <1>6, <1>11
    <3> QED
      BY <1>11, <1>13, <3>1
  <2>2. entry \notin InUse => 0 \notin ToSet(list)
    BY <1>2, <1>6, <1>14 DEF ListsInv, old
  <2>3. list # <<>> /\ Len(list) <= MaxList
    BY <1>6, <1>11, <1>13, ObserversAssumption DEF old
  <2>4. \A c \in Allocated : c # entry => observers[c] # <<>>
    BY <1>2 DEF ListsInv
  <2>5. busy'.kind # "adding"
    BY <1>8, TaskParts
  <2>6. \A c \in Allocated : c # entry => Listed(c)' = Listed(c)
    BY <1>12 DEF Listed
  <2>7. LoopAlive'
    BY <1>1, <1>4 DEF LoopAlive
  <2>8. ASSUME NEW c \in Allocated
        PROVE  /\ observers'[c] \in Seq(Observers \union {0}) /\ Len(observers'[c]) <= MaxList
               /\ \A i, j \in DOMAIN observers'[c] :
                    observers'[c][i] = observers'[c][j] /\ observers'[c][i] # 0 => i = j
               /\ c # entry => Listed(c)' = {}
               /\ c \notin InUse => 0 \notin ToSet(observers'[c])
               /\ observers'[c] # <<>>
    <3>1. CASE c = entry
      BY <1>12, <1>13, <2>1, <2>2, <2>3, <3>1
    <3>2. CASE c # entry
      BY <1>2, <1>12, <2>4, <2>6, <3>2 DEF ListsInv
    <3> QED
      BY <3>1, <3>2
  <2> QED
    BY <1>1, <1>2, <1>12, <1>16, <2>5, <2>7, <2>8 DEF ListsInv
<1>18. NoticesInv'
  <2>1. \A m : Queued("notify", m)' <=> Queued("notify", m)
    BY <1>1 DEF Queued
  <2>2. Delivered' = Delivered
    BY <1>1 DEF Delivered
  <2>3. \A m \in Notices : NoticeInv(m)'
    BY <1>1, <1>2, <1>15, <2>1, <2>2 DEF NoticesInv, NoticeInv
  <2>4. \A x \in Registered, s \in DOMAIN observers'[entry] : Slot(x, s)' => s \in DOMAIN old /\ Slot(x, s)
    BY <1>1, <1>6, <1>11, <1>12, <1>13 DEF Slot, old
  <2>5. ASSUME NEW i \in DOMAIN deliveries
        PROVE  IterationInv(i)'
    <3>1. IterationInv(i) /\ due[deliveries[i].notice] \subseteq Registered
      BY <1>2, StackFacts DEF NoticesInv, NoticeInv
    <3>2. ASSUME deliveries[i].context = entry
          PROVE  /\ deliveries[i].called \subseteq Registered
                 /\ \A x \in deliveries[i].called, s \in DOMAIN old :
                      Slot(x, s) => s <= deliveries[i].index
                 /\ \A x \in due[deliveries[i].notice], s \in DOMAIN old :
                      Slot(x, s) => s > deliveries[i].index /\ s <= deliveries[i].max
                 /\ existingOnly =>
                      /\ deliveries[i].max <= Len(old)
                      /\ \A s \in DOMAIN old : s <= deliveries[i].max /\ old[s] # 0 =>
                                                 old[s] \in deliveries[i].present
      BY <3>1, <3>2 DEF IterationInv, old
    <3>3. ASSUME deliveries[i].context = entry, existingOnly
          PROVE  /\ deliveries[i].max <= Len(list)
                 /\ \A s \in DOMAIN list : s <= deliveries[i].max /\ list[s] # 0 =>
                                             list[s] \in deliveries[i].present
      <4>1. deliveries[i].max \in Nat
        BY <1>2, StackFacts
      <4> QED
        BY <1>11, <1>13, <3>2, <3>3, <4>1
    <3> QED
      BY <1>1, <1>12, <1>15, <2>4, <3>1, <3>2, <3>3 DEF IterationInv
  <2> QED
    BY <1>1, <1>2, <2>3, <2>5 DEF NoticesInv
<1> QED
  BY <1>1, <1>5, <1>9, <1>10, <1>17, <1>18 DEF ObserversInv

(* The iteration goes on to the next full slot and calls its observer.      *)
LEMMA CallObserverStep ==
    ASSUME QueueInv, BusyInv, ObserversInv, OfObservers(CallObserver)
    PROVE  /\ QueueInv' /\ BusyInv' /\ ObserversInv' /\ main' = main
           /\ OnlyKind("notify") /\ OrderKept /\ OnlyBusy({"notifying", "observer", "adding"})
<1>1. /\ busy.kind = "notifying" /\ queue' = queue /\ main' = main
      /\ UNCHANGED <<entry, observers, existingOnly, notice, sentTo>>
  BY DEF OfObservers, CallObserver, mainVars
<1>2. StackInv /\ ListsInv /\ NoticesInv
  BY DEF ObserversInv
<1>3. PICK n \in Notices : busy = Task("notifying", n) /\ busy.id = n
  <2>1. busy.kind = "notifying"
    BY <1>1
  <2> QED
    BY <2>1, TaskParts DEF BusyInv
<1>4. main = "running"
  BY <1>3, TaskParts DEF BusyInv
<1> DEFINE last == Len(deliveries)
           at == deliveries[last]
           slots == observers[at.context]
<1>5. /\ deliveries # <<>> /\ deliveries \in Seq(Iterations) /\ last \in Nat /\ last \in DOMAIN deliveries
      /\ DOMAIN deliveries = 1 .. last /\ Innermost = at /\ at \in Iterations /\ at.notice = n
      /\ at.index \in Nat /\ at.max \in Nat
  <2>1. deliveries # <<>> /\ busy.id = Innermost.notice
    BY <1>1, <1>2 DEF StackInv
  <2> QED
    BY <1>2, <1>3, <2>1, StackFacts
<1>6. PICK i \in Slots :
         /\ \A other \in Slots : i <= other
         /\ deliveries' = [deliveries EXCEPT ![last] =
                             [at EXCEPT !.index = i, !.observer = slots[i],
                                        !.called = @ \union {slots[i]}]]
         /\ due' = [due EXCEPT ![busy.id] = @ \ {slots[i]}]
         /\ busy' = Task("observer", slots[i])
  BY <1>5 DEF OfObservers, CallObserver
<1>7. at.context \in Allocated
  BY <1>2, <1>5, StackFacts, ListFacts
<1>8. \A s : s \in Slots <=> /\ s \in DOMAIN slots /\ s > at.index /\ s <= at.max
                            /\ slots[s] # 0
  BY <1>5, <1>7 DEF Slots
<1>9. /\ i \in DOMAIN slots /\ i \in Nat /\ i > at.index /\ i <= at.max /\ slots[i] # 0
      /\ DOMAIN slots \subseteq Nat
  <2>1. DOMAIN slots = 1 .. Len(slots)
    BY <1>2, <1>7, ListFacts
  <2> QED
    BY <1>8, <2>1
<1> DEFINE o == slots[i]
<1>10. o \in Observers /\ o \in Listed(at.context) /\ o # 0
  BY <1>2, <1>7, <1>9, ListFacts
<1>11. \A s \in DOMAIN slots : slots[s] = o => s = i
  BY <1>2, <1>7, <1>9 DEF ListsInv
<1> DEFINE new == [at EXCEPT !.index = i, !.observer = o, !.called = @ \union {o}]
<1>12. /\ new \in Iterations /\ new.context = at.context /\ new.index = i /\ new.notice = n
       /\ new.observer = o /\ new.max = at.max /\ new.present = at.present
       /\ new.called = at.called \union {o}
  BY <1>5, <1>9, <1>10 DEF Iterations
<1>13. deliveries' = [deliveries EXCEPT ![last] = new] /\ busy' = Task("observer", o)
       /\ due' = [due EXCEPT ![n] = @ \ {o}]
  <2>1. deliveries' = [deliveries EXCEPT ![last] = new]
    BY <1>6
  <2>2. busy' = Task("observer", o)
    BY <1>6
  <2>3. due' = [due EXCEPT ![n] = @ \ {o}]
    <3>1. busy.id = n
      BY <1>3
    <3> QED
      BY <1>6, <3>1
  <2> QED
    BY <2>1, <2>2, <2>3
<1> HIDE DEF new, o, slots, at, last
<1>14. /\ deliveries' \in Seq(Iterations) /\ Len(deliveries') = last
       /\ DOMAIN deliveries' = DOMAIN deliveries /\ deliveries'[last] = new
       /\ \A k \in DOMAIN deliveries : k # last => deliveries'[k] = deliveries[k]
  BY <1>5, <1>12, <1>13 DEF last
<1>15. /\ due' \in [Notices -> SUBSET Observers] /\ due'[n] = due[n] \ {o}
       /\ \A m \in Notices : m # n => due'[m] = due[m]
  BY <1>2, <1>13 DEF NoticesInv
<1>16. QueueInv' /\ OnlyKind("notify") /\ OrderKept
  BY <1>1, QueueStays DEF QueueInv, LoopAlive
<1>17. BusyInv' /\ OnlyBusy({"notifying", "observer", "adding"})
  <2>1. busy'.kind = "observer"
    BY <1>13, TaskParts
  <2> QED
    BY <1>1, <1>4, <1>10, <1>13, <2>1 DEF BusyInv, OnlyBusy
<1>18. /\ \A k \in DOMAIN deliveries : /\ deliveries'[k].context = deliveries[k].context
                                      /\ deliveries'[k].notice = deliveries[k].notice
  BY <1>5, <1>12, <1>14 DEF at
<1>19. InUse' = InUse /\ Delivered' = Delivered
  BY <1>14, <1>18 DEF InUse, Delivered
<1>20. StackInv'
  <2>1. Len(deliveries') <= MaxNotify /\ deliveries' # <<>>
    BY <1>2, <1>5, <1>14 DEF StackInv, last
  <2>2. \A k, j \in DOMAIN deliveries' : deliveries'[k].notice = deliveries'[j].notice => k = j
    BY <1>2, <1>14, <1>18 DEF StackInv
  <2>3. \A k \in DOMAIN deliveries' : k < Len(deliveries') => deliveries'[k].observer # 0
    BY <1>2, <1>5, <1>14 DEF StackInv, last
  <2>4. Innermost' = new
    BY <1>14 DEF Innermost, Last
  <2> QED
    BY <1>10, <1>12, <1>13, <1>14, <2>1, <2>2, <2>3, <2>4, TaskParts DEF StackInv, Serving
<1>21. ListsInv'
  <2>1. Allocated' = Allocated /\ \A c : Listed(c)' = Listed(c)
    BY <1>1 DEF Allocated, Listed
  <2>2. busy'.kind # "adding" /\ busy.kind # "adding"
    BY <1>1, <1>13, TaskParts
  <2>3. LoopAlive'
    BY <1>1, <1>4 DEF LoopAlive
  <2> QED
    BY <1>1, <1>2, <1>19, <2>1, <2>2, <2>3 DEF ListsInv
<1>22. Registered' = Registered
  BY <1>1 DEF Registered, Listed
<1>23. NoticesInv'
  <2>1. \A m : Queued("notify", m)' <=> Queued("notify", m)
    BY <1>1 DEF Queued
  <2>2. \A m \in Notices : due'[m] \subseteq due[m]
    BY <1>15
  <2>3. \A m \in Notices : NoticeInv(m)'
    BY <1>1, <1>2, <1>19, <1>22, <2>1, <2>2 DEF NoticesInv, NoticeInv
  <2>4. \A x, s : Slot(x, s)' <=> Slot(x, s)
    BY <1>1 DEF Slot
  <2>5. ASSUME NEW k \in DOMAIN deliveries
        PROVE  IterationInv(k)'
    <3>1. IterationInv(k) /\ deliveries[k].notice \in Notices
      BY <1>2, StackFacts DEF NoticesInv
    <3>2. CASE k # last
      <4>1. deliveries'[k] = deliveries[k] /\ deliveries[k].notice # n
        BY <1>2, <1>5, <1>14, <3>2 DEF StackInv, at
      <4>2. due'[deliveries[k].notice] = due[deliveries[k].notice]
        BY <1>15, <3>1, <4>1
      <4> QED
        BY <1>1, <1>22, <2>4, <3>1, <4>1, <4>2 DEF IterationInv
    <3>3. CASE k = last
      <4>1. deliveries'[k] = new /\ deliveries[k] = at
        BY <1>14, <3>3 DEF at
      <4>2. due[n] # {} => at.context = entry
        BY <1>5, <3>1, <4>1 DEF IterationInv
      <4>3. ASSUME at.context = entry
            PROVE  /\ new.called \subseteq Registered
                   /\ \A x \in new.called, s \in DOMAIN observers[entry] : Slot(x, s) => s <= i
                   /\ \A x \in due'[n], s \in DOMAIN observers[entry] :
                        Slot(x, s) => s > i /\ s <= at.max
        <5>1. slots = observers[entry] /\ o \in Registered /\ entry \in Allocated
          BY <1>2, <1>7, <1>10, <4>3, ListFacts DEF slots
        <5>2. /\ at.called \subseteq Registered
              /\ \A x \in at.called, s \in DOMAIN slots : Slot(x, s) => s <= at.index
              /\ \A x \in due[n], s \in DOMAIN slots : Slot(x, s) => s > at.index /\ s <= at.max
          BY <1>5, <3>1, <4>1, <4>3, <5>1 DEF IterationInv
        <5>3. \A x, s : Slot(x, s) <=> s \in DOMAIN slots /\ slots[s] = x
          BY <5>1 DEF Slot
        <5>4. ASSUME NEW x \in new.called, NEW s \in DOMAIN slots, Slot(x, s)
              PROVE  s <= i
          <6>1. CASE x = o
            BY <1>9, <1>11, <5>3, <5>4, <6>1
          <6>2. CASE x # o
            <7>1. s <= at.index
              BY <1>12, <5>2, <5>4, <6>2
            <7> QED
              BY <1>5, <1>9, <7>1
          <6> QED
            BY <6>1, <6>2
        <5>5. ASSUME NEW x \in due'[n], NEW s \in DOMAIN slots, Slot(x, s)
              PROVE  s > i /\ s <= at.max
          <6>1. x \in due[n] /\ x # o /\ slots[s] = x
            BY <1>15, <5>3, <5>5
          <6>2. x # 0
            BY <1>2, <6>1, ListFacts DEF NoticesInv, NoticeInv, Registered, Listed
          <6>3. s \in Slots
            BY <1>8, <5>2, <5>5, <6>1, <6>2
          <6>4. i <= s /\ s # i
            BY <1>6, <6>1, <6>3 DEF o
          <6> QED
            BY <1>9, <5>2, <5>5, <6>1, <6>4
        <5> QED
          BY <1>12, <5>1, <5>2, <5>4, <5>5
      <4>4. at.context = entry /\ existingOnly =>
              /\ at.max <= Len(observers[entry])
              /\ \A s \in DOMAIN observers[entry] :
                   s <= at.max /\ observers[entry][s] # 0 => observers[entry][s] \in at.present
        BY <3>1, <4>1 DEF IterationInv
      <4> QED
        BY <1>1, <1>12, <1>15, <1>22, <2>4, <4>1, <4>2, <4>3, <4>4 DEF IterationInv
    <3> QED
      BY <3>2, <3>3
  <2> QED
    BY <1>1, <1>2, <1>14, <1>15, <2>3, <2>5 DEF NoticesInv
<1> QED
  BY <1>1, <1>16, <1>17, <1>20, <1>21, <1>23 DEF ObserversInv

(* The method returns to its iteration.                                     *)
LEMMA ObserverReturnsStep ==
    ASSUME QueueInv, BusyInv, ObserversInv, ObserverMethodReturns
    PROVE  /\ QueueInv' /\ BusyInv' /\ ObserversInv' /\ main' = main
           /\ OnlyKind("notify") /\ OrderKept /\ OnlyBusy({"notifying", "observer", "adding"})
<1>1. /\ busy.kind = "observer" /\ busy' = Task("notifying", Innermost.notice)
      /\ queue' = queue /\ main' = main /\ UNCHANGED observerVars
  BY DEF ObserverMethodReturns, OfObservers, ObserverReturns, mainVars
<1>2. StackInv /\ ListsInv /\ NoticesInv
  BY DEF ObserversInv
<1>3. main = "running"
  <2>1. busy # Null
    BY <1>1, TaskParts
  <2> QED
    BY <2>1 DEF BusyInv
<1>4. QueueInv' /\ OnlyKind("notify") /\ OrderKept
  BY <1>1, QueueStays DEF QueueInv, LoopAlive
<1>5. deliveries # <<>> /\ Innermost.notice \in Notices
  BY <1>1, <1>2, StackFacts DEF StackInv
<1>6. busy'.kind = "notifying" /\ busy'.id = Innermost.notice
  BY <1>1, TaskParts
<1>7. BusyInv' /\ OnlyBusy({"notifying", "observer", "adding"})
  BY <1>1, <1>3, <1>5, <1>6 DEF BusyInv, OnlyBusy
<1>8. StackInv'
  BY <1>1, <1>2, <1>5, <1>6 DEF StackInv, Serving, observerVars, Innermost
<1>9. ListsInv'
  <2>1. Allocated' = Allocated /\ InUse' = InUse /\ \A c : Listed(c)' = Listed(c)
    BY <1>1 DEF Allocated, Listed, InUse, observerVars
  <2>2. busy.kind # "adding" /\ LoopAlive'
    BY <1>1, <1>3 DEF LoopAlive
  <2> QED
    BY <1>1, <1>2, <1>6, <2>1, <2>2 DEF ListsInv, observerVars
<1>10. NoticesInv'
  <2>1. \A m : Queued("notify", m)' <=> Queued("notify", m)
    BY <1>1 DEF Queued
  <2>2. /\ Delivered' = Delivered /\ Registered' = Registered
        /\ \A x, s : Slot(x, s)' <=> Slot(x, s)
    BY <1>1 DEF Delivered, Registered, Listed, Slot, observerVars
  <2> QED
    BY <1>1, <1>2, <2>1, <2>2 DEF NoticesInv, NoticeInv, IterationInv, observerVars
<1> QED
  BY <1>1, <1>4, <1>7, <1>8, <1>9, <1>10 DEF ObserversInv

(* The innermost iteration ends, with nobody left to call. The context goes *)
(* when its list is empty and no other iteration is of it.                  *)
LEMMA EndDeliveryStep ==
    ASSUME QueueInv, BusyInv, ObserversInv, OfObservers(EndDelivery)
    PROVE  /\ QueueInv' /\ BusyInv' /\ ObserversInv' /\ main' = main
           /\ OnlyKind("notify") /\ OrderKept /\ OnlyBusy({"notifying", "observer", "adding"})
           /\ \A m \in Notices : notice'[m] # notice[m] => due[m] = {}
<1>1. /\ busy.kind = "notifying" /\ queue' = queue /\ main' = main /\ Slots = {}
      /\ notice' = [notice EXCEPT ![busy.id] = "done"] /\ deliveries' = Front(deliveries)
      /\ busy' = BackTo(Front(deliveries)) /\ UNCHANGED <<existingOnly, sentTo, due>>
  BY DEF OfObservers, EndDelivery, mainVars
<1>2. StackInv /\ ListsInv /\ NoticesInv
  BY DEF ObserversInv
<1>3. PICK n \in Notices : busy = Task("notifying", n) /\ busy.id = n
  <2>1. busy.kind = "notifying"
    BY <1>1
  <2> QED
    BY <2>1, TaskParts DEF BusyInv
<1>4. main = "running" /\ LoopAlive /\ LoopAlive'
  <2>1. main = "running"
    BY <1>3, TaskParts DEF BusyInv
  <2> QED
    BY <1>1, <2>1 DEF LoopAlive
<1>5. QueueInv' /\ OnlyKind("notify") /\ OrderKept
  BY <1>1, QueueStays DEF QueueInv, LoopAlive
<1> DEFINE last == Len(deliveries)
           at == deliveries[last]
           context == at.context
<1>6. /\ deliveries # <<>> /\ deliveries \in Seq(Iterations) /\ last \in Nat /\ last \in DOMAIN deliveries
      /\ DOMAIN deliveries = 1 .. last /\ Innermost = at /\ at \in Iterations /\ at.notice = n
      /\ context \in Contexts /\ context \in InUse
      /\ \A i, j \in DOMAIN deliveries : deliveries[i].notice = deliveries[j].notice => i = j
      /\ \A i \in DOMAIN deliveries : i < last => deliveries[i].observer # 0
  <2>1. deliveries # <<>> /\ busy.id = Innermost.notice
    BY <1>1, <1>2 DEF StackInv
  <2>2. /\ \A i, j \in DOMAIN deliveries : deliveries[i].notice = deliveries[j].notice => i = j
        /\ \A i \in DOMAIN deliveries : i < last => deliveries[i].observer # 0
    BY <1>2 DEF StackInv
  <2> QED
    BY <1>2, <1>3, <2>1, <2>2, StackFacts
<1> HIDE DEF at, last
<1>7. /\ deliveries' \in Seq(Iterations) /\ Len(deliveries') = last - 1
      /\ DOMAIN deliveries' = 1 .. last - 1
      /\ \A i \in DOMAIN deliveries' : i \in DOMAIN deliveries /\ deliveries'[i] = deliveries[i]
      /\ \A i \in DOMAIN deliveries : i = last \/ i \in DOMAIN deliveries'
      /\ last \notin DOMAIN deliveries'
  <2>1. IsInjective(deliveries)
    BY <1>6 DEF IsInjective
  <2>2. /\ Front(deliveries) \in Seq(Iterations) /\ Len(Front(deliveries)) = last - 1
        /\ DOMAIN Front(deliveries) = 1 .. last - 1
        /\ \A k \in 1 .. last - 1 : Front(deliveries)[k] = deliveries[k]
    BY <1>6, <2>1, PoppedFrom DEF last
  <2> QED
    BY <1>1, <1>6, <2>2
<1>8. deliveries' = <<>> \/ Last(deliveries').observer \in Observers
  <2> SUFFICES ASSUME deliveries' # <<>> PROVE Last(deliveries').observer \in Observers
    OBVIOUS
  <2>1. last - 1 \in DOMAIN deliveries' /\ Last(deliveries') = deliveries'[last - 1]
    BY <1>6, <1>7 DEF Last
  <2>2. /\ Last(deliveries') \in Iterations /\ Last(deliveries').observer # 0
    BY <1>6, <1>7, <2>1
  <2> QED
    BY <2>2 DEF Iterations
<1>9. /\ busy' \in {Null} \union {Task("observer", x) : x \in Observers}
      /\ deliveries' = <<>> => busy' = Null
      /\ deliveries' # <<>> => busy'.kind = "observer" /\ Last(deliveries').observer # 0
  <2>1. busy' = BackTo(deliveries')
    BY <1>1
  <2>2. 0 \notin Observers
    BY ObserversAssumption
  <2> QED
    BY <1>7, <1>8, <2>1, <2>2, GoneBackTo
<1>10. BusyInv' /\ OnlyBusy({"notifying", "observer", "adding"})
  <2>1. busy'.kind \in {"none", "observer"}
    BY <1>9, TaskParts
  <2> QED
    BY <1>1, <1>4, <1>9, <2>1 DEF BusyInv, OnlyBusy
<1>11. StackInv'
  <2>1. deliveries' = <<>> => busy'.kind = "none"
    BY <1>9, TaskParts
  <2>2. Len(deliveries') <= MaxNotify
    BY <1>2, <1>6, <1>7, ObserversAssumption DEF StackInv, last
  <2>3. deliveries' # <<>> => Innermost'.observer # 0
    BY <1>9 DEF Innermost
  <2>4. \A i \in DOMAIN deliveries' : i < Len(deliveries') => deliveries'[i].observer # 0
    BY <1>6, <1>7
  <2>5. \A i, j \in DOMAIN deliveries' : deliveries'[i].notice = deliveries'[j].notice => i = j
    BY <1>6, <1>7
  <2> QED
    BY <1>7, <1>9, <2>1, <2>2, <2>3, <2>4, <2>5 DEF StackInv, Serving
<1>12. /\ Delivered' = Delivered \ {n} /\ n \in Delivered
  <2>1. \A m : m \in Delivered <=> \E i \in DOMAIN deliveries : deliveries[i].notice = m
    BY DEF Delivered
  <2>2. \A m : m \in Delivered' <=> \E i \in DOMAIN deliveries' : deliveries'[i].notice = m
    BY DEF Delivered
  <2>3. deliveries[last].notice = n
    BY <1>6 DEF at
  <2>4. \A i \in DOMAIN deliveries' : deliveries'[i].notice # n
    BY <1>6, <1>7, <2>3
  <2> QED
    BY <1>6, <1>7, <2>1, <2>2, <2>3, <2>4
<1> DEFINE Others == \E i \in DOMAIN deliveries' : deliveries'[i].context = context
<1>13. /\ NotifyDepth(context, Front(deliveries)) = 0 <=> ~ Others
       /\ InUse' = IF Others THEN InUse ELSE InUse \ {context}
  <2>1. NotifyDepth(context, Front(deliveries)) = 0 <=> ~ Others
    <3>1. deliveries' = Front(deliveries) /\ Front(deliveries) \in Seq(Iterations)
      BY <1>1, <1>7
    <3> QED
      BY <3>1, NoIterations
  <2>2. /\ \A c : c \in InUse <=> \E i \in DOMAIN deliveries : deliveries[i].context = c
        /\ \A c : c \in InUse' <=> \E i \in DOMAIN deliveries' : deliveries'[i].context = c
    BY DEF InUse
  <2>3. deliveries[last].context = context
    BY DEF at
  <2> HIDE DEF context
  <2>4. \A c : c # context => (c \in InUse' <=> c \in InUse)
    BY <1>6, <1>7, <2>2, <2>3
  <2>5. (context \in InUse' <=> Others) /\ context \in InUse
    BY <1>6, <2>2
  <2> QED
    BY <2>1, <2>4, <2>5
<1> HIDE DEF Others
<1> DEFINE list == IF Others THEN observers[context] ELSE Compacted(observers[context])
<1>14. /\ list = <<>> => observers' = Deleted(context) /\ entry' = IF entry = context THEN 0 ELSE entry
       /\ list # <<>> => observers' = [observers EXCEPT ![context] = list] /\ entry' = entry
  <2> DEFINE found == IF NotifyDepth(Innermost.context, Front(deliveries)) = 0
                      THEN Compacted(observers[Innermost.context])
                      ELSE observers[Innermost.context]
  <2>1. /\ found = <<>> => /\ observers' = Deleted(Innermost.context)
                           /\ entry' = IF entry = Innermost.context THEN 0 ELSE entry
        /\ found # <<>> => observers' = [observers EXCEPT ![Innermost.context] = found] /\ entry' = entry
    BY DEF OfObservers, EndDelivery
  <2>2. Innermost.context = context
    BY <1>6
  <2>3. found = list
    BY <1>13, <2>2
  <2> HIDE DEF found, list
  <2> QED
    BY <2>1, <2>2, <2>3
<1>15. /\ context \in Allocated /\ context # 0 /\ observers[context] \in Seq(Observers \union {0})
       /\ \A i, j \in DOMAIN observers[context] :
            observers[context][i] = observers[context][j] /\ observers[context][i] # 0 => i = j
       /\ observers[context] # <<>> /\ Len(observers[context]) <= MaxList
       /\ Len(observers[context]) \in Nat
       /\ Listed(context) = ToSet(observers[context]) \ {0}
       /\ context # entry => Listed(context) = {}
  <2>1. context \in Allocated /\ context # 0
    BY <1>2, <1>6, ListFacts
  <2> HIDE DEF context
  <2> QED
    BY <1>1, <1>2, <2>1, ListFacts DEF ListsInv, Listed
<1>16. ~ Others => /\ list \in Seq(Observers \union {0}) /\ Len(list) <= Len(observers[context])
                   /\ Len(list) \in Nat /\ ToSet(list) = Listed(context) /\ IsInjective(list)
                   /\ list = <<>> <=> Listed(context) = {}
  <2> HAVE ~ Others
  <2>1. list = Compacted(observers[context])
    OBVIOUS
  <2> DEFINE S == Observers \union {0}
             full == observers[context]
  <2>2. /\ full \in Seq(S)
        /\ \A i, j \in DOMAIN full : full[i] = full[j] /\ full[i] # 0 => i = j
    BY <1>15
  <2> HIDE DEF S, full
  <2>3. /\ Compacted(full) \in Seq(S) /\ Len(Compacted(full)) <= Len(full)
        /\ Len(Compacted(full)) \in Nat
        /\ ToSet(Compacted(full)) = ToSet(full) \ {0}
        /\ IsInjective(Compacted(full))
        /\ Compacted(full) = <<>> <=> ToSet(full) \ {0} = {}
    BY <2>2, CompactedList
  <2>4. list = Compacted(full) /\ ToSet(full) \ {0} = Listed(context)
    BY <1>15, <2>1 DEF full
  <2> HIDE DEF list
  <2> QED
    BY <2>3, <2>4 DEF S, full
<1>17. Others => list = observers[context]
  OBVIOUS
<1> HIDE DEF list, context
<1>18. due[n] = {} /\ \A m \in Notices : m # n => notice'[m] = notice[m]
  <2>1. \A m \in Notices : m # n => notice'[m] = notice[m]
    BY <1>1, <1>3
  <2>2. ASSUME NEW o \in due[n]
        PROVE  FALSE
    <3>1. IterationInv(last) /\ NoticeInv(n)
      BY <1>2, <1>6 DEF NoticesInv
    <3>2. context = entry /\ o \in Registered
      BY <1>6, <2>2, <3>1 DEF IterationInv, NoticeInv, at, context
    <3>3. entry # 0 /\ o \in Listed(entry) /\ entry \in Allocated /\ o # 0
      BY <1>2, <1>15, <3>2, ListFacts DEF Listed
    <3>4. PICK s \in DOMAIN observers[entry] : observers[entry][s] = o
      BY <1>2, <3>3, ListFacts
    <3>5. s > at.index /\ s <= at.max
      <4>1. Slot(o, s)
        BY <3>4 DEF Slot
      <4>2. deliveries[last].notice = n /\ deliveries[last].context = entry /\ at = deliveries[last]
        BY <1>6, <3>2 DEF at, context
      <4> QED
        BY <2>2, <3>1, <3>4, <4>1, <4>2 DEF IterationInv
    <3>6. Innermost.context = entry /\ Innermost = at
      BY <1>6, <3>2 DEF context
    <3>7. s \in Slots
      BY <3>3, <3>4, <3>5, <3>6 DEF Slots
    <3> QED
      BY <1>1, <3>7
  <2> QED
    BY <2>1, <2>2
<1> DEFINE Gone == list = <<>>
<1>19. /\ Gone => /\ ~ Others /\ Listed(context) = {} /\ Allocated' = Allocated \ {context}
                  /\ entry' = (IF entry = context THEN 0 ELSE entry)
                  /\ \A c \in Allocated' : observers'[c] = observers[c]
       /\ ~ Gone => /\ Allocated' = Allocated /\ entry' = entry
                    /\ observers'[context] = list
                    /\ \A c \in Allocated : c # context => observers'[c] = observers[c]
                    /\ ~ Others => context = entry
  <2>1. Gone => ~ Others /\ Listed(context) = {}
    BY <1>15, <1>16, <1>17
  <2>2. Gone => /\ Allocated' = Allocated \ {context}
                /\ entry' = (IF entry = context THEN 0 ELSE entry)
                /\ \A c \in Allocated' : observers'[c] = observers[c]
    <3> HAVE Gone
    <3>1. observers' = Deleted(context) /\ entry' = IF entry = context THEN 0 ELSE entry
      BY <1>14
    <3> QED
      BY <3>1 DEF Deleted, Allocated
  <2>3. ~ Gone => /\ Allocated' = Allocated /\ entry' = entry
                  /\ observers'[context] = list
                  /\ \A c \in Allocated : c # context => observers'[c] = observers[c]
    <3> HAVE ~ Gone
    <3>1. observers' = [observers EXCEPT ![context] = list] /\ entry' = entry
      BY <1>14
    <3> QED
      BY <1>15, <3>1 DEF Allocated
  <2>4. ~ Gone /\ ~ Others => context = entry
    BY <1>15, <1>16
  <2> QED
    BY <2>1, <2>2, <2>3, <2>4
<1>20. ListsInv'
  <2>1. busy'.kind # "adding" /\ busy.kind # "adding"
    BY <1>1, <1>9, TaskParts
  <2>2. /\ entry \in Allocated \union {0} /\ Allocated \subseteq Contexts
        /\ Allocated = ({entry} \ {0}) \union InUse /\ 0 \notin Allocated
    BY <1>2, ListFacts DEF ListsInv
  <2>3. ASSUME NEW c \in Allocated
        PROVE  /\ observers[c] \in Seq(Observers \union {0}) /\ Len(observers[c]) <= MaxList
               /\ \A i, j \in DOMAIN observers[c] :
                    observers[c][i] = observers[c][j] /\ observers[c][i] # 0 => i = j
               /\ c # entry => Listed(c) = {}
               /\ c \notin InUse => 0 \notin ToSet(observers[c])
               /\ observers[c] # <<>>
    BY <1>2, <2>1 DEF ListsInv
  <2>4. CASE Gone
    <3>1. ~ Others /\ InUse' = InUse \ {context}
      BY <1>13, <1>19, <2>4
    <3>2. /\ entry' \in Allocated' \union {0} /\ Allocated' \subseteq Contexts
          /\ Allocated' = ({entry'} \ {0}) \union InUse'
      BY <1>15, <1>19, <2>2, <2>4, <3>1
    <3>3. \A c \in Allocated' : c \in Allocated /\ c # context /\ observers'[c] = observers[c]
                                /\ Listed(c)' = Listed(c)
      BY <1>19, <2>4 DEF Listed
    <3>4. \A c \in Allocated' : (c # entry' => c # entry) /\ (c \notin InUse' => c \notin InUse)
      BY <1>19, <2>4, <3>1, <3>3
    <3> QED
      BY <1>4, <2>1, <2>3, <3>2, <3>3, <3>4 DEF ListsInv
  <2>5. CASE ~ Gone
    <3>1. /\ Allocated' = ({entry'} \ {0}) \union InUse' /\ entry' \in Allocated' \union {0}
          /\ Allocated' \subseteq Contexts
      <4>1. ~ Others => context = entry /\ context # 0
        BY <1>15, <1>19, <2>5
      <4>2. InUse \ {context} \subseteq InUse' /\ InUse' \subseteq InUse /\ (Others => InUse' = InUse)
        BY <1>13
      <4> QED
        BY <1>15, <1>19, <2>2, <2>5, <4>1, <4>2
    <3>2. /\ list \in Seq(Observers \union {0}) /\ Len(list) <= MaxList
          /\ \A i, j \in DOMAIN list : list[i] = list[j] /\ list[i] # 0 => i = j
          /\ context # entry => ToSet(list) \ {0} = {}
          /\ context \notin InUse' => 0 \notin ToSet(list)
          /\ list # <<>>
      <4>1. CASE Others
        <5>1. context \in InUse'
          BY <1>6, <1>13, <4>1
        <5> QED
          BY <1>15, <1>17, <2>5, <4>1, <5>1
      <4>2. CASE ~ Others
        <5>1. /\ list \in Seq(Observers \union {0}) /\ Len(list) <= Len(observers[context])
              /\ Len(list) \in Nat /\ ToSet(list) = Listed(context) /\ IsInjective(list)
          BY <1>16, <4>2
        <5>2. Len(list) <= MaxList
          BY <1>15, <5>1, ObserversAssumption
        <5>3. 0 \notin ToSet(list) /\ context = entry
          BY <1>15, <1>19, <2>5, <4>2, <5>1
        <5> QED
          BY <2>5, <5>1, <5>2, <5>3 DEF IsInjective
      <4> QED
        BY <4>1, <4>2
    <3>3. ASSUME NEW c \in Allocated
          PROVE  /\ observers'[c] \in Seq(Observers \union {0}) /\ Len(observers'[c]) <= MaxList
                 /\ \A i, j \in DOMAIN observers'[c] :
                      observers'[c][i] = observers'[c][j] /\ observers'[c][i] # 0 => i = j
                 /\ c # entry => Listed(c)' = {}
                 /\ c \notin InUse' => 0 \notin ToSet(observers'[c])
                 /\ observers'[c] # <<>>
      <4>1. CASE c = context
        <5>1. observers'[c] = list /\ Listed(c)' = ToSet(list) \ {0}
          BY <1>19, <2>5, <4>1 DEF Listed
        <5> QED
          BY <3>2, <4>1, <5>1
      <4>2. CASE c # context
        <5>1. observers'[c] = observers[c] /\ Listed(c)' = Listed(c)
          BY <1>19, <2>5, <4>2 DEF Listed
        <5>2. c \notin InUse' => c \notin InUse
          BY <1>13, <4>2
        <5> QED
          BY <2>3, <5>1, <5>2
      <4> QED
        BY <4>1, <4>2
    <3>4. Allocated' = Allocated /\ entry' = entry
      BY <1>19, <2>5
    <3> QED
      BY <1>4, <2>1, <3>1, <3>3, <3>4 DEF ListsInv
  <2> QED
    BY <2>4, <2>5
<1>21. Registered' = Registered
  <2>1. /\ Registered' = IF entry' = 0 THEN {} ELSE ToSet(observers'[entry']) \ {0}
        /\ Registered = IF entry = 0 THEN {} ELSE ToSet(observers[entry]) \ {0}
    BY DEF Registered, Listed
  <2>2. CASE entry = context
    <3>1. Registered = Listed(context)
      BY <1>15, <2>1, <2>2
    <3>2. CASE Gone
      BY <1>19, <2>1, <2>2, <3>1, <3>2
    <3>3. CASE ~ Gone
      <4>1. Registered' = ToSet(list) \ {0}
        BY <1>15, <1>19, <2>1, <2>2, <3>3
      <4>2. ToSet(list) \ {0} = Listed(context)
        BY <1>15, <1>16, <1>17
      <4> QED
        BY <3>1, <4>1, <4>2
    <3> QED
      BY <3>2, <3>3
  <2>3. CASE entry # context
    <3>1. entry' = entry /\ (entry # 0 => entry \in Allocated)
      BY <1>2, <1>19, <2>3, ListFacts
    <3>2. entry # 0 => observers'[entry] = observers[entry]
      BY <1>19, <2>3, <3>1
    <3> QED
      BY <2>1, <3>1, <3>2
  <2> QED
    BY <2>2, <2>3
<1>22. NoticesInv'
  <2>1. \A m : Queued("notify", m)' <=> Queued("notify", m)
    BY <1>1 DEF Queued
  <2>2. /\ notice' \in [Notices -> {"unused", "new", "posted", "done", "lost"}] /\ notice'[n] = "done"
        /\ ~ Queued("notify", n)
    BY <1>1, <1>2, <1>3, <1>12 DEF NoticesInv, NoticeInv
  <2>3. Registered # {} => entry' = entry
    BY <1>2, <1>19, ListFacts
  <2>4. \A m \in Notices : NoticeInv(m)'
    <3> TAKE m \in Notices
    <3>1. NoticeInv(m) /\ (due[m] # {} => entry' = entry)
      BY <1>2, <2>3 DEF NoticesInv, NoticeInv
    <3>2. due[n] = {} /\ (m # n => notice'[m] = notice[m])
      BY <1>18
    <3>3. sentTo' = sentTo /\ due' = due
      BY <1>1
    <3> QED
      BY <1>12, <1>21, <2>1, <2>2, <3>1, <3>2, <3>3 DEF NoticeInv
  <2>5. ASSUME NEW i \in DOMAIN deliveries'
        PROVE  IterationInv(i)'
    <3>1. i \in DOMAIN deliveries /\ deliveries'[i] = deliveries[i] /\ IterationInv(i)
      BY <1>2, <1>7 DEF NoticesInv
    <3>2. due' = due /\ existingOnly' = existingOnly
      BY <1>1
    <3>3. deliveries[i].notice \in Notices /\ deliveries[i].context \in Contexts
          /\ deliveries[i].context # 0 /\ deliveries[i].context \in InUse'
      <4>1. deliveries'[i].context \in InUse'
        BY DEF InUse
      <4> QED
        BY <1>2, <3>1, <4>1, StackFacts, ListFacts
    <3>4. due[deliveries[i].notice] # {} => entry' = entry
      BY <1>2, <2>3, <3>3 DEF NoticesInv, NoticeInv
    <3>5. ASSUME deliveries[i].context = entry'
          PROVE  entry' = entry /\ observers'[entry] = observers[entry]
      <4>1. entry' # 0 /\ entry' \in InUse'
        BY <3>3, <3>5
      <4>2. entry' = entry
        BY <1>19, <4>1
      <4>3. entry \in Allocated'
        BY <1>20, <4>1, <4>2 DEF ListsInv
      <4>4. CASE entry # context
        <5>1. Gone => observers'[entry] = observers[entry]
          BY <1>19, <4>3
        <5>2. ~ Gone => observers'[entry] = observers[entry]
          BY <1>19, <4>3, <4>4
        <5> QED
          BY <4>2, <5>1, <5>2
      <4>5. CASE entry = context
        <5>1. Others
          BY <1>13, <4>1, <4>2, <4>5
        <5>2. ~ Gone
          BY <1>19, <5>1
        <5> QED
          BY <1>17, <1>19, <4>2, <4>5, <5>1, <5>2
      <4> QED
        BY <4>4, <4>5
    <3>6. CASE deliveries[i].context = entry'
      <4>1. entry' = entry /\ observers'[entry] = observers[entry]
        BY <3>5, <3>6
      <4>2. \A x, s : Slot(x, s)' <=> Slot(x, s)
        BY <4>1 DEF Slot
      <4> QED
        BY <1>21, <3>1, <3>2, <4>1, <4>2 DEF IterationInv
    <3>7. CASE deliveries[i].context # entry'
      BY <3>1, <3>2, <3>4, <3>7 DEF IterationInv
    <3> QED
      BY <3>6, <3>7
  <2> QED
    BY <1>1, <1>2, <2>2, <2>4, <2>5 DEF NoticesInv
<1> QED
  BY <1>1, <1>5, <1>10, <1>11, <1>18, <1>20, <1>22 DEF ObserversInv

(* AddObserver finds the context of the thread, or makes one.               *)
LEMMA AddObserverStep ==
    ASSUME QueueInv, BusyInv, ObserversInv, NEW o \in Observers, OfObservers(AddObserver(o))
    PROVE  /\ QueueInv' /\ BusyInv' /\ ObserversInv' /\ main' = main
           /\ OnlyKind("notify") /\ OrderKept /\ OnlyBusy({"notifying", "observer", "adding"})
<1>1. /\ main = "running" /\ busy.kind \in {"none", "observer"} /\ o \notin Registered
      /\ busy' = Task("adding", o) /\ queue' = queue /\ main' = main
      /\ UNCHANGED <<existingOnly, deliveries, notice, sentTo, due>>
  BY DEF OfObservers, AddObserver, MayCall, mainVars
<1>2. StackInv /\ ListsInv /\ NoticesInv
  BY DEF ObserversInv
<1>3. QueueInv' /\ OnlyKind("notify") /\ OrderKept
  BY <1>1, QueueStays DEF QueueInv, LoopAlive
<1>4. busy'.kind = "adding" /\ busy'.id = o
  BY <1>1, TaskParts
<1>5. BusyInv' /\ OnlyBusy({"notifying", "observer", "adding"})
  BY <1>1, <1>4 DEF BusyInv, OnlyBusy
<1>6. StackInv'
  <2>1. deliveries # <<>> => Innermost.observer # 0
    BY <1>1, <1>2 DEF StackInv, Serving
  <2> QED
    BY <1>1, <1>2, <1>4, <2>1 DEF StackInv, Serving, Innermost
<1>7. InUse' = InUse /\ Delivered' = Delivered /\ LoopAlive'
  BY <1>1 DEF InUse, Delivered, LoopAlive
<1>8. \A m : Queued("notify", m)' <=> Queued("notify", m)
  BY <1>1 DEF Queued
<1>9. CASE entry # 0
  <2>1. Len(observers[entry]) < MaxList /\ UNCHANGED <<entry, observers>>
    BY <1>9 DEF OfObservers, AddObserver
  <2>2. /\ Allocated' = Allocated /\ Registered' = Registered /\ \A c : Listed(c)' = Listed(c)
        /\ \A x, s : Slot(x, s)' <=> Slot(x, s)
    BY <2>1 DEF Allocated, Registered, Listed, Slot
  <2>3. ListsInv'
    <3>1. \A c \in Allocated : observers[c] # <<>>
      BY <1>1, <1>2 DEF ListsInv
    <3> QED
      BY <1>1, <1>2, <1>4, <1>7, <1>9, <2>1, <2>2, <3>1 DEF ListsInv
  <2>4. NoticesInv'
    BY <1>1, <1>2, <1>7, <1>8, <2>1, <2>2 DEF NoticesInv, NoticeInv, IterationInv
  <2> QED
    BY <1>1, <1>3, <1>5, <1>6, <2>3, <2>4 DEF ObserversInv
<1>10. CASE entry = 0
  <2>1. PICK c \in Contexts \ Allocated :
           /\ entry' = c
           /\ observers' = [d \in Allocated \union {c} |-> IF d = c THEN <<>> ELSE observers[d]]
    BY <1>10 DEF OfObservers, AddObserver
  <2>2. /\ c # 0 /\ Allocated' = Allocated \union {c} /\ observers'[c] = <<>>
        /\ \A d \in Allocated : observers'[d] = observers[d]
    BY <2>1, ObserversAssumption DEF Allocated
  <2>3. Len(observers'[c]) = 0 /\ DOMAIN observers'[c] = {} /\ observers'[c] \in Seq(Observers \union {0})
    BY <2>2
  <2>4. ToSet(observers'[c]) = {}
    BY <2>3 DEF ToSet
  <2>5. Registered' = {} /\ Registered = {}
    BY <1>10, <2>1, <2>4 DEF Registered, Listed
  <2>6. ListsInv'
    <3>1. /\ Allocated \subseteq Contexts /\ Allocated = InUse /\ 0 \notin Allocated
      BY <1>2, <1>10, ListFacts DEF ListsInv
    <3>2. /\ entry' \in Allocated' \union {0} /\ Allocated' \subseteq Contexts
          /\ Allocated' = ({entry'} \ {0}) \union InUse'
      BY <1>7, <2>1, <2>2, <3>1
    <3>3. ASSUME NEW d \in Allocated'
          PROVE  /\ observers'[d] \in Seq(Observers \union {0}) /\ Len(observers'[d]) <= MaxList
                 /\ \A i, j \in DOMAIN observers'[d] :
                      observers'[d][i] = observers'[d][j] /\ observers'[d][i] # 0 => i = j
                 /\ d # entry' => Listed(d)' = {}
                 /\ d \notin InUse' => 0 \notin ToSet(observers'[d])
                 /\ observers'[d] = <<>> => d = entry'
      <4>1. CASE d = c
        BY <2>1, <2>3, <2>4, <4>1, ObserversAssumption
      <4>2. CASE d # c
        <5>1. d \in Allocated /\ observers'[d] = observers[d] /\ d # entry
          BY <1>10, <2>2, <3>1, <4>2
        <5>2. Listed(d)' = Listed(d)
          BY <5>1 DEF Listed
        <5>3. observers[d] # <<>>
          BY <1>1, <1>2, <5>1 DEF ListsInv
        <5> QED
          BY <1>2, <1>7, <5>1, <5>2, <5>3 DEF ListsInv
      <4> QED
        BY <4>1, <4>2
    <3>4. entry' # 0 /\ Len(observers'[entry']) < MaxList /\ busy'.id \notin Registered'
      BY <1>4, <2>1, <2>2, <2>3, <2>5, ObserversAssumption
    <3> QED
      BY <1>4, <1>7, <3>2, <3>3, <3>4 DEF ListsInv
  <2>7. NoticesInv'
    <3>1. \A m \in Notices : due[m] = {}
      BY <1>2, <2>5 DEF NoticesInv, NoticeInv
    <3>2. \A m \in Notices : NoticeInv(m)'
      BY <1>1, <1>2, <1>7, <1>8, <3>1 DEF NoticesInv, NoticeInv
    <3>3. \A i \in DOMAIN deliveries : deliveries[i].context # c /\ deliveries[i].notice \in Notices
      BY <1>2, <2>1, StackFacts, ListFacts
    <3>4. \A i \in DOMAIN deliveries' : IterationInv(i)'
      BY <1>1, <2>1, <3>1, <3>3 DEF IterationInv
    <3> QED
      BY <1>1, <1>2, <3>2, <3>4 DEF NoticesInv
  <2> QED
    BY <1>1, <1>3, <1>5, <1>6, <2>6, <2>7 DEF ObserversInv
<1> QED
  BY <1>9, <1>10

(* Notify sends the address of the context to the thread.                   *)
LEMMA NotifyStep ==
    ASSUME QueueInv, BusyInv, ObserversInv, NEW n \in Notices, OfObservers(Notify(n))
    PROVE  /\ QueueInv' /\ BusyInv' /\ ObserversInv' /\ main' = main
           /\ OnlyKind("notify") /\ OrderKept /\ OnlyBusy({"notifying", "observer", "adding"})
<1>1. /\ notice[n] = "new" /\ busy' = busy /\ main' = main
      /\ UNCHANGED <<entry, observers, existingOnly, deliveries>>
  BY DEF OfObservers, Notify, mainVars
<1>2. StackInv /\ ListsInv /\ NoticesInv
  BY DEF ObserversInv
<1>3. ~ Queued("notify", n) /\ n \notin Delivered
  BY <1>1, <1>2 DEF NoticesInv, NoticeInv
<1>4. BusyInv' /\ OnlyBusy({"notifying", "observer", "adding"}) /\ (LoopAlive' <=> LoopAlive)
  BY <1>1 DEF BusyInv, OnlyBusy, LoopAlive
<1>5. /\ InUse' = InUse /\ Delivered' = Delivered /\ Allocated' = Allocated /\ Registered' = Registered
      /\ (\A c : Listed(c)' = Listed(c)) /\ (\A x, s : Slot(x, s)' <=> Slot(x, s))
  BY <1>1 DEF InUse, Delivered, Allocated, Registered, Listed, Slot
<1>6. StackInv' /\ ListsInv'
  BY <1>1, <1>2, <1>4, <1>5 DEF StackInv, ListsInv, Serving, Innermost
<1>7. CASE entry = 0
  <2>1. notice' = [notice EXCEPT ![n] = "lost"] /\ UNCHANGED <<queue, sentTo, due>>
    BY <1>7 DEF OfObservers, Notify
  <2>2. QueueInv' /\ OnlyKind("notify") /\ OrderKept
    BY <1>4, <2>1, QueueStays DEF QueueInv
  <2>3. \A m : Queued("notify", m)' <=> Queued("notify", m)
    BY <2>1 DEF Queued
  <2>4. /\ notice' \in [Notices -> {"unused", "new", "posted", "done", "lost"}]
        /\ \A m \in Notices : m # n => notice'[m] = notice[m]
    BY <1>2, <2>1 DEF NoticesInv
  <2>5. \A m \in Notices : NoticeInv(m)'
    BY <1>1, <1>2, <1>3, <1>5, <2>1, <2>3, <2>4 DEF NoticesInv, NoticeInv
  <2>6. \A i \in DOMAIN deliveries' : IterationInv(i)'
    BY <1>1, <1>2, <1>5, <2>1 DEF NoticesInv, IterationInv
  <2>7. NoticesInv'
    BY <1>1, <1>2, <2>1, <2>4, <2>5, <2>6 DEF NoticesInv
  <2> QED
    BY <1>1, <1>4, <1>6, <2>2, <2>7 DEF ObserversInv
<1>8. CASE entry # 0
  <2>1. LoopAlive /\ entry \in Contexts /\ Registered \subseteq Observers
    BY <1>2, <1>8, ListFacts DEF ListsInv
  <2>2. /\ queue' = Append(queue, Task("notify", n)) /\ notice' = [notice EXCEPT ![n] = "posted"]
        /\ sentTo' = [sentTo EXCEPT ![n] = entry] /\ due' = [due EXCEPT ![n] = Registered]
    BY <1>8, <2>1 DEF OfObservers, Notify, ProxyPost, PostTask
  <2>3. /\ Task("notify", n) \in Tasks /\ Task("notify", n).kind = "notify"
        /\ Task("notify", n) \notin ToSet(queue)
    BY <1>3, TasksByKind, TaskParts DEF Queued
  <2>4. /\ QueueInv' /\ OnlyKind("notify") /\ OrderKept
        /\ ToSet(queue') = ToSet(queue) \union {Task("notify", n)}
    BY <1>4, <2>1, <2>2, <2>3, TaskPosted
  <2>5. \A m : Queued("notify", m)' <=> Queued("notify", m) \/ m = n
    BY <2>4, TaskParts DEF Queued
  <2>6. /\ notice' \in [Notices -> {"unused", "new", "posted", "done", "lost"}]
        /\ sentTo' \in [Notices -> Contexts \union {0}] /\ due' \in [Notices -> SUBSET Observers]
        /\ notice'[n] = "posted" /\ sentTo'[n] = entry /\ due'[n] = Registered
        /\ \A m \in Notices : m # n =>
             notice'[m] = notice[m] /\ sentTo'[m] = sentTo[m] /\ due'[m] = due[m]
    BY <1>2, <2>1, <2>2 DEF NoticesInv
  <2>7. ASSUME NEW m \in Notices
        PROVE  NoticeInv(m)'
    <3>1. CASE m = n
      BY <1>1, <1>3, <1>5, <1>8, <2>5, <2>6, <3>1 DEF NoticeInv
    <3>2. CASE m # n
      BY <1>1, <1>2, <1>5, <2>5, <2>6, <3>2 DEF NoticesInv, NoticeInv
    <3> QED
      BY <3>1, <3>2
  <2>8. ASSUME NEW i \in DOMAIN deliveries'
        PROVE  IterationInv(i)'
    <3>1. i \in DOMAIN deliveries /\ deliveries[i].notice \in Notices /\ deliveries[i].notice # n
      BY <1>1, <1>2, <1>3, StackFacts
    <3>2. due'[deliveries[i].notice] = due[deliveries[i].notice] /\ IterationInv(i)
      BY <1>2, <2>6, <3>1 DEF NoticesInv
    <3> QED
      BY <1>1, <1>5, <3>2 DEF IterationInv
  <2>9. NoticesInv'
    BY <1>1, <1>2, <2>6, <2>7, <2>8 DEF NoticesInv
  <2> QED
    BY <1>1, <1>4, <1>6, <2>4, <2>9 DEF ObserversInv
<1> QED
  BY <1>7, <1>8

(* A list without an iteration loses the slot of the observer.              *)
LEMMA SlotTakenOut ==
    ASSUME NEW S, NEW s \in Seq(S), IsInjective(s), NEW k \in DOMAIN s
    PROVE  /\ RemoveFirst(s, s[k]) \in Seq(S)
           /\ ToSet(RemoveFirst(s, s[k])) = ToSet(s) \ {s[k]}
           /\ IsInjective(RemoveFirst(s, s[k]))
           /\ Len(RemoveFirst(s, s[k])) = Len(s) - 1
<1>1. Len(s) \in Nat /\ DOMAIN s = 1 .. Len(s) /\ \A i \in 1 .. Len(s) : s[i] = s[k] => i = k
  BY DEF IsInjective
<1>2. {i \in 1 .. Len(s) : s[i] = s[k]} = {k}
  BY <1>1
<1>3. SelectInSeq(s, LAMBDA v : v = s[k]) = k
  <2>1. Min({k}) = k
    BY <1>1 DEF Min
  <2> QED
    BY <1>2, <2>1 DEF SelectInSeq
<1>4. RemoveFirst(s, s[k]) = RemoveAt(s, k)
  BY <1>1, <1>3 DEF RemoveFirst
<1>5. Len(RemoveAt(s, k)) = Len(s) - 1
  <2>1. SubSeq(s, 1, k - 1) \in Seq(S) /\ Len(SubSeq(s, 1, k - 1)) = k - 1
    BY <1>1
  <2>2. SubSeq(s, k + 1, Len(s)) \in Seq(S) /\ Len(SubSeq(s, k + 1, Len(s))) = Len(s) - k
    BY <1>1
  <2>3. Len(RemoveAt(s, k)) = Len(SubSeq(s, 1, k - 1)) + Len(SubSeq(s, k + 1, Len(s)))
    BY <2>1, <2>2, ConcatProperties, ZenonT(30) DEF RemoveAt
  <2> QED
    BY <1>1, <2>1, <2>2, <2>3
<1> QED
  BY <1>4, <1>5, TakenOut

(* What is left of the list of the thread: the observer is in no slot of    *)
(* it; during an iteration the other slots are where they were.             *)
LEMMA LeftWithout ==
    ASSUME StackInv, ListsInv, NEW o \in Registered
    PROVE  LET list == Without(entry, o) IN
           /\ list \in Seq(Observers \union {0}) /\ Len(list) <= Len(observers[entry])
           /\ \A i, j \in DOMAIN list : list[i] = list[j] /\ list[i] # 0 => i = j
           /\ ToSet(list) \ {0} = Registered \ {o}
           /\ entry \notin InUse => /\ 0 \notin ToSet(list)
                                    /\ Len(list) = Len(observers[entry]) - 1
           /\ entry \in InUse =>
                /\ DOMAIN list = DOMAIN observers[entry] /\ Len(list) = Len(observers[entry])
                /\ \A s \in DOMAIN list :
                     list[s] = IF observers[entry][s] = o THEN 0 ELSE observers[entry][s]
<1> DEFINE was == observers[entry]
           list == Without(entry, o)
<1>1. /\ entry \in Allocated /\ Registered = Listed(entry) /\ o \in Observers /\ o # 0
      /\ was \in Seq(Observers \union {0}) /\ Len(was) \in Nat /\ DOMAIN was = 1 .. Len(was)
  BY ListFacts
<1>2. PICK k \in DOMAIN was : was[k] = o
  BY <1>1, ListFacts
<1>3. \A i, j \in DOMAIN was : was[i] = was[j] /\ was[i] # 0 => i = j
  BY <1>1 DEF ListsInv
<1>4. NotifyDepth(entry, deliveries) = 0 <=> entry \notin InUse
  <2>1. deliveries \in Seq(Iterations)
    BY StackFacts
  <2> QED
    BY <2>1, NoIterations DEF InUse
<1>5. Listed(entry) = ToSet(was) \ {0}
  BY DEF Listed
<1>6. CASE entry \notin InUse
  <2>1. list = RemoveFirst(was, was[k])
    BY <1>2, <1>4, <1>6 DEF Without
  <2>2. 0 \notin ToSet(was)
    BY <1>1, <1>6 DEF ListsInv
  <2>3. IsInjective(was)
    BY <1>3, <2>2 DEF IsInjective, ToSet
  <2> HIDE DEF was, list
  <2>4. /\ list \in Seq(Observers \union {0}) /\ ToSet(list) = ToSet(was) \ {o}
        /\ IsInjective(list) /\ Len(list) = Len(was) - 1
    BY <1>1, <1>2, <2>1, <2>3, SlotTakenOut
  <2>5. Len(list) <= Len(was)
    BY <1>1, <2>4
  <2>6. \A i, j \in DOMAIN list : list[i] = list[j] => i = j
    BY <2>4 DEF IsInjective
  <2>7. /\ list \in Seq(Observers \union {0}) /\ Len(list) <= Len(was)
        /\ \A i, j \in DOMAIN list : list[i] = list[j] /\ list[i] # 0 => i = j
        /\ ToSet(list) \ {0} = Registered \ {o}
        /\ 0 \notin ToSet(list) /\ Len(list) = Len(was) - 1
    BY <1>1, <1>5, <2>2, <2>4, <2>5, <2>6
  <2> QED
    BY <1>6, <2>7 DEF was, list
<1>7. CASE entry \in InUse
  <2>1. list = [s \in DOMAIN was |-> IF was[s] = o THEN 0 ELSE was[s]]
    BY <1>4, <1>7 DEF Without
  <2> HIDE DEF was, list
  <2>2. /\ list \in Seq(Observers \union {0}) /\ DOMAIN list = DOMAIN was /\ Len(list) = Len(was)
        /\ \A s \in DOMAIN list : list[s] = IF was[s] = o THEN 0 ELSE was[s]
    BY <1>1, <2>1
  <2>3. \A i, j \in DOMAIN list : list[i] = list[j] /\ list[i] # 0 => i = j
    BY <1>3, <2>2
  <2>4. ToSet(list) \ {0} = ToSet(was) \ {0, o}
    <3>1. ASSUME NEW x, x # 0
          PROVE  x \in ToSet(list) <=> x \in ToSet(was) /\ x # o
      BY <2>2, <3>1 DEF ToSet
    <3> QED
      BY <3>1
  <2>5. /\ list \in Seq(Observers \union {0}) /\ Len(list) <= Len(was)
        /\ \A i, j \in DOMAIN list : list[i] = list[j] /\ list[i] # 0 => i = j
        /\ ToSet(list) \ {0} = Registered \ {o}
    BY <1>1, <1>5, <2>2, <2>3, <2>4
  <2> QED
    BY <1>7, <2>2, <2>5 DEF was, list
<1> QED
  BY <1>6, <1>7

(* RemoveObserver takes the observer out of the list and, if it was the     *)
(* last one, the context out of the map.                                    *)
LEMMA RemoveObserverStep ==
    ASSUME QueueInv, BusyInv, ObserversInv, NEW o \in Observers, OfObservers(RemoveObserver(o))
    PROVE  /\ QueueInv' /\ BusyInv' /\ ObserversInv' /\ main' = main
           /\ OnlyKind("notify") /\ OrderKept /\ OnlyBusy({"notifying", "observer", "adding"})
<1> DEFINE was == observers[entry]
           list == Without(entry, o)
<1>1. /\ MayCall /\ o \in Registered /\ queue' = queue /\ busy' = busy /\ main' = main
      /\ entry' = (IF Len(was) = 1 THEN 0 ELSE entry)
      /\ observers' = (IF list = <<>> THEN [c \in Allocated \ {entry} |-> observers[c]]
                       ELSE [observers EXCEPT ![entry] = list])
      /\ due' = [n \in Notices |-> due[n] \ {o}]
      /\ deliveries' = [i \in DOMAIN deliveries |->
            [deliveries[i] EXCEPT !.present = @ \ {o}, !.called = @ \ {o}]]
      /\ UNCHANGED <<existingOnly, notice, sentTo>>
  BY DEF OfObservers, RemoveObserver, threadVars, loopVars, mainVars, Deleted
<1>2. StackInv /\ ListsInv /\ NoticesInv
  BY DEF ObserversInv
<1>3. /\ entry # 0 /\ entry \in Allocated /\ Registered = Listed(entry) /\ 0 \notin Contexts
      /\ Len(was) \in Nat /\ DOMAIN was = 1 .. Len(was) /\ was \in Seq(Observers \union {0})
      /\ InUse \subseteq Allocated
  BY <1>1, <1>2, ListFacts
<1>4. /\ list \in Seq(Observers \union {0}) /\ Len(list) <= Len(was)
      /\ \A i, j \in DOMAIN list : list[i] = list[j] /\ list[i] # 0 => i = j
      /\ ToSet(list) \ {0} = Registered \ {o}
  BY <1>1, <1>2, LeftWithout
<1>5. entry \notin InUse => 0 \notin ToSet(list) /\ Len(list) = Len(was) - 1
  BY <1>1, <1>2, LeftWithout
<1>6. entry \in InUse =>
        /\ DOMAIN list = DOMAIN was /\ Len(list) = Len(was)
        /\ \A s \in DOMAIN list : list[s] = IF was[s] = o THEN 0 ELSE was[s]
  BY <1>1, <1>2, LeftWithout
<1>7. Len(was) # 0 /\ (Len(was) = 1 => Registered = {o})
  <2>1. PICK k \in DOMAIN was : was[k] = o
    BY <1>1, <1>2, <1>3, ListFacts
  <2>2. ASSUME Len(was) = 1, NEW x \in Registered
        PROVE  x = o
    <3>1. PICK j \in DOMAIN was : was[j] = x
      BY <1>2, <1>3, ListFacts
    <3>2. j = 1 /\ k = 1
      BY <1>3, <2>1, <2>2, <3>1
    <3> QED
      BY <2>1, <3>1, <3>2
  <2>3. Len(was) # 0
    BY <1>3, <2>1
  <2>4. Len(was) = 1 => Registered = {o}
    BY <1>1, <2>2
  <2> QED
    BY <2>3, <2>4
<1> HIDE DEF was, list
<1>8. list = <<>> <=> (entry \notin InUse /\ Len(was) = 1)
  <2>1. list = <<>> <=> Len(list) = 0
    BY <1>4
  <2>2. entry \notin InUse => Len(list) = Len(was) - 1
    BY <1>5
  <2>3. entry \in InUse => Len(list) = Len(was)
    BY <1>6
  <2>4. Len(was) \in Nat /\ Len(was) # 0
    BY <1>3, <1>7
  <2>5. CASE entry \in InUse
    BY <2>1, <2>3, <2>4, <2>5
  <2>6. CASE entry \notin InUse
    <3>1. Len(list) = Len(was) - 1
      BY <2>2, <2>6
    <3>2. Len(list) = 0 <=> Len(was) = 1
      BY <2>4, <3>1
    <3> QED
      BY <2>1, <2>6, <3>2
  <2> QED
    BY <2>5, <2>6
<1>9. Allocated' = ({entry'} \ {0}) \union InUse
  <2>1. Allocated = {entry} \union InUse
    BY <1>2, <1>3 DEF ListsInv
  <2>2. CASE list = <<>>
    <3>1. Allocated' = Allocated \ {entry} /\ entry' = 0 /\ entry \notin InUse
      BY <1>1, <1>8, <2>2 DEF Allocated
    <3> QED
      BY <2>1, <3>1
  <2>3. CASE list # <<>>
    <3>1. Allocated' = Allocated /\ (entry' = 0 => entry \in InUse) /\ entry' \in {0, entry}
      BY <1>1, <1>3, <1>8, <2>3 DEF Allocated
    <3> QED
      BY <1>3, <2>1, <3>1
  <2> QED
    BY <2>2, <2>3
<1>10. \A c \in Allocated' : /\ c \in Allocated
                             /\ c # entry => observers'[c] = observers[c]
                             /\ c = entry => list # <<>> /\ observers'[c] = list
  <2>1. CASE list = <<>>
    BY <1>1, <2>1 DEF Allocated
  <2>2. CASE list # <<>>
    BY <1>1, <1>3, <2>2 DEF Allocated
  <2> QED
    BY <2>1, <2>2
<1>11. /\ DOMAIN deliveries' = DOMAIN deliveries
       /\ \A i \in DOMAIN deliveries :
            /\ deliveries'[i].context = deliveries[i].context
            /\ deliveries'[i].index = deliveries[i].index
            /\ deliveries'[i].notice = deliveries[i].notice
            /\ deliveries'[i].observer = deliveries[i].observer
            /\ deliveries'[i].max = deliveries[i].max
            /\ deliveries'[i].present = deliveries[i].present \ {o}
            /\ deliveries'[i].called = deliveries[i].called \ {o}
            /\ deliveries'[i] \in Iterations
  <2>1. \A i \in DOMAIN deliveries :
           deliveries'[i] = [deliveries[i] EXCEPT !.present = @ \ {o}, !.called = @ \ {o}]
    BY <1>1
  <2>2. \A i \in DOMAIN deliveries : deliveries[i] \in Iterations
    BY <1>2, StackFacts
  <2>3. DOMAIN deliveries' = DOMAIN deliveries
    BY <1>1
  <2>4. ASSUME NEW i \in DOMAIN deliveries
        PROVE  /\ deliveries'[i].context = deliveries[i].context
               /\ deliveries'[i].index = deliveries[i].index
               /\ deliveries'[i].notice = deliveries[i].notice
               /\ deliveries'[i].observer = deliveries[i].observer
               /\ deliveries'[i].max = deliveries[i].max
               /\ deliveries'[i].present = deliveries[i].present \ {o}
               /\ deliveries'[i].called = deliveries[i].called \ {o}
               /\ deliveries'[i] \in Iterations
    <3>1. /\ deliveries[i] = [context |-> deliveries[i].context, index |-> deliveries[i].index,
                              notice |-> deliveries[i].notice, observer |-> deliveries[i].observer,
                              max |-> deliveries[i].max, present |-> deliveries[i].present,
                              called |-> deliveries[i].called]
          /\ deliveries[i].context \in Contexts /\ deliveries[i].index \in Nat
          /\ deliveries[i].notice \in Notices /\ deliveries[i].observer \in Observers \union {0}
          /\ deliveries[i].max \in Nat /\ deliveries[i].present \in SUBSET Observers
          /\ deliveries[i].called \in SUBSET Observers
      BY <2>2 DEF Iterations
    <3>2. deliveries'[i] = [context |-> deliveries[i].context, index |-> deliveries[i].index,
                            notice |-> deliveries[i].notice, observer |-> deliveries[i].observer,
                            max |-> deliveries[i].max,
                            present |-> deliveries[i].present \ {o},
                            called |-> deliveries[i].called \ {o}]
      BY <2>1, <3>1
    <3> QED
      BY <3>1, <3>2 DEF Iterations
  <2> QED
    BY <2>3, <2>4
<1>12. /\ Len(deliveries) \in Nat /\ DOMAIN deliveries = 1 .. Len(deliveries)
       /\ deliveries' \in Seq(Iterations) /\ Len(deliveries') = Len(deliveries)
  <2>1. Len(deliveries) \in Nat /\ DOMAIN deliveries = 1 .. Len(deliveries)
    BY <1>2, StackFacts
  <2>2. deliveries' \in [1 .. Len(deliveries) -> Iterations]
    BY <1>1, <1>11, <2>1
  <2> QED
    BY <2>1, <2>2
<1>13. InUse' = InUse /\ Delivered' = Delivered
  BY <1>11 DEF InUse, Delivered
<1>14. QueueInv' /\ OnlyKind("notify") /\ OrderKept
  BY <1>1, QueueStays DEF QueueInv, LoopAlive
<1>15. BusyInv' /\ OnlyBusy({"notifying", "observer", "adding"}) /\ (LoopAlive' <=> LoopAlive)
  <2>1. busy' = busy /\ main' = main
    BY <1>1
  <2> QED
    BY <2>1 DEF BusyInv, OnlyBusy, LoopAlive
<1>16. StackInv'
  <2>1. deliveries # <<>> => /\ Len(deliveries) \in DOMAIN deliveries /\ deliveries' # <<>>
                             /\ Innermost'.notice = Innermost.notice
                             /\ Innermost'.observer = Innermost.observer
    BY <1>11, <1>12 DEF Innermost, Last
  <2>2. deliveries' # <<>> => deliveries # <<>>
    BY <1>12
  <2>3. Len(deliveries') <= MaxNotify
    BY <1>2, <1>12 DEF StackInv
  <2>4. /\ \A i, j \in DOMAIN deliveries' : deliveries'[i].notice = deliveries'[j].notice => i = j
        /\ \A i \in DOMAIN deliveries' : i < Len(deliveries') => deliveries'[i].observer # 0
    BY <1>2, <1>11, <1>12 DEF StackInv
  <2> QED
    BY <1>1, <1>2, <1>12, <2>1, <2>2, <2>3, <2>4 DEF StackInv, Serving
<1>17. busy.kind # "adding"
  <2>1. main = "cleaning" => busy = Null
    BY DEF BusyInv
  <2> QED
    BY <1>1, <2>1, TaskParts DEF MayCall
<1>18. \A c \in Allocated' : Listed(c)' = IF c = entry THEN Registered \ {o} ELSE Listed(c)
  BY <1>4, <1>10 DEF Listed
<1>19. entry' \in {0, entry} /\ Registered' = Registered \ {o}
  <2>1. CASE Len(was) = 1
    BY <1>1, <1>7, <2>1 DEF Registered
  <2>2. CASE Len(was) # 1
    <3>1. entry' = entry /\ entry \in Allocated'
      BY <1>1, <1>3, <1>9, <2>2
    <3>2. Registered' = ToSet(observers'[entry]) \ {0}
      BY <1>3, <3>1 DEF Registered, Listed
    <3>3. ToSet(observers'[entry]) \ {0} = Registered \ {o}
      BY <1>4, <1>10, <3>1
    <3> QED
      BY <3>1, <3>2, <3>3
  <2> QED
    BY <2>1, <2>2
<1>20. entry' = 0 => Registered \ {o} = {}
  BY <1>1, <1>3, <1>7
<1>21. ListsInv'
  <2>1. \A c \in Allocated : c # entry => observers[c] # <<>>
    BY <1>2 DEF ListsInv
  <2>2. Len(list) <= MaxList
    <3>1. Len(was) <= MaxList /\ Len(list) \in Nat /\ MaxList \in Nat
      BY <1>2, <1>3, <1>4, ListFacts, ObserversAssumption DEF was
    <3> QED
      BY <1>3, <1>4, <3>1
  <2>3. ASSUME NEW c \in Allocated'
        PROVE  /\ observers'[c] \in Seq(Observers \union {0}) /\ Len(observers'[c]) <= MaxList
               /\ \A i, j \in DOMAIN observers'[c] :
                    observers'[c][i] = observers'[c][j] /\ observers'[c][i] # 0 => i = j
               /\ c # entry' => Listed(c)' = {}
               /\ c \notin InUse => 0 \notin ToSet(observers'[c])
               /\ observers'[c] # <<>>
    <3>1. CASE c = entry
      <4>1. observers'[c] = list /\ list # <<>>
        BY <1>10, <3>1
      <4>2. c # entry' => Listed(c)' = {}
        BY <1>18, <1>19, <1>20, <3>1
      <4> QED
        BY <1>4, <1>5, <2>2, <3>1, <4>1, <4>2
    <3>2. CASE c # entry
      <4>1. c \in Allocated /\ observers'[c] = observers[c] /\ Listed(c)' = Listed(c)
        BY <1>10, <1>18, <3>2
      <4> QED
        BY <1>2, <2>1, <3>2, <4>1 DEF ListsInv
    <3> QED
      BY <3>1, <3>2
  <2>4. entry' \in Allocated' \union {0} /\ Allocated' \subseteq Contexts
    BY <1>2, <1>9, <1>10 DEF ListsInv
  <2>5. entry' # 0 => LoopAlive'
    BY <1>2, <1>3, <1>15 DEF ListsInv
  <2> QED
    BY <1>1, <1>9, <1>13, <1>17, <2>3, <2>4, <2>5 DEF ListsInv
<1>22. NoticesInv'
  <2>1. /\ due' \in [Notices -> SUBSET Observers]
        /\ \A n \in Notices : due'[n] = due[n] \ {o} /\ due[n] \subseteq Registered
    BY <1>1, <1>2 DEF NoticesInv, NoticeInv
  <2>2. \A n \in Notices : due'[n] # {} => due[n] # {} /\ entry' = entry
    BY <1>19, <1>20, <2>1
  <2>3. \A m : Queued("notify", m)' <=> Queued("notify", m)
    BY <1>1 DEF Queued
  <2>4. \A n \in Notices : due'[n] \subseteq Registered'
    BY <1>19, <2>1
  <2>5. \A n \in Notices : NoticeInv(n)'
    BY <1>1, <1>2, <1>13, <2>2, <2>3, <2>4 DEF NoticesInv, NoticeInv
  <2>6. ASSUME NEW i \in DOMAIN deliveries'
        PROVE  IterationInv(i)'
    <3> DEFINE n == deliveries[i].notice
    <3>1. /\ i \in DOMAIN deliveries /\ IterationInv(i) /\ n \in Notices
          /\ deliveries[i].context \in InUse /\ deliveries[i].context \in Contexts
      BY <1>2, <1>11, StackFacts DEF NoticesInv
    <3>2. due'[n] # {} => deliveries[i].context = entry /\ entry' = entry
      BY <2>2, <3>1 DEF IterationInv
    <3>3. ASSUME deliveries[i].context = entry'
          PROVE  /\ deliveries'[i].called \subseteq Registered'
                 /\ \A x \in deliveries'[i].called, s \in DOMAIN observers'[entry'] :
                      observers'[entry'][s] = x => s <= deliveries[i].index
                 /\ \A x \in due'[n], s \in DOMAIN observers'[entry'] :
                      observers'[entry'][s] = x => s > deliveries[i].index /\ s <= deliveries[i].max
                 /\ existingOnly =>
                      /\ deliveries[i].max <= Len(observers'[entry'])
                      /\ \A s \in DOMAIN observers'[entry'] :
                           s <= deliveries[i].max /\ observers'[entry'][s] # 0 =>
                             observers'[entry'][s] \in deliveries'[i].present
      <4>1. entry' = entry /\ entry \in InUse /\ entry \in Allocated'
        BY <1>3, <1>9, <1>19, <3>1, <3>3
      <4>2. /\ observers'[entry'] = list /\ DOMAIN list = DOMAIN was /\ Len(list) = Len(was)
            /\ \A s \in DOMAIN list : list[s] = IF was[s] = o THEN 0 ELSE was[s]
        BY <1>6, <1>10, <4>1
      <4>3. /\ deliveries[i].called \subseteq Registered
            /\ \A x \in deliveries[i].called, s \in DOMAIN was :
                 was[s] = x => s <= deliveries[i].index
            /\ \A x \in due[n], s \in DOMAIN was :
                 was[s] = x => s > deliveries[i].index /\ s <= deliveries[i].max
            /\ existingOnly =>
                 /\ deliveries[i].max <= Len(was)
                 /\ \A s \in DOMAIN was : s <= deliveries[i].max /\ was[s] # 0 =>
                      was[s] \in deliveries[i].present
        BY <3>1, <3>3, <4>1 DEF IterationInv, Slot, was
      <4>4. \A x \in Registered : x # 0
        BY <1>3 DEF Listed
      <4>5. \A s \in DOMAIN list, x \in Registered : list[s] = x => was[s] = x /\ x # o
        BY <4>2, <4>4
      <4>6. \A s \in DOMAIN list : list[s] # 0 => list[s] = was[s] /\ was[s] # o
        BY <4>2
      <4>7. /\ deliveries'[i].called = deliveries[i].called \ {o}
            /\ deliveries'[i].present = deliveries[i].present \ {o}
        BY <1>11, <3>1
      <4>8. /\ \A x \in deliveries'[i].called, s \in DOMAIN list :
                 list[s] = x => s <= deliveries[i].index
            /\ \A x \in due'[n], s \in DOMAIN list :
                 list[s] = x => s > deliveries[i].index /\ s <= deliveries[i].max
        <5>1. \A x \in deliveries'[i].called : x \in deliveries[i].called /\ x \in Registered
          BY <4>3, <4>7
        <5>2. \A x \in due'[n] : x \in due[n] /\ x \in Registered
          BY <2>1, <3>1
        <5> QED
          BY <4>2, <4>3, <4>5, <5>1, <5>2
      <4>9. existingOnly =>
              /\ deliveries[i].max <= Len(list)
              /\ \A s \in DOMAIN list : s <= deliveries[i].max /\ list[s] # 0 =>
                   list[s] \in deliveries'[i].present
        BY <4>2, <4>3, <4>6, <4>7
      <4>10. deliveries'[i].called \subseteq Registered'
        BY <1>19, <4>3, <4>7
      <4> QED
        BY <4>2, <4>8, <4>9, <4>10
    <3>4. /\ deliveries'[i].context = deliveries[i].context /\ deliveries'[i].notice = n
          /\ deliveries'[i].index = deliveries[i].index /\ deliveries'[i].max = deliveries[i].max
      BY <1>11, <3>1
    <3> HIDE DEF n
    <3> QED
      BY <1>1, <3>2, <3>3, <3>4 DEF IterationInv, Slot
  <2> QED
    BY <1>1, <1>2, <2>1, <2>5, <2>6 DEF NoticesInv
<1> QED
  BY <1>1, <1>14, <1>15, <1>16, <1>21, <1>22 DEF ObserversInv

-----------------------------------------------------------------------------
(* Every step of a client keeps the parts of the others.                    *)
LEMMA TimersStep ==
    ASSUME ClientsInv,
           \/ DoDelayedWork \/ OfTimers(RunTimerTask \/ FinishTimerTask)
           \/ OfTimers(\E t \in Timers : TimerCall(t)) \/ Clock
    PROVE  ClientsInv' /\ UNCHANGED <<ownerVars, observerVars>> /\ OnlyBusy({"timer", "callback"})
<1>1. /\ QueueInv /\ BusyInv /\ LifeInv /\ WatcherInv /\ RelayInv /\ StopInv /\ TimerInv
      /\ ObserversInv
  BY DEF ClientsInv
<1>2. /\ queue' = queue /\ UNCHANGED <<mainVars, ownerVars, originVars>>
      /\ UNCHANGED <<watcherVars, relayVars, observerVars>>
  <2>1. CASE DoDelayedWork
    BY <2>1 DEF DoDelayedWork, OfTimers, TakeTimerTask
  <2>2. CASE OfTimers(RunTimerTask \/ FinishTimerTask)
    BY <2>2 DEF OfTimers, RunTimerTask, FinishTimerTask
  <2>3. CASE OfTimers(\E t \in Timers : TimerCall(t))
    BY <2>3 DEF OfTimers, TimerCall
  <2>4. CASE Clock
    BY <2>4 DEF Clock
  <2> QED
    BY <2>1, <2>2, <2>3, <2>4
<1>3. BusyInv' /\ TimerInv' /\ (OnlyBusy({"timer", "callback"}) \/ OnlyBusy({}))
  <2>1. CASE DoDelayedWork
    BY <1>1, <2>1, TakeTimerTaskStep
  <2>2. CASE OfTimers(RunTimerTask \/ FinishTimerTask)
    <3>1. OfTimers(RunTimerTask) \/ OfTimers(FinishTimerTask)
      BY <2>2 DEF OfTimers
    <3> QED
      BY <1>1, <3>1, RunTimerTaskStep, FinishTimerTaskStep
  <2>3. CASE OfTimers(\E t \in Timers : TimerCall(t))
    <3>1. PICK t \in Timers : OfTimers(TimerCall(t))
      BY <2>3 DEF OfTimers
    <3> QED
      BY <1>1, <3>1, TimerCallStep
  <2>4. CASE Clock
    BY <1>1, <2>4, ClockStep
  <2> QED
    BY <2>1, <2>2, <2>3, <2>4
<1>4. OnlyBusy({"timer", "callback"})
  BY <1>3 DEF OnlyBusy
<1>5. main' = main /\ stopping' = stopping /\ beforeStop' = beforeStop /\ (LoopAlive' <=> LoopAlive)
  BY <1>2 DEF mainVars, ownerVars, relayVars, LoopAlive
<1>6. OnlyKind("none") /\ OrderKept
  BY <1>2, QueueStays
<1>7. QueueInv'
  BY <1>1, <1>2, <1>5 DEF QueueInv
<1>8. LifeInv'
  BY <1>1, <1>2, <1>6, LifeKept
<1>9. WatcherInv'
  BY <1>1, <1>2, <1>4, <1>5, <1>6, WatcherKept
<1>10. RelayInv'
  BY <1>1, <1>2, <1>4, <1>6, RelayKept DEF relayVars
<1>11. StopInv'
  <2>1. \A task \in beforeStop : Served(task) => Served(task)'
    BY <1>2 DEF Served, relayVars
  <2> QED
    BY <1>1, <1>5, <1>6, <2>1, StopKept
<1>12. ObserversInv'
  BY <1>1, <1>2, <1>4, <1>5, <1>6, ObserversKept
<1> QED
  BY <1>2, <1>3, <1>4, <1>7, <1>8, <1>9, <1>10, <1>11, <1>12 DEF ClientsInv

WatcherSteps == \/ OfWatcher(TakeSignal) \/ OfWatcher(NotifyDelegate \/ FinishNotification)
                \/ OfWatcher(WatcherCall \/ ObjectChanges) \/ SystemStep

(* ... of the watcher and the system's thread ...                           *)
LEMMA WatcherStep ==
    ASSUME ClientsInv, WatcherSteps
    PROVE  ClientsInv' /\ UNCHANGED <<ownerVars, observerVars>> /\ OnlyBusy({"signal", "notification"})
<1>1. /\ QueueInv /\ BusyInv /\ LifeInv /\ WatcherInv /\ RelayInv /\ StopInv /\ TimerInv
      /\ ObserversInv
  BY DEF ClientsInv
<1>2. /\ delayed' = delayed /\ UNCHANGED <<mainVars, ownerVars, originVars>>
      /\ UNCHANGED <<timerVars, relayVars, observerVars>>
  <2>1. CASE OfWatcher(TakeSignal)
    BY <2>1 DEF OfWatcher, TakeSignal, TakeTask
  <2>2. CASE OfWatcher(NotifyDelegate \/ FinishNotification)
    BY <2>2 DEF OfWatcher, NotifyDelegate, FinishNotification
  <2>3. CASE OfWatcher(WatcherCall \/ ObjectChanges)
    BY <2>3 DEF OfWatcher, WatcherCall, ObjectChanges, threadVars, loopVars
  <2>4. CASE SystemStep
    BY <2>4 DEF SystemStep, OfWatcher, WaitThreadStep, WaitEnds, DoneWaitingPosts,
                DoneWaitingResets, threadVars, loopVars
  <2> QED
    BY <2>1, <2>2, <2>3, <2>4 DEF WatcherSteps
<1>3. /\ QueueInv' /\ BusyInv' /\ WatcherInv'
      /\ OnlyKind("signal") /\ OrderKept /\ OnlyBusy({"signal", "notification"})
  BY <1>1, TakeSignalStep, NotificationSteps, WatcherCalls, WaitThreadSteps DEF WatcherSteps
<1>4. main' = main /\ stopping' = stopping /\ beforeStop' = beforeStop /\ (LoopAlive' <=> LoopAlive)
  BY <1>2 DEF mainVars, ownerVars, relayVars, LoopAlive
<1>5. LifeInv'
  BY <1>1, <1>2, <1>3, LifeKept
<1>6. RelayInv'
  BY <1>1, <1>2, <1>3, RelayKept DEF relayVars
<1>7. StopInv'
  <2>1. \A task \in beforeStop : Served(task) => Served(task)'
    BY <1>2 DEF Served, relayVars
  <2> QED
    BY <1>1, <1>3, <1>4, <2>1, StopKept
<1>8. TimerInv'
  BY <1>1, <1>2, <1>3, <1>4, TimersKept
<1>9. ObserversInv'
  BY <1>1, <1>2, <1>3, <1>4, ObserversKept
<1> QED
  BY <1>2, <1>3, <1>5, <1>6, <1>7, <1>8, <1>9 DEF ClientsInv

RelaySteps == \/ OfRelays(RunPost \/ RunRelayTask) \/ OfRelays(PostReply)
              \/ OfRelays(\E r \in Relays : OwnerPosts(r))
              \/ OfRelays(\E p \in Posts : OtherPosts(p))
              \/ OfRelays(OriginMatters /\ OriginEnds /\ OriginQueueLost) \/ OwnerReplies

(* ... of those who post, and of the loop that runs what they posted ...    *)
LEMMA RelayStep ==
    ASSUME ClientsInv, RelaySteps
    PROVE  ClientsInv' /\ UNCHANGED <<ownerVars, observerVars>> /\ OnlyBusy({"relay"})
<1>1. /\ QueueInv /\ BusyInv /\ LifeInv /\ WatcherInv /\ RelayInv /\ StopInv /\ TimerInv
      /\ ObserversInv
  BY DEF ClientsInv
<1>2. /\ delayed' = delayed /\ UNCHANGED <<mainVars, ownerVars>>
      /\ UNCHANGED <<timerVars, watcherVars, observerVars>>
  <2>1. CASE OfRelays(RunPost \/ RunRelayTask)
    BY <2>1 DEF OfRelays, RunPost, RunRelayTask, TakeTask
  <2>2. CASE OfRelays(PostReply)
    BY <2>2 DEF OfRelays, PostReply
  <2>3. CASE OfRelays(\E r \in Relays : OwnerPosts(r))
    BY <2>3 DEF OfRelays, OwnerPosts
  <2>4. CASE OfRelays(\E p \in Posts : OtherPosts(p))
    BY <2>4 DEF OfRelays, OtherPosts
  <2>5. CASE OfRelays(OriginMatters /\ OriginEnds /\ OriginQueueLost)
    BY <2>5 DEF OfRelays, OriginEnds, loopVars
  <2>6. CASE OwnerReplies
    BY <2>6 DEF OwnerReplies, OfRelays, RunReplyAndSelfDestruct, loopVars
  <2> QED
    BY <2>1, <2>2, <2>3, <2>4, <2>5, <2>6 DEF RelaySteps
<1>3. /\ QueueInv' /\ BusyInv' /\ RelayInv' /\ StopInv'
      /\ \E kind \in {"post", "relay", "none"} : OnlyKind(kind)
      /\ OrderKept /\ (OnlyBusy({"relay"}) \/ OnlyBusy({}))
  <2>1. CASE OfRelays(RunPost \/ RunRelayTask)
    <3>1. OfRelays(RunPost) \/ OfRelays(RunRelayTask)
      BY <2>1 DEF OfRelays
    <3> QED
      BY <1>1, <3>1, RunPostStep, RunRelayTaskStep
  <2>2. CASE OfRelays(PostReply)
    BY <1>1, <2>2, PostReplyStep
  <2>3. CASE OfRelays(\E r \in Relays : OwnerPosts(r))
    <3>1. PICK r \in Relays : OfRelays(OwnerPosts(r))
      BY <2>3 DEF OfRelays
    <3> QED
      BY <1>1, <3>1, OwnerPostsStep
  <2>4. CASE OfRelays(\E p \in Posts : OtherPosts(p))
    <3>1. PICK p \in Posts : OfRelays(OtherPosts(p))
      BY <2>4 DEF OfRelays
    <3> QED
      BY <1>1, <3>1, OtherPostsStep
  <2>5. CASE OfRelays(OriginMatters /\ OriginEnds /\ OriginQueueLost) \/ OwnerReplies
    BY <1>1, <2>5, OwnerLoopSteps
  <2> QED
    BY <2>1, <2>2, <2>3, <2>4, <2>5 DEF RelaySteps
<1>4. PICK kind \in {"post", "relay", "none"} : OnlyKind(kind)
  BY <1>3
<1>5. OnlyBusy({"relay"})
  BY <1>3 DEF OnlyBusy
<1>6. main' = main /\ (LoopAlive' <=> LoopAlive)
  BY <1>2 DEF mainVars, LoopAlive
<1>7. LifeInv'
  BY <1>1, <1>2, <1>4, LifeKept
<1>8. WatcherInv'
  BY <1>1, <1>2, <1>4, <1>5, <1>6, WatcherKept
<1>9. TimerInv'
  BY <1>1, <1>2, <1>5, <1>6, TimersKept
<1>10. ObserversInv'
  BY <1>1, <1>2, <1>4, <1>5, <1>6, ObserversKept
<1> QED
  BY <1>2, <1>3, <1>5, <1>7, <1>8, <1>9, <1>10 DEF ClientsInv

ObserverSteps == \/ OfObservers(TakeNotice) \/ OfObservers(PushObserver \/ CallObserver \/ EndDelivery)
                 \/ ObserverMethodReturns
                 \/ OfObservers(\E o \in Observers : AddObserver(o) \/ RemoveObserver(o))
                 \/ OfObservers(\E n \in Notices : Notify(n))

(* ... of the observer list ...                                             *)
LEMMA ObserverStep ==
    ASSUME ClientsInv, ObserverSteps
    PROVE  ClientsInv' /\ UNCHANGED ownerVars
<1>1. /\ QueueInv /\ BusyInv /\ LifeInv /\ WatcherInv /\ RelayInv /\ StopInv /\ TimerInv
      /\ ObserversInv
  BY DEF ClientsInv
<1>2. /\ delayed' = delayed /\ UNCHANGED <<mainVars, ownerVars, originVars>>
      /\ UNCHANGED <<timerVars, watcherVars, relayVars>>
  <2>1. CASE OfObservers(TakeNotice)
    BY <2>1 DEF OfObservers, TakeNotice
  <2>2. CASE OfObservers(PushObserver \/ CallObserver \/ EndDelivery)
    BY <2>2 DEF OfObservers, PushObserver, CallObserver, EndDelivery
  <2>3. CASE ObserverMethodReturns
    BY <2>3 DEF ObserverMethodReturns, OfObservers, ObserverReturns
  <2>4. CASE OfObservers(\E o \in Observers : AddObserver(o) \/ RemoveObserver(o))
    BY <2>4 DEF OfObservers, AddObserver, RemoveObserver, threadVars, loopVars
  <2>5. CASE OfObservers(\E n \in Notices : Notify(n))
    BY <2>5 DEF OfObservers, Notify
  <2> QED
    BY <2>1, <2>2, <2>3, <2>4, <2>5 DEF ObserverSteps
<1>3. /\ QueueInv' /\ BusyInv' /\ ObserversInv'
      /\ OnlyKind("notify") /\ OrderKept /\ OnlyBusy({"notifying", "observer", "adding"})
  <2>1. CASE OfObservers(TakeNotice)
    BY <1>1, <2>1, TakeNoticeStep
  <2>2. CASE OfObservers(PushObserver \/ CallObserver \/ EndDelivery)
    <3>1. OfObservers(PushObserver) \/ OfObservers(CallObserver) \/ OfObservers(EndDelivery)
      BY <2>2 DEF OfObservers
    <3> QED
      BY <1>1, <3>1, PushObserverStep, CallObserverStep, EndDeliveryStep
  <2>3. CASE ObserverMethodReturns
    BY <1>1, <2>3, ObserverReturnsStep
  <2>4. CASE OfObservers(\E o \in Observers : AddObserver(o) \/ RemoveObserver(o))
    <3>1. PICK o \in Observers : OfObservers(AddObserver(o)) \/ OfObservers(RemoveObserver(o))
      BY <2>4 DEF OfObservers
    <3> QED
      BY <1>1, <3>1, AddObserverStep, RemoveObserverStep
  <2>5. CASE OfObservers(\E n \in Notices : Notify(n))
    <3>1. PICK n \in Notices : OfObservers(Notify(n))
      BY <2>5 DEF OfObservers
    <3> QED
      BY <1>1, <3>1, NotifyStep
  <2> QED
    BY <2>1, <2>2, <2>3, <2>4, <2>5 DEF ObserverSteps
<1>4. main' = main /\ stopping' = stopping /\ beforeStop' = beforeStop /\ (LoopAlive' <=> LoopAlive)
  BY <1>2 DEF mainVars, ownerVars, relayVars, LoopAlive
<1>5. LifeInv'
  BY <1>1, <1>2, <1>3, LifeKept
<1>6. WatcherInv'
  BY <1>1, <1>2, <1>3, <1>4, WatcherKept
<1>7. RelayInv'
  BY <1>1, <1>2, <1>3, RelayKept DEF relayVars
<1>8. StopInv'
  <2>1. \A task \in beforeStop : Served(task) => Served(task)'
    BY <1>2 DEF Served, relayVars
  <2> QED
    BY <1>1, <1>3, <1>4, <2>1, StopKept
<1>9. TimerInv'
  BY <1>1, <1>2, <1>3, <1>4, TimersKept
<1> QED
  BY <1>2, <1>3, <1>5, <1>6, <1>7, <1>8, <1>9 DEF ClientsInv

OwnerAndMain == \/ OfNone(Start) \/ OwnerWaitEnds \/ LifeStep \/ DoIdleWork
                \/ OfNone(ThreadQuitHelper)
                \/ OfRelays(((~ Observing /\ StopSoon) \/ Stop) /\ Told /\ UNCHANGED <<relay, post>>)

(* ... and of the owner and ThreadMain.                                     *)
LEMMA OwnerAndMainStep ==
    ASSUME ClientsInv, OwnerAndMain
    PROVE  ClientsInv' /\ UNCHANGED observerVars /\ OnlyBusy({})
           /\ (owner = "joining" /\ owner' = "idle" => main = "none")
<1>1. /\ QueueInv /\ BusyInv /\ LifeInv /\ WatcherInv /\ RelayInv /\ StopInv /\ TimerInv
      /\ ObserversInv
  BY DEF ClientsInv
<1>2. /\ QueueInv' /\ BusyInv' /\ LifeInv' /\ StopInv'
      /\ (OnlyKind("none") \/ OnlyKind("quit")) /\ OrderKept /\ OnlyBusy({})
      /\ (LoopAlive => LoopAlive')
      /\ ((~ LoopAlive \/ main = "telling")' => ~ LoopAlive \/ main = "telling")
      /\ UNCHANGED <<delayed, originVars, timerVars, watcherVars, relay, post, observerVars>>
  <2>1. CASE OfNone(Start) \/ OwnerWaitEnds \/ LifeStep \/ DoIdleWork
    BY <1>1, <2>1, OwnerAndMainSteps DEF relayVars
  <2>2. CASE OfNone(ThreadQuitHelper)
    <3>1. /\ QueueInv' /\ BusyInv' /\ LifeInv' /\ StopInv'
          /\ OnlyKind("quit") /\ OrderKept /\ OnlyBusy({}) /\ main' = main
          /\ UNCHANGED <<delayed, originVars, timerVars, watcherVars, relayVars, observerVars>>
      BY <1>1, <2>2, QuitStep
    <3> QED
      BY <3>1 DEF relayVars, LoopAlive
  <2>3. CASE OfRelays(((~ Observing /\ StopSoon) \/ Stop) /\ Told /\ UNCHANGED <<relay, post>>)
    <3>1. /\ QueueInv' /\ BusyInv' /\ LifeInv' /\ StopInv'
          /\ OnlyKind("quit") /\ OrderKept /\ OnlyBusy({})
      BY <1>1, <2>3, StopStep
    <3>2. main' = main /\ UNCHANGED <<delayed, originVars, timerVars, watcherVars, relay, post,
                                      observerVars>>
      BY <2>3 DEF OfRelays, StopSoon, Stop, mainVars
    <3> QED
      BY <3>1, <3>2 DEF LoopAlive
  <2> QED
    BY <2>1, <2>2, <2>3 DEF OwnerAndMain
<1>3. PICK kind \in {"none", "quit"} : OnlyKind(kind)
  BY <1>2
<1>4. WatcherInv'
  BY <1>1, <1>2, <1>3, WatcherKept
<1>5. RelayInv'
  BY <1>1, <1>2, <1>3, RelayKept
<1>6. TimerInv'
  BY <1>1, <1>2, TimersKept
<1>7. ObserversInv'
  BY <1>1, <1>2, <1>3, ObserversKept
<1>8. owner = "joining" /\ owner' = "idle" => main = "none"
  <2> SUFFICES ASSUME owner = "joining", owner' = "idle" PROVE main = "none"
    OBVIOUS
  <2>1. CASE OfNone(Start)
    BY <2>1 DEF OfNone, Start
  <2>2. CASE OwnerWaitEnds
    BY <2>2 DEF OwnerWaitEnds, OfNone, OwnerReturns, StartReturns, StopReturns
  <2>3. CASE LifeStep \/ DoIdleWork \/ OfNone(ThreadQuitHelper)
    BY <2>3 DEF LifeStep, DoIdleWork, OfNone, ThreadBegins, RunReturns, CleanUp, FindNoWork,
                ThreadQuitHelper, ownerVars
  <2>4. CASE OfRelays(((~ Observing /\ StopSoon) \/ Stop) /\ Told /\ UNCHANGED <<relay, post>>)
    BY <2>4 DEF OfRelays, StopSoon, Stop
  <2> QED
    BY <2>1, <2>2, <2>3, <2>4 DEF OwnerAndMain
<1> QED
  BY <1>2, <1>4, <1>5, <1>6, <1>7, <1>8 DEF ClientsInv

(* The clients and the thread between them make all the steps there are.    *)
LEMMA StepsOfClients ==
    ASSUME Next
    PROVE  \/ DoDelayedWork \/ OfTimers(RunTimerTask \/ FinishTimerTask)
           \/ OfTimers(\E t \in Timers : TimerCall(t)) \/ Clock
           \/ WatcherSteps \/ RelaySteps \/ ObserverSteps \/ OwnerAndMain \/ DestroyLoop
BY DEF Next, ThreadStep, DoWork, TaskStep, OwnerStep, Environment,
       WatcherSteps, RelaySteps, ObserverSteps, OwnerAndMain

(* So every step keeps the invariant.                                       *)
LEMMA ClientsStep ==
    ASSUME ClientsInv, [Next]_vars
    PROVE  ClientsInv'
<1>1. CASE Next
  BY <1>1, StepsOfClients, TimersStep, WatcherStep, RelayStep, ObserverStep, OwnerAndMainStep,
     DestroyLoopStep
<1>2. CASE UNCHANGED vars
  <2>1. /\ UNCHANGED <<loopVars, mainVars, ownerVars, originVars>>
        /\ UNCHANGED <<timerVars, watcherVars, relayVars, observerVars>>
    BY <1>2 DEF vars, threadVars
  <2>2. QueueInv' /\ BusyInv' /\ LifeInv'
    BY <2>1 DEF ClientsInv, QueueInv, BusyInv, LifeInv, LoopAlive, Queued, loopVars, mainVars, ownerVars
  <2>3. OnlyKind("none") /\ OrderKept /\ OnlyBusy({}) /\ (LoopAlive' <=> LoopAlive)
    BY <2>1, QueueStays DEF OnlyBusy, LoopAlive, loopVars, mainVars
  <2>4. stopping' = stopping /\ beforeStop' = beforeStop /\ delayed' = delayed
        /\ main' = main
    BY <2>1 DEF ownerVars, relayVars, loopVars, mainVars
  <2>5. \A task \in beforeStop : Served(task) => Served(task)'
    BY <2>1 DEF Served, relayVars
  <2>6. WatcherInv' /\ RelayInv' /\ StopInv' /\ TimerInv' /\ ObserversInv'
    <3>1. WatcherInv'
      BY <2>1, <2>3, WatcherKept DEF ClientsInv
    <3>2. RelayInv'
      BY <2>1, <2>3, RelayKept DEF ClientsInv, relayVars
    <3>3. StopInv'
      BY <2>3, <2>4, <2>5, StopKept DEF ClientsInv
    <3>4. TimerInv'
      BY <2>1, <2>3, <2>4, TimersKept DEF ClientsInv
    <3>5. ObserversInv'
      BY <2>1, <2>3, ObserversKept DEF ClientsInv
    <3> QED
      BY <3>1, <3>2, <3>3, <3>4, <3>5
  <2> QED
    BY <2>2, <2>6 DEF ClientsInv
<1> QED
  BY <1>1, <1>2

-----------------------------------------------------------------------------
(* In the beginning there is no thread, and no client has been used.        *)
LEMMA ClientsBegin ==
    ASSUME Init
    PROVE  ClientsInv
<1>1. /\ queue = <<>> /\ delayed = <<>> /\ busy = Null
      /\ main = "none" /\ quit = FALSE /\ messageLoop = FALSE
      /\ started = FALSE /\ stopping = FALSE /\ owner = "idle"
      /\ originAlive = TRUE /\ originQueue = <<>> /\ beforeStop = {}
  BY DEF Init, ThreadInit
<1>2. PICK program \in Programs :
         /\ usable = program.timers /\ watcher = program.watcher
         /\ relay = [r \in Relays |-> IF r \in program.relays THEN "new" ELSE "unused"]
         /\ post = [p \in Posts |-> IF p \in program.posts THEN "new" ELSE "unused"]
         /\ notice = [n \in Notices |-> IF n \in program.notices THEN "new" ELSE "unused"]
         /\ existingOnly = program.existingOnly
  BY DEF Init
<1>3. /\ usable \subseteq Timers /\ watcher \in {"usable", "gone"} /\ existingOnly \in BOOLEAN
  BY <1>2, ProgramsAssumption
<1>4. DOMAIN queue = {} /\ DOMAIN delayed = {} /\ DOMAIN originQueue = {} /\ Len(queue) = 0
  BY <1>1
<1>5. ToSet(queue) = {} /\ ToSet(originQueue) = {} /\ \A kind, id : ~ Queued(kind, id)
  BY <1>4 DEF ToSet, Queued
<1>6. busy.kind = "none" /\ \A kind, id : kind # "none" => busy # Task(kind, id)
  BY <1>1, TaskParts
<1>7. ~ LoopAlive
  BY <1>1 DEF LoopAlive
<1>8. QueueInv
  <2>1. queue \in Seq(Tasks)
    BY <1>1
  <2> QED
    BY <1>1, <1>4, <2>1 DEF QueueInv, IsInjective
<1>9. BusyInv
  BY <1>1 DEF BusyInv
<1>10. LifeInv
  BY <1>1, <1>5 DEF LifeInv
<1>11. WatcherInv
  BY <1>3, <1>6 DEF WatcherInv, Init, WatcherInit
<1>12. RelayInv
  <2>1. originQueue \in Seq(Relays) /\ IsInjective(originQueue)
    BY <1>1, <1>4 DEF IsInjective
  <2>2. /\ relay \in [Relays -> {"unused", "new", "posted", "deleted at once", "task done",
                                 "reply posted", "replied", "task lost", "reply lost"}]
        /\ post \in [Posts -> {"unused", "new", "posted", "refused", "done", "deleted"}]
    BY <1>2
  <2>3. \A r \in Relays : busy # Task("relay", r)
    BY <1>6
  <2> QED
    BY <1>1, <1>5, <2>1, <2>2, <2>3 DEF RelayInv
<1>13. StopInv
  BY <1>1 DEF StopInv
<1>14. TimerInv
  <2>1. DelayedInv
    <3>1. delayed \in Seq([task : {Task("timer", k) : k \in TimerTasks}, left : Nat])
      BY <1>1
    <3>2. \A k \in TimerTasks : ~ Pending(k)
      BY <1>4 DEF Pending
    <3> QED
      BY <1>1, <1>4, <3>1, <3>2 DEF DelayedInv
  <2>2. /\ timerOf = [k \in TimerTasks |-> NoTimer] /\ delayedTask = [t \in Timers |-> 0]
        /\ period = [k \in TimerTasks |-> 0]
        /\ toTrigger = [t \in Timers |-> -1] /\ waited = [t \in Timers |-> -1]
    BY DEF Init, TimerInit
  <2>3. TimerTypes
    <3>1. \A t \in Timers : Delay[t] \in Nat /\ -1 \in -1 .. Delay[t]
      BY TimerAssumption
    <3> QED
      BY <1>3, <2>2, <3>1 DEF TimerTypes
  <2>4. \A t \in Timers : ~ IsRunning(t)
    BY <2>2 DEF IsRunning
  <2>5. PairsInv
    <3>1. \A k \in TimerTasks : k # 0 /\ timerOf[k] = NoTimer
      BY <2>2, TimerAssumption
    <3>2. \A t \in Timers : delayedTask[t] = 0 /\ t # NoTimer
      BY <2>2, TimerAssumption
    <3> QED
      BY <2>4, <3>1, <3>2 DEF PairsInv
  <2>6. DelaysInv
    BY <2>4 DEF DelaysInv
  <2> QED
    BY <2>1, <2>3, <2>5, <2>6 DEF TimerInv
<1>15. ObserversInv
  <2>1. /\ entry = 0 /\ observers = << >> /\ deliveries = <<>>
        /\ sentTo = [n \in Notices |-> 0] /\ due = [n \in Notices |-> {}]
    BY DEF Init, ObserversInit
  <2>2. Allocated = {} /\ DOMAIN deliveries = {} /\ Len(deliveries) = 0
    BY <2>1 DEF Allocated
  <2>3. InUse = {} /\ Delivered = {}
    BY <2>2 DEF InUse, Delivered
  <2>4. StackInv
    <3>1. deliveries \in Seq(Iterations) /\ Len(deliveries) <= MaxNotify
      BY <2>1, <2>2, ObserversAssumption
    <3>2. ~ Serving /\ busy.kind \notin {"notifying", "observer", "adding"}
      BY <1>6 DEF Serving
    <3> QED
      BY <2>1, <2>2, <3>1, <3>2 DEF StackInv
  <2>5. ListsInv
    BY <1>6, <2>1, <2>2, <2>3 DEF ListsInv
  <2>6. NoticesInv
    <3>1. notice \in [Notices -> {"unused", "new", "posted", "done", "lost"}]
      BY <1>2
    <3>2. \A n \in Notices : due[n] = {}
      BY <2>1
    <3>3. \A n \in Notices : NoticeInv(n)
      BY <1>5, <2>3, <3>2 DEF NoticeInv
    <3> QED
      BY <1>3, <2>1, <2>2, <3>1, <3>3 DEF NoticesInv
  <2> QED
    BY <2>4, <2>5, <2>6 DEF ObserversInv
<1> QED
  BY <1>8, <1>9, <1>10, <1>11, <1>12, <1>13, <1>14, <1>15 DEF ClientsInv

(* The inductive invariant of the thread and its clients.                   *)
THEOREM ClientsInvariant == Spec => []ClientsInv
<1>1. Init => ClientsInv
  BY ClientsBegin
<1>2. ClientsInv /\ [Next]_vars => ClientsInv'
  BY ClientsStep
<1> QED
  BY <1>1, <1>2, PTL DEF Spec

(* The types of all the variables, as the runs check them.                  *)
THEOREM ClientsTypeCorrect == Spec => []TypeOK
<1>1. ClientsInv => TypeOK
  <2> SUFFICES ASSUME ClientsInv PROVE TypeOK
    OBVIOUS
  <2>1. /\ QueueInv /\ BusyInv /\ LifeInv /\ WatcherInv /\ RelayInv /\ StopInv
        /\ DelayedInv /\ TimerTypes /\ PairsInv /\ DelaysInv /\ StackInv /\ ListsInv /\ NoticesInv
    BY DEF ClientsInv, TimerInv, ObserversInv
  <2>2. \A i \in DOMAIN delayed : /\ delayed[i].task \in {Task("timer", k) : k \in TimerTasks}
                                  /\ delayed[i].left \in Nat
    <3> DEFINE tasks == {Task("timer", k) : k \in TimerTasks}
    <3>1. delayed \in Seq([task : tasks, left : Nat])
      BY <2>1 DEF DelayedInv
    <3> HIDE DEF tasks
    <3>2. \A i \in DOMAIN delayed : delayed[i] \in [task : tasks, left : Nat]
      <4> DEFINE entries == [task : tasks, left : Nat]
      <4>1. delayed \in Seq(entries)
        BY <3>1
      <4> HIDE DEF entries
      <4>2. \A i \in DOMAIN delayed : delayed[i] \in entries
        BY <4>1
      <4> QED
        BY <4>2 DEF entries
    <3>3. \A i \in DOMAIN delayed : delayed[i].task \in tasks /\ delayed[i].left \in Nat
      BY <3>2
    <3> QED
      BY <3>3 DEF tasks
  <2>3. busy \in BusyTasks
    <3> DEFINE first == {Null, Task("notification", 0)}
               signals == {Task("signal", f) : f \in WeakFlags}
               relays == {Task("relay", r) : r \in Relays}
               timers == {Task(kind, k) : kind \in {"timer", "callback"}, k \in TimerTasks}
               notices == {Task("notifying", n) : n \in Notices}
               others == {Task(kind, o) : kind \in {"adding", "observer"}, o \in Observers}
    <3>1. signals \subseteq Tasks /\ relays \subseteq Tasks
      BY DEF Tasks
    <3>2. busy \in first \union signals \union relays \union timers \union notices \union others
      BY <2>1 DEF BusyInv
    <3> HIDE DEF first, signals, relays, timers, notices, others
    <3>3. busy \in first \union Tasks \union timers \union notices \union others
      BY <3>1, <3>2
    <3> QED
      BY <3>3 DEF BusyTasks, first, timers, notices, others
  <2>4. beforeStop \subseteq Tasks
    BY <2>1 DEF StopInv, Tasks
  <2>5. \A t \in Timers : /\ waited[t] \in -1 .. Delay[t] /\ toTrigger[t] \in -1 .. Delay[t]
                          /\ IsRunning(t) => period[delayedTask[t]] \in 1 .. Delay[t]
    BY <2>1 DEF TimerTypes, DelaysInv
  <2>6. {quit, messageLoop, started, stopping, originAlive, registered, signaled} \subseteq BOOLEAN
    BY <2>1 DEF LifeInv, RelayInv, WatcherInv
  <2>7. /\ queue \in Seq(Tasks) /\ originQueue \in Seq(Relays)
        /\ main \in {"none", "created", "running", "idle", "cleaning", "deleting", "telling"}
        /\ owner \in {"idle", "starting", "joining"}
    BY <2>1 DEF QueueInv, LifeInv, RelayInv
  <2>8. /\ timerOf \in [TimerTasks -> Timers \union {NoTimer}]
        /\ delayedTask \in [Timers -> TimerTasks \union {0}]
    BY <2>1 DEF TimerTypes
  <2>9. /\ {callback, validFlag} \subseteq WeakFlags \union {0}
        /\ waitThread \in {"none", "waiting", "posting", "resetting", "done"}
        /\ watch \in {"off", "on", "fired"} /\ watcher \in {"usable", "gone"}
    BY <2>1 DEF WatcherInv
  <2>10. /\ relay \in [Relays -> {"unused", "new", "posted", "deleted at once", "task done",
                                  "reply posted", "replied", "task lost", "reply lost"}]
         /\ post \in [Posts -> {"unused", "new", "posted", "refused", "done", "deleted"}]
    BY <2>1 DEF RelayInv
  <2>11. /\ entry \in Allocated \union {0} /\ Allocated \subseteq Contexts
         /\ \A c \in Allocated : observers[c] \in Seq(Observers \union {0}) /\ Len(observers[c]) <= MaxList
         /\ Len(deliveries) <= MaxNotify
    BY <2>1 DEF ListsInv, StackInv
  <2>12. /\ notice \in [Notices -> {"unused", "new", "posted", "done", "lost"}]
         /\ sentTo \in [Notices -> Contexts \union {0}] /\ due \in [Notices -> SUBSET Observers]
    BY <2>1 DEF NoticesInv
  <2> QED
    BY <2>2, <2>3, <2>4, <2>5, <2>6, <2>7, <2>8, <2>9, <2>10, <2>11, <2>12, Zenon DEF TypeOK
<1> QED
  BY <1>1, ClientsInvariant, PTL

-----------------------------------------------------------------------------
(* What the clients promise never to do, promise by promise.                *)
LEMMA TimersInTime ==
    ASSUME ClientsInv
    PROVE  TimerCallsInTime
<1>1. BusyInv /\ TimerTypes /\ PairsInv /\ DelaysInv
  BY DEF ClientsInv, TimerInv
<1>2. SUFFICES ASSUME NEW t \in Timers, busy.kind = "timer", timerOf[busy.id] = t,
                      ~ (Kind[t] = "Delay" /\ TooEarly(t))
               PROVE  t \in usable /\ waited[t] = Delay[t]
  BY DEF TimerCallsInTime, TimerCalls
<1>3. PICK k \in TimerTasks : busy = Task("timer", k) /\ busy.id = k
  <2>1. busy.kind = "timer"
    BY <1>2
  <2> QED
    BY <1>1, <2>1, TaskParts DEF BusyInv
<1>4. delayedTask[t] = k /\ IsRunning(t)
  <2>1. k # 0
    BY TimerAssumption
  <2>2. delayedTask[t] = k
    BY <1>1, <1>2, <1>3 DEF PairsInv
  <2> QED
    BY <2>1, <2>2 DEF IsRunning
<1>5. t \in usable
  BY <1>1, <1>4 DEF PairsInv
<1>6. waited[t] = Delay[t]
  <2>1. CASE Kind[t] = "Delay"
    <3>1. ~ (toTrigger[t] > 0)
      BY <1>2, <2>1 DEF TooEarly
    <3>2. toTrigger[t] + waited[t] = Delay[t] /\ waited[t] \in 0 .. Delay[t]
      BY <1>1, <1>4, <2>1 DEF DelaysInv
    <3>3. Delay[t] \in Nat /\ toTrigger[t] \in Int
      BY <1>1, TimerAssumption DEF TimerTypes
    <3> QED
      BY <3>1, <3>2, <3>3
  <2>2. CASE Kind[t] # "Delay"
    BY <1>1, <1>3, <1>4, <2>2 DEF DelaysInv
  <2> QED
    BY <2>1, <2>2
<1> QED
  BY <1>5, <1>6

(* A notification is of a watch in force; the system posts to a loop.       *)
LEMMA WatchesInForce ==
    ASSUME ClientsInv
    PROVE  NotifiesOfWatchInForce /\ WaitThreadPostsToLoop
BY DEF ClientsInv, WatcherInv, NotifiesOfWatchInForce, WaitThreadPostsToLoop

(* A context is the map's or an iteration's; the map's has an observer.     *)
LEMMA ContextsBelong ==
    ASSUME ClientsInv
    PROVE  ContextsInUse
<1>1. ListsInv
  BY DEF ClientsInv, ObserversInv
<1>2. ASSUME entry # 0, deliveries = <<>>, busy.kind # "adding"
      PROVE  Registered # {}
  <2>1. entry \in Allocated /\ Registered = Listed(entry) /\ InUse = {}
    BY <1>1, <1>2, ListFacts DEF InUse
  <2>2. /\ observers[entry] \in Seq(Observers \union {0}) /\ observers[entry] # <<>>
        /\ 0 \notin ToSet(observers[entry])
    BY <1>1, <1>2, <2>1 DEF ListsInv
  <2>3. observers[entry][1] \in ToSet(observers[entry])
    BY <2>2 DEF ToSet
  <2> QED
    BY <2>1, <2>2, <2>3 DEF Listed
<1> QED
  BY <1>1, <1>2 DEF ListsInv, ContextsInUse, InUse

(* Stop returns after the tasks that were in the queue.                     *)
LEMMA StopWaits ==
    ASSUME ClientsInv, Next
    PROVE  StopWaitsForTasks
<1> SUFFICES ASSUME owner = "joining", owner' = "idle"
             PROVE  /\ \A p \in Posts : Task("post", p) \in beforeStop => post[p] = "done"
                    /\ \A r \in Relays : Task("relay", r) \in beforeStop => relay[r] # "task lost"
  BY DEF StopWaitsForTasks
<1>1. main = "none"
  <2>1. UNCHANGED ownerVars => owner' = owner
    BY DEF ownerVars
  <2>2. CASE DestroyLoop
    BY <2>1, <2>2 DEF DestroyLoop, DeletePendingTasks, TellObservers
  <2>3. CASE ~ DestroyLoop
    BY <2>1, <2>3, StepsOfClients, TimersStep, WatcherStep, RelayStep, ObserverStep, OwnerAndMainStep
  <2> QED
    BY <2>2, <2>3
<1>2. LifeInv /\ QueueInv /\ StopInv
  BY DEF ClientsInv
<1>3. stopping
  BY <1>1, <1>2 DEF LifeInv
<1>4. queue = <<>>
  BY <1>1, <1>2 DEF QueueInv, LoopAlive
<1>5. \A task \in beforeStop : Served(task)
  <2>1. \A task : ~ AheadOf(queue, task, Task("quit", 0))
    BY <1>4 DEF AheadOf
  <2> QED
    BY <1>2, <1>3, <2>1 DEF StopInv
<1>6. ASSUME NEW p \in Posts, Task("post", p) \in beforeStop
      PROVE  post[p] = "done"
  <2>1. Served(Task("post", p))
    BY <1>5, <1>6
  <2>2. \A r : Task("post", p) # Task("relay", r)
    BY TaskParts
  <2>3. PICK q \in Posts : Task("post", p) = Task("post", q) /\ post[q] = "done"
    BY <2>1, <2>2 DEF Served
  <2>4. p = q
    BY <2>3, TaskParts
  <2> QED
    BY <2>3, <2>4
<1>7. ASSUME NEW r \in Relays, Task("relay", r) \in beforeStop
      PROVE  relay[r] # "task lost"
  <2>1. Served(Task("relay", r))
    BY <1>5, <1>7
  <2>2. \A p : Task("relay", r) # Task("post", p)
    BY TaskParts
  <2>3. PICK q \in Relays : /\ Task("relay", r) = Task("relay", q)
                            /\ relay[q] \in {"task done", "reply posted", "replied", "reply lost"}
    BY <2>1, <2>2 DEF Served
  <2>4. r = q
    <3>1. Task("relay", r) = Task("relay", q)
      BY <2>3
    <3> QED
      BY <3>1, TaskParts
  <2> QED
    BY <2>3, <2>4
<1> QED
  BY <1>6, <1>7

(* Only the iteration calls an observer, and none that it has called.       *)
LEMMA CalledOnce ==
    ASSUME ClientsInv, Next
    PROVE  ObserversCalledOnce
<1> SUFFICES ASSUME busy.kind = "notifying", busy'.kind = "observer",
                    Len(deliveries') = Len(deliveries)
             PROVE  /\ busy'.id \notin Innermost.called
                    /\ existingOnly => busy'.id \in Innermost.present
  BY DEF ObserversCalledOnce, CallsObserver
<1>1. StackInv /\ ListsInv /\ NoticesInv
  BY DEF ClientsInv, ObserversInv
<1>2. deliveries # <<>>
  BY <1>1 DEF StackInv
<1>3. OfObservers(CallObserver)
  <2>1. \A kinds : OnlyBusy(kinds) /\ "notifying" \notin kinds => FALSE
    BY DEF OnlyBusy
  <2>2. ObserverSteps
    <3>1. ~ DestroyLoop
      BY DEF DestroyLoop, DeletePendingTasks, TellObservers
    <3>2. /\ "notifying" \notin {"timer", "callback"} /\ "notifying" \notin {"signal", "notification"}
          /\ "notifying" \notin {"relay"} /\ "notifying" \notin {}
      OBVIOUS
    <3> QED
      BY <2>1, <3>1, <3>2, StepsOfClients, TimersStep, WatcherStep, RelayStep, OwnerAndMainStep
  <2>3. ~ OfObservers(TakeNotice)
    BY TaskParts DEF OfObservers, TakeNotice, Idle
  <2>4. ~ OfObservers(PushObserver) /\ ~ ObserverMethodReturns
    BY DEF OfObservers, PushObserver, ObserverMethodReturns, ObserverReturns
  <2>5. ~ OfObservers(EndDelivery)
    <3>1. Len(Front(deliveries)) # Len(deliveries)
      BY <1>1, <1>2, StackFacts DEF Front
    <3> QED
      BY <3>1 DEF OfObservers, EndDelivery
  <2>6. ~ OfObservers(\E o \in Observers : AddObserver(o) \/ RemoveObserver(o))
    BY DEF OfObservers, AddObserver, RemoveObserver, threadVars, loopVars, MayCall
  <2>7. ~ OfObservers(\E n \in Notices : Notify(n))
    BY DEF OfObservers, Notify
  <2> QED
    BY <2>2, <2>3, <2>4, <2>5, <2>6, <2>7 DEF ObserverSteps, OfObservers
<1> DEFINE at == Innermost
           slots == observers[at.context]
<1>4. /\ Len(deliveries) \in DOMAIN deliveries /\ at = deliveries[Len(deliveries)]
      /\ at \in Iterations /\ at.context \in InUse /\ at.index \in Nat
  BY <1>1, <1>2, StackFacts
<1>5. PICK i \in Slots : busy' = Task("observer", slots[i])
  BY <1>3 DEF OfObservers, CallObserver
<1>6. at.context \in Allocated
  BY <1>1, <1>4, ListFacts
<1>7. i \in DOMAIN slots /\ i \in Nat /\ i > at.index /\ i <= at.max /\ slots[i] # 0
  <2>1. i \in DOMAIN slots /\ i > at.index /\ i <= at.max /\ slots[i] # 0
    BY <1>5, <1>6 DEF Slots
  <2>2. DOMAIN slots = 1 .. Len(slots)
    BY <1>1, <1>6, ListFacts
  <2> QED
    BY <2>1, <2>2
<1>8. at.context = entry
  <2>1. slots[i] \in Listed(at.context)
    BY <1>1, <1>6, <1>7, ListFacts
  <2> QED
    BY <1>1, <1>6, <2>1 DEF ListsInv
<1>9. /\ \A o \in at.called, s \in DOMAIN observers[entry] : Slot(o, s) => s <= at.index
      /\ existingOnly =>
           \A s \in DOMAIN observers[entry] :
              s <= at.max /\ observers[entry][s] # 0 => observers[entry][s] \in at.present
  BY <1>1, <1>4, <1>8 DEF NoticesInv, IterationInv
<1>10. slots[i] \notin at.called
  <2>1. Slot(slots[i], i)
    BY <1>7, <1>8 DEF Slot
  <2>2. ~ (i <= at.index)
    BY <1>4, <1>7
  <2> QED
    BY <1>7, <1>8, <1>9, <2>1, <2>2
<1>11. existingOnly => slots[i] \in at.present
  BY <1>7, <1>8, <1>9
<1> QED
  BY <1>5, <1>10, <1>11, TaskParts

(* A notification is done when it has nobody left to call.                  *)
LEMMA PassesOverNobody ==
    ASSUME ClientsInv, Next
    PROVE  NobodyPassedOver
<1> SUFFICES ASSUME NEW n \in Notices, notice'[n] = "done", notice[n] = "posted"
             PROVE  due[n] = {}
  BY DEF NobodyPassedOver
<1>1. QueueInv /\ BusyInv /\ ObserversInv /\ NoticesInv
  BY DEF ClientsInv, ObserversInv
<1>2. CASE DestroyLoop
  BY <1>2 DEF DestroyLoop, NoticesLost
<1>3. CASE OfObservers(TakeNotice)
  <2>1. PICK m : /\ m = NextTask.id /\ NextTask.kind = "notify" /\ queue # <<>>
                 /\ \/ entry # sentTo[m] /\ notice' = [notice EXCEPT ![m] = "done"]
                    \/ notice' = notice
    BY <1>3 DEF OfObservers, TakeNotice, BeginDelivery
  <2>2. n = m /\ entry # sentTo[n]
    BY <1>1, <2>1 DEF NoticesInv
  <2>3. Queued("notify", n)
    <3>1. queue \in Seq(Tasks)
      BY <1>1 DEF QueueInv
    <3>2. NextTask \in Tasks /\ NextTask \in ToSet(queue)
      BY <2>1, <3>1, TakenOff DEF NextTask
    <3>3. NextTask = Task("notify", n)
      BY <2>1, <2>2, <3>2, TasksByKind, TaskParts
    <3> QED
      BY <3>2, <3>3 DEF Queued
  <2> QED
    BY <1>1, <2>2, <2>3 DEF NoticesInv, NoticeInv
<1>4. CASE OfObservers(EndDelivery)
  BY <1>1, <1>4, EndDeliveryStep
<1>5. CASE OfObservers(\E m \in Notices : Notify(m))
  <2>1. PICK m \in Notices : /\ notice[m] = "new"
                             /\ \/ notice' = [notice EXCEPT ![m] = "lost"]
                                \/ notice' = [notice EXCEPT ![m] = "posted"]
    BY <1>5 DEF OfObservers, Notify
  <2> QED
    BY <1>1, <2>1 DEF NoticesInv
<1>6. CASE notice' = notice
  BY <1>6
<1>7. CASE ObserverSteps
  <2>1. OfObservers(PushObserver) \/ OfObservers(CallObserver) => notice' = notice
    BY DEF OfObservers, PushObserver, CallObserver
  <2>2. ObserverMethodReturns => notice' = notice
    BY DEF ObserverMethodReturns, OfObservers, ObserverReturns, observerVars
  <2>3. OfObservers(\E o \in Observers : AddObserver(o) \/ RemoveObserver(o)) => notice' = notice
    BY DEF OfObservers, AddObserver, RemoveObserver
  <2>4. OfObservers(PushObserver \/ CallObserver \/ EndDelivery) =>
          OfObservers(PushObserver) \/ OfObservers(CallObserver) \/ OfObservers(EndDelivery)
    BY DEF OfObservers
  <2> QED
    BY <1>3, <1>4, <1>5, <1>6, <1>7, <2>1, <2>2, <2>3, <2>4 DEF ObserverSteps
<1>8. UNCHANGED observerVars => notice' = notice
  BY DEF observerVars
<1> QED
  BY <1>2, <1>6, <1>7, <1>8, StepsOfClients, TimersStep, WatcherStep, RelayStep, OwnerAndMainStep

(* On every step and in every state, the clients keep all of them.          *)
THEOREM ClientsCallOnlyWhenDue == Spec => CallsOnlyWhenDue
<1>1. ASSUME ClientsInv, Next
      PROVE  /\ TimerCallsInTime /\ NotifiesOfWatchInForce
             /\ WaitThreadPostsToLoop /\ StopWaitsForTasks
             /\ ObserversCalledOnce /\ NobodyPassedOver /\ ContextsInUse
  BY <1>1, TimersInTime, WatchesInForce, ContextsBelong, StopWaits, CalledOnce, PassesOverNobody
<1>2. ClientsInv /\ [Next]_vars =>
        [/\ TimerCallsInTime /\ NotifiesOfWatchInForce
         /\ WaitThreadPostsToLoop /\ StopWaitsForTasks
         /\ ObserversCalledOnce /\ NobodyPassedOver /\ ContextsInUse]_vars
  BY <1>1
<1> QED
  BY <1>2, ClientsInvariant, PTL DEF Spec, CallsOnlyWhenDue
=============================================================================
