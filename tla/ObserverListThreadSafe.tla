------------------------ MODULE ObserverListThreadSafe -----------------------
(***************************************************************************)
(* An ObserverListThreadSafe and its context for the loop's thread, which   *)
(* holds an ObserverList. Any thread notifies; the notification is a task   *)
(* with the address of the context. Observers come and go on the loop's     *)
(* thread, in an observer's method too, where the loop may also run nested  *)
(* and deliver another notification.                                        *)
(***************************************************************************)
EXTENDS Thread

CONSTANTS Observers,  \* addresses of observers
          Notices,    \* calls of Notify
          Contexts,   \* addresses of contexts; bounds those that exist at once
          MaxList,    \* bound: the slots of one ObserverList
          MaxNotify   \* bound: deliveries inside one another

ASSUME ObserversAssumption ==
    /\ Observers \subseteq Nat \ {0} /\ Contexts \subseteq Nat \ {0}
    /\ MaxList \in Nat \ {0} /\ MaxNotify \in Nat \ {0}

VARIABLES
    entry,        \* observer_lists_[the thread]: a context, or 0
    observers,    \* of each context that exists: observers_, with 0 in an empty slot
    existingOnly, \* type_ is NOTIFY_EXISTING_ONLY
    deliveries,   \* the iterations of NotifyWrapper, the outermost first
    notice,       \* of each call: what became of it for this thread
    sentTo,       \* of each call in transit: the context it carries, else 0
    due           \* history, of each call: observers that have yet to be called for it
observerVars == <<entry, observers, existingOnly, deliveries, notice, sentTo, due>>

ObserversInit ==
    /\ entry = 0 /\ observers = << >>
    /\ deliveries = <<>>
    /\ sentTo = [n \in Notices |-> 0] /\ due = [n \in Notices |-> {}]

Allocated == DOMAIN observers
Listed(context) == ToSet(observers[context]) \ {0}
Registered == IF entry = 0 THEN {} ELSE Listed(entry)

(* notify_depth_: iterators of the context's list.                          *)
NotifyDepth(context, iterations) ==
    Cardinality({i \in DOMAIN iterations : iterations[i].context = context})

(* The program calls the list on the thread, within an observer's method or *)
(* elsewhere.                                                               *)
MayCall == \/ main = "running" /\ busy.kind \in {"none", "observer"}
           \/ main = "cleaning"

Innermost == Last(deliveries)

(* What the thread goes back to from AddObserver or a nested delivery.      *)
BackTo(iterations) == IF iterations = <<>> THEN Null
                      ELSE Task("observer", Last(iterations).observer)

-----------------------------------------------------------------------------
(* AddObserver finds or makes the context under list_lock_ ...              *)
AddObserver(o) ==
    /\ main = "running" /\ MayCall /\ o \notin Registered
    /\ IF entry # 0
       THEN Len(observers[entry]) < MaxList /\ UNCHANGED <<entry, observers>>
       ELSE \E context \in Contexts \ Allocated :
              /\ \A other \in Contexts \ Allocated : context <= other
              /\ entry' = context
              /\ observers' = [c \in Allocated \union {context} |->
                                 IF c = context THEN <<>> ELSE observers[c]]
    /\ busy' = Task("adding", o)
    /\ UNCHANGED <<queue, delayed, mainVars, ownerVars, originVars,
                   existingOnly, deliveries, notice, sentTo, due>>

(* ... and adds to its list without the lock.                               *)
PushObserver ==
    /\ busy.kind = "adding"
    /\ observers' = [observers EXCEPT ![entry] = Append(@, busy.id)]
    /\ busy' = BackTo(deliveries)
    /\ UNCHANGED <<queue, delayed, mainVars, ownerVars, originVars,
                   entry, existingOnly, deliveries, notice, sentTo, due>>

(* Slip: the slot is taken out of the list during a notification too.       *)
WithoutSlot(context, o) == RemoveFirst(observers[context], o)

(* During a notification a slot is emptied, for the iterators' indices.     *)
Without(context, o) ==
    IF NotifyDepth(context, deliveries) = 0 THEN RemoveFirst(observers[context], o)
    ELSE [i \in DOMAIN observers[context] |->
            IF observers[context][i] = o THEN 0 ELSE observers[context][i]]

Deleted(context) == [c \in Allocated \ {context} |-> observers[c]]

(* The context leaves observer_lists_ with its last observer; it is deleted *)
(* here or, if an iteration still holds it, at the end of that one.         *)
RemoveObserver(o) ==
    /\ MayCall /\ o \in Registered
    /\ entry' = IF Len(observers[entry]) = 1 THEN 0 ELSE entry
    /\ observers' = IF Without(entry, o) = <<>> THEN Deleted(entry)
                    ELSE [observers EXCEPT ![entry] = Without(entry, o)]
    /\ due' = [n \in Notices |-> due[n] \ {o}]
    /\ deliveries' = [i \in DOMAIN deliveries |->
                        [deliveries[i] EXCEPT !.present = @ \ {o}, !.called = @ \ {o}]]
    /\ UNCHANGED <<threadVars, existingOnly, notice, sentTo>>

(* Notify on any thread, under list_lock_.                                  *)
Notify(n) ==
    /\ notice[n] = "new"
    /\ IF entry = 0
       THEN notice' = [notice EXCEPT ![n] = "lost"] /\ UNCHANGED <<queue, sentTo, due>>
       ELSE /\ ProxyPost(Task("notify", n))
            /\ notice' = [notice EXCEPT ![n] = "posted"]
            /\ sentTo' = [sentTo EXCEPT ![n] = entry]
            /\ due' = [due EXCEPT ![n] = Registered]
    /\ UNCHANGED <<delayed, busy, mainVars, ownerVars, originVars,
                   entry, observers, existingOnly, deliveries>>

-----------------------------------------------------------------------------
(* NotifyWrapper, taken by the loop or by a Run nested in an observer's     *)
(* method. A notification for a context that is no longer the thread's is   *)
(* dropped.                                                                 *)
Iteration(n) ==
    [context |-> entry, index |-> 0, notice |-> n, observer |-> 0,
     max |-> IF existingOnly THEN Len(observers[entry]) ELSE MaxList,
     present |-> IF existingOnly THEN Registered ELSE {}, called |-> {}]

BeginDelivery(n) ==
    IF entry # sentTo[n]
    THEN /\ notice' = [notice EXCEPT ![n] = "done"]
         /\ UNCHANGED <<busy, deliveries>>
    ELSE /\ deliveries' = Append(deliveries, Iteration(n))
         /\ busy' = Task("notifying", n)
         /\ UNCHANGED notice

TakeNotice ==
    /\ \/ Idle
       \/ main = "running" /\ busy.kind = "observer" /\ Len(deliveries) < MaxNotify
    /\ queue # <<>> /\ NextTask.kind = "notify"
    /\ queue' = Tail(queue)
    /\ BeginDelivery(NextTask.id)
    /\ sentTo' = [sentTo EXCEPT ![NextTask.id] = 0]
    /\ UNCHANGED <<delayed, mainVars, ownerVars, originVars, entry, observers, existingOnly, due>>

(* Iterator::GetNext finds the next full slot; NULL if the list is gone.    *)
Slots == IF Innermost.context \notin Allocated THEN {}
         ELSE {i \in DOMAIN observers[Innermost.context] :
                 /\ i > Innermost.index /\ i <= Innermost.max
                 /\ observers[Innermost.context][i] # 0}

CallObserver ==
    /\ busy.kind = "notifying"
    /\ \E i \in Slots :
         LET o == observers[Innermost.context][i] IN
         /\ \A other \in Slots : i <= other
         /\ deliveries' = [deliveries EXCEPT ![Len(deliveries)] =
                             [Innermost EXCEPT !.index = i, !.observer = o, !.called = @ \union {o}]]
         /\ due' = [due EXCEPT ![busy.id] = @ \ {o}]
         /\ busy' = Task("observer", o)
    /\ UNCHANGED <<queue, delayed, mainVars, ownerVars, originVars,
                   entry, observers, existingOnly, notice, sentTo>>

ObserverReturns ==
    /\ busy.kind = "observer"
    /\ busy' = Task("notifying", Innermost.notice)
    /\ UNCHANGED <<queue, delayed, mainVars, ownerVars, originVars, observerVars>>

(* The full slots of a list, in their order.                                *)
Compacted(list) ==
    LET full == {i \in DOMAIN list : list[i] # 0}
        Place(i) == Cardinality({j \in full : j <= i})
    IN  [p \in 1 .. Cardinality(full) |-> list[CHOOSE i \in full : Place(i) = p]]

(* The end of the iteration: the outermost one of a list compacts it, and a *)
(* list that is empty then goes with its context.                           *)
EndDelivery ==
    /\ busy.kind = "notifying" /\ Slots = {}
    /\ LET context == Innermost.context
           list == IF NotifyDepth(context, Front(deliveries)) = 0
                   THEN Compacted(observers[context])
                   ELSE observers[context]
       IN  IF list = <<>>
           THEN observers' = Deleted(context) /\ entry' = IF entry = context THEN 0 ELSE entry
           ELSE observers' = [observers EXCEPT ![context] = list] /\ UNCHANGED entry
    /\ notice' = [notice EXCEPT ![busy.id] = "done"]
    /\ deliveries' = Front(deliveries)
    /\ busy' = BackTo(Front(deliveries))
    /\ UNCHANGED <<queue, delayed, mainVars, ownerVars, originVars, existingOnly, sentTo, due>>

(* The loop ends: its notifications are deleted; in the end no thread has   *)
(* its context any more, and posts for it would be refused.                 *)
InTransit(n) == \E i \in DOMAIN queue : queue[i] = Task("notify", n)

NoticesLost ==
    /\ notice' = [n \in Notices |-> IF InTransit(n) THEN "lost" ELSE notice[n]]
    /\ due' = [n \in Notices |-> IF InTransit(n) THEN {} ELSE due[n]]
    /\ sentTo' = [n \in Notices |-> IF InTransit(n) THEN 0 ELSE sentTo[n]]
    /\ UNCHANGED <<existingOnly, deliveries>>

ContextAbandoned == entry' = 0 /\ observers' = << >>
=============================================================================
