-------------------------------- MODULE Thread -------------------------------
(***************************************************************************)
(* A Thread: its owner starts and stops it, its ThreadMain creates, runs    *)
(* and destroys a message loop. The loop is what its clients see of it: a   *)
(* queue of tasks, delayed tasks in order of run time, and the steps of its *)
(* end. The owner has a loop too, on which replies run.                     *)
(***************************************************************************)
EXTENDS Integers, SequencesExt

VARIABLES
    queue,       \* of the thread's loop: tasks to run, first to last
    delayed,     \* delayed tasks [task, left], earliest first; left: time to its run time
    busy,        \* the task that is running, or Null
    main,        \* where ThreadMain is; "none" before the thread and after it
    quit,        \* quit_received of the loop's Run
    messageLoop, \* whether message_loop_ is not NULL
    started,     \* started_
    stopping,    \* stopping_
    owner,       \* what the owner is doing
    originAlive, \* the owner's own loop exists
    originQueue  \* replies it has to run
loopVars == <<queue, delayed, busy>>
mainVars == <<main, quit, messageLoop>>
ownerVars == <<started, stopping, owner>>
originVars == <<originAlive, originQueue>>
threadVars == <<loopVars, mainVars, ownerVars, originVars>>

Null == [kind |-> "none", id |-> 0]
Task(kind, id) == [kind |-> kind, id |-> id]

ThreadInit ==
    /\ queue = <<>> /\ delayed = <<>> /\ busy = Null
    /\ main = "none" /\ quit = FALSE /\ messageLoop = FALSE
    /\ started = FALSE /\ stopping = FALSE /\ owner = "idle"
    /\ originAlive = TRUE /\ originQueue = <<>>

-----------------------------------------------------------------------------
(* The loop as its clients use it.                                          *)

(* The loop object exists, and so may be posted to by its address.          *)
LoopAlive == main \in {"running", "idle", "cleaning", "deleting", "telling"}

(* Code of the program runs on the thread: as a task of its own, called by  *)
(* a client's task, or in CleanUp.                                          *)
ProgramRuns == /\ main \in {"running", "cleaning"}
               /\ busy.kind \in {"none", "callback", "notification", "relay"}

PostTask(task) == queue' = Append(queue, task)

(* A post through the loop's proxy: refused once the loop has told it.      *)
ProxyPost(task) == IF LoopAlive THEN PostTask(task) ELSE UNCHANGED queue

(* Delayed tasks are kept by run time, equal ones in the order of posting.  *)
InsertByRunTime(tasks, entry) ==
    InsertAt(tasks, Cardinality({i \in DOMAIN tasks : tasks[i].left <= entry.left}) + 1, entry)

Idle == main = "running" /\ busy = Null
NextTask == Head(queue)

(* The task at the head of the queue starts to run.                         *)
TakeTask(kind) ==
    /\ Idle /\ queue # <<>> /\ NextTask.kind = kind
    /\ queue' = Tail(queue)
    /\ UNCHANGED delayed

(* A delayed task whose time has come.                                      *)
TakeDelayedTask ==
    /\ Idle /\ delayed # <<>> /\ Head(delayed).left = 0
    /\ delayed' = Tail(delayed)
    /\ busy' = Head(delayed).task

Elapsed(entry) == [entry EXCEPT !.left = IF @ = 0 THEN 0 ELSE @ - 1]

TimePasses == delayed' = [i \in DOMAIN delayed |-> Elapsed(delayed[i])]

-----------------------------------------------------------------------------
(* The owner.                                                               *)
Start ==
    /\ owner = "idle" /\ ~ started
    /\ main' = "created" /\ owner' = "starting"
    /\ UNCHANGED <<loopVars, quit, messageLoop, started, stopping, originVars>>

(* startup_data.event.Wait returns once ThreadMain has signalled it.        *)
StartReturns ==
    /\ owner = "starting" /\ main # "created"
    /\ started' = TRUE /\ owner' = "idle"
    /\ UNCHANGED <<loopVars, mainVars, stopping, originVars>>

(* The early return of StopSoon.                                            *)
NothingToStop == stopping \/ ~ messageLoop

(* The helper that quits the loop is posted behind the tasks there are.     *)
PostQuitHelper ==
    IF NothingToStop THEN UNCHANGED <<stopping, queue>>
    ELSE stopping' = TRUE /\ PostTask(Task("quit", 0))

StopSoon ==
    /\ owner = "idle" /\ started /\ ~ NothingToStop
    /\ PostQuitHelper
    /\ UNCHANGED <<delayed, busy, mainVars, started, owner, originVars>>

Stop ==
    /\ owner = "idle" /\ started
    /\ PostQuitHelper
    /\ owner' = "joining"
    /\ UNCHANGED <<delayed, busy, mainVars, started, originVars>>

(* Slip: stopping_ is not reset when the thread has ended.                  *)
StopReturnsStopping ==
    /\ owner = "joining" /\ main = "none"
    /\ started' = FALSE /\ owner' = "idle"
    /\ UNCHANGED <<loopVars, mainVars, stopping, originVars>>

StopReturns ==
    /\ owner = "joining" /\ main = "none"
    /\ started' = FALSE /\ stopping' = FALSE /\ owner' = "idle"
    /\ UNCHANGED <<loopVars, mainVars, originVars>>

OwnerReturns == StartReturns \/ StopReturns

(* The owner's own loop is destroyed, with the replies in it.               *)
OriginEnds ==
    /\ owner = "idle" /\ originAlive
    /\ originAlive' = FALSE /\ originQueue' = <<>>
    /\ UNCHANGED <<loopVars, mainVars, ownerVars>>

-----------------------------------------------------------------------------
(* ThreadMain and the end of its loop.                                      *)
ThreadBegins ==
    /\ main = "created"
    /\ messageLoop' = TRUE /\ main' = "running"
    /\ UNCHANGED <<loopVars, quit, ownerVars, originVars>>

ThreadQuitHelper ==
    /\ TakeTask("quit")
    /\ quit' = TRUE
    /\ UNCHANGED <<busy, main, messageLoop, ownerVars, originVars>>

(* DoWork has found nothing after Quit; DoIdleWork follows, and a post in   *)
(* between comes too late.                                                  *)
ReadyToQuit == quit /\ queue = <<>>

FindNoWork ==
    /\ Idle /\ ReadyToQuit
    /\ main' = "idle"
    /\ UNCHANGED <<loopVars, quit, messageLoop, ownerVars, originVars>>

RunReturns ==
    /\ main = "idle"
    /\ main' = "cleaning" /\ quit' = FALSE
    /\ UNCHANGED <<loopVars, messageLoop, ownerVars, originVars>>

CleanUp ==
    /\ main = "cleaning"
    /\ messageLoop' = FALSE /\ main' = "deleting"
    /\ UNCHANGED <<loopVars, quit, ownerVars, originVars>>

(* DeletePendingTasks in ~MessageLoop; what the deletion of a task does to  *)
(* a client is conjoined to this.                                           *)
DeletePendingTasks ==
    /\ main = "deleting"
    /\ queue' = <<>> /\ delayed' = <<>>
    /\ main' = "telling"
    /\ UNCHANGED <<busy, quit, messageLoop, ownerVars, originVars>>

(* The destruction observers and the proxy are told; tasks posted since     *)
(* the last deletion go with incoming_queue_.                               *)
TellObservers ==
    /\ main = "telling"
    /\ main' = "none" /\ queue' = <<>>
    /\ UNCHANGED <<delayed, busy, quit, messageLoop, ownerVars, originVars>>
=============================================================================
