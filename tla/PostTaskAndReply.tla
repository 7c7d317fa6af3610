--------------------------- MODULE PostTaskAndReply --------------------------
(***************************************************************************)
(* PostTaskAndReply from the owner's thread to the thread's loop, and tasks *)
(* that other threads post to it, all through its proxy. The relay holds    *)
(* both closures; what becomes of it when a loop ends first is part of the   *)
(* model.                                                                   *)
(***************************************************************************)
EXTENDS Thread

CONSTANTS Relays,  \* calls of PostTaskAndReply
          Posts    \* tasks of other threads

VARIABLES
    relay,     \* of each call: how far its relay is
    post,      \* of each task of another thread: what became of it
    beforeStop \* history: the tasks in the queue when the thread was told to stop
relayVars == <<relay, post, beforeStop>>

(* On the owner's thread, which has a loop; it does not wait for the other. *)
OwnerPosts(r) ==
    /\ owner = "idle" /\ originAlive /\ started /\ relay[r] = "new"
    /\ ProxyPost(Task("relay", r))
    /\ relay' = [relay EXCEPT ![r] = IF LoopAlive THEN "posted" ELSE "deleted at once"]
    /\ UNCHANGED <<delayed, busy, mainVars, ownerVars, originVars, post, beforeStop>>

OtherPosts(p) ==
    /\ started /\ post[p] = "new"
    /\ ProxyPost(Task("post", p))
    /\ post' = [post EXCEPT ![p] = IF LoopAlive THEN "posted" ELSE "refused"]
    /\ UNCHANGED <<delayed, busy, mainVars, ownerVars, originVars, relay, beforeStop>>

RunPost ==
    /\ TakeTask("post")
    /\ post' = [post EXCEPT ![NextTask.id] = "done"]
    /\ UNCHANGED <<busy, mainVars, ownerVars, originVars, relay, beforeStop>>

(* PostTaskAndReplyRelay::Run: the task, then the post of the reply.        *)
RunRelayTask ==
    /\ TakeTask("relay")
    /\ busy' = NextTask
    /\ relay' = [relay EXCEPT ![NextTask.id] = "task done"]
    /\ UNCHANGED <<mainVars, ownerVars, originVars, post, beforeStop>>

PostReply ==
    /\ main = "running" /\ busy.kind = "relay"
    /\ originQueue' = IF originAlive THEN Append(originQueue, busy.id) ELSE originQueue
    /\ relay' = [relay EXCEPT ![busy.id] = IF originAlive THEN "reply posted" ELSE "reply lost"]
    /\ busy' = Null
    /\ UNCHANGED <<queue, delayed, mainVars, ownerVars, originAlive, post, beforeStop>>

(* On the owner's thread: task_ is released, the reply runs, the relay is   *)
(* deleted.                                                                 *)
RunReplyAndSelfDestruct ==
    /\ owner = "idle" /\ originAlive /\ originQueue # <<>>
    /\ relay' = [relay EXCEPT ![Head(originQueue)] = "replied"]
    /\ originQueue' = Tail(originQueue)
    /\ UNCHANGED <<loopVars, mainVars, ownerVars, originAlive, post, beforeStop>>

(* Tasks deleted with their loop leave the relay behind: it is bound        *)
(* Unretained.                                                              *)
InQueue(kind, id) == \E i \in DOMAIN queue : queue[i] = Task(kind, id)

QueueLost ==
    /\ relay' = [r \in Relays |-> IF InQueue("relay", r) THEN "task lost" ELSE relay[r]]
    /\ post' = [p \in DOMAIN post |-> IF InQueue("post", p) THEN "deleted" ELSE post[p]]
    /\ UNCHANGED beforeStop

OriginQueueLost ==
    /\ relay' = [r \in Relays |-> IF \E i \in DOMAIN originQueue : originQueue[i] = r
                                  THEN "reply lost" ELSE relay[r]]
    /\ UNCHANGED <<post, beforeStop>>
=============================================================================
