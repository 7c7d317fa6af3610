--------------------------- MODULE MessagePumpForIO --------------------------
(***************************************************************************)
(* MessagePumpForIO (base/message_pump_win.{h,cc}): Run polls and waits on *)
(* a completion port.  A wait for one handler (a filter), called from a    *)
(* task or from a completion, keeps the completions of the other handlers  *)
(* on completed_io_.  An operation is a model value; `state` follows it.   *)
(***************************************************************************)
EXTENDS WinMessageLoop

CONSTANTS
    Operations,              \* the overlapped operations (IOContext)
    Handlers,                \* Handlers: the IOHandler objects
    HandlerOfIO              \* HandlerOfIO[o]: IOItem::handler, the completion key

ASSUME IOAssumption == /\ HandlerOfIO \in [Operations -> Handlers]
                       /\ NoHandler \notin Handlers
                       /\ HaveWork \notin Operations

VARIABLES
    completedIo,             \* completed_io_
    state,                   \* what has become of each operation
    handler,                 \* is each handler there to stay, leaving, or gone?
    completions,             \* history: the operations as the system completed them
    deliveries               \* history: the operations as they were handled

ioVars == <<completedIo, state, handler, completions, deliveries>>

IOInit == /\ completedIo = <<>> /\ completions = <<>> /\ deliveries = <<>>

(* The system queues a completion packet on the port.                      *)
CompleteIO(o) ==
    /\ state[o] = "pending"
    /\ state' = [state EXCEPT ![o] = "completed"]
    /\ queue' = Append(queue, o)
    /\ completions' = Append(completions, o)
    /\ UNCHANGED <<taskVars, nestableAllowed, frames, haveWork, timeVars, now, posting,
                   completedIo, handler, deliveries>>

(* An IOHandler is destroyed with operations in flight: it must clear      *)
(* their IOContext::handler.                                               *)
HandlerGone(h) ==
    /\ handler[h] = "leaving" /\ (InProgram \/ frames = <<>>)
    /\ handler' = [handler EXCEPT ![h] = "gone"]
    /\ UNCHANGED <<taskVars, nestableAllowed, frames, scheduleVars, timeVars, now, posting,
                   completedIo, state, completions, deliveries>>
-----------------------------------------------------------------------------
(* MatchCompletedIOItem(): the first item saved for this filter.           *)
(* Slips: without a filter nothing matches; the last match is taken.       *)
MatchesFilterOnly(filter) == {i \in DOMAIN completedIo : HandlerOfIO[completedIo[i]] = filter}
Matches(filter) == {i \in DOMAIN completedIo :
                        filter = NoHandler \/ HandlerOfIO[completedIo[i]] = filter}
LastMatch(filter) == CHOOSE i \in Matches(filter) : \A j \in Matches(filter) : j <= i
FirstMatch(filter) == CHOOSE i \in Matches(filter) : \A j \in Matches(filter) : i <= j

(* WaitForIOCompletion() once it has an item of a handler.                 *)
Wanted(o, filter) == filter \in {NoHandler, HandlerOfIO[o]}

Gone(o) == handler[HandlerOfIO[o]] = "gone"

HandleItem(o, saved, filter) ==
    CASE Gone(o) ->                               \* just clean up the mess
           /\ completedIo' = saved
           /\ state' = [state EXCEPT ![o] = "done"]
           /\ Return(TRUE)
           /\ UNCHANGED deliveries
      [] ~Gone(o) /\ ~Wanted(o, filter) ->
           /\ completedIo' = Append(saved, o)
           /\ state' = [state EXCEPT ![o] = "saved"]
           /\ Return(TRUE)
           /\ UNCHANGED deliveries
      [] OTHER ->                                \* OnIOCompleted()
           /\ completedIo' = saved
           /\ state' = [state EXCEPT ![o] = "done"]
           /\ Call(TRUE, Frame("Handler", "Program"))
           /\ deliveries' = Append(deliveries, o)

(* WaitForIOCompletion(): an item that was saved, else one from the port,  *)
(* else a timed-out wait returns FALSE.                                    *)
InWaitForIO == At("PollIO") \/ At("WaitIO")

TakeSavedItem ==
    /\ InWaitForIO /\ Matches(Top.filter) # {}
    /\ LET i == FirstMatch(Top.filter)
       IN  HandleItem(completedIo[i], RemoveAt(completedIo, i), Top.filter)
    /\ UNCHANGED <<taskVars, nestableAllowed, scheduleVars, timeVars, now, posting, handler,
                   completions>>

GetIOItem ==
    /\ InWaitForIO /\ Matches(Top.filter) = {} /\ queue # <<>>
    /\ queue' = Tail(queue)
    /\ IF Head(queue) = HaveWork
       THEN /\ Call(TRUE, Frame("Internal", "Internal"))
            /\ UNCHANGED <<completedIo, state, deliveries>>
       ELSE HandleItem(Head(queue), completedIo, Top.filter)
    /\ UNCHANGED <<taskVars, nestableAllowed, haveWork, timeVars, now, posting, handler,
                   completions>>

(* A poll finds nothing, or GetCurrentDelay() has passed in WaitForWork(). *)
NoIOItem ==
    /\ InWaitForIO /\ Matches(Top.filter) = {} /\ queue = <<>>
    /\ \/ Top.pc = "PollIO"
       \/ Top.fn = "Run" /\ delayedWorkTime # Null /\ delayedWorkTime <= now
    /\ Return(FALSE)
    /\ UNCHANGED <<taskVars, nestableAllowed, scheduleVars, timeVars, now, posting, ioVars>>

(* ProcessInternalIOItem(): the exchange after the packet was taken.       *)
(* Slip: the flag stays set.                                               *)
HaveWorkAfterItemStays == haveWork
HaveWorkAfterItem == FALSE
ProcessInternalIOItem ==
    /\ At("Internal")
    /\ haveWork' = HaveWorkAfterItem
    /\ frames' = Front(frames)
    /\ UNCHANGED <<taskVars, nestableAllowed, queue, timeVars, now, posting, ioVars>>
-----------------------------------------------------------------------------
(* DoRunLoop() after each stage.                                           *)
NextIOStage == CASE Top.pc = "DoWork" -> "PollIO"
                 [] Top.pc = "PollIO" -> "DoDelayedWork"
                 [] Top.pc = "DoDelayedWork" -> IF Top.more THEN "DoWork" ELSE "DoIdleWork"
                 [] Top.pc = "DoIdleWork" -> IF Top.more THEN "DoWork" ELSE "WaitIO"
                 [] Top.pc = "WaitIO" -> "DoWork"

(* What WaitForWork() returns is not followed by a test of should_quit.    *)
IOStageDone ==
    /\ pump = "IO"
    /\ \/ RunBreaks /\ Top.pc # "WaitIO"
       \/ RunGoesOn(NextIOStage, "DoWork")
       \/ /\ Returned("Run") /\ Top.quit /\ Top.pc = "WaitIO"
          /\ SetTop([Top EXCEPT !.pc = "DoWork", !.done = FALSE, !.more = FALSE])
          /\ UNCHANGED nestableAllowed
    /\ UNCHANGED <<taskVars, scheduleVars, timeVars, now, posting, ioVars>>

IORun ==
    /\ pump = "IO" /\ frames = <<>>
    /\ \E allPending \in BOOLEAN : frames' = <<RunFrame("DoWork", allPending)>>
    /\ UNCHANGED <<taskVars, nestableAllowed, scheduleVars, timeVars, now, posting, ioVars>>

(* The program waits for one item, until the next completion of a handler: *)
(* in a task, in a completion or outside of Run.                           *)
WaitForIOCompletion ==
    /\ pump = "IO"
    /\ frames = <<>> \/ (InProgram /\ Len(frames) < MaxDepth)
    /\ \E o \in Operations :
         /\ state[o] \in {"pending", "completed", "saved"}
         /\ frames' = Append(frames, [Frame("WaitFor", "WaitIO") EXCEPT
                                        !.filter = HandlerOfIO[o]])
    /\ UNCHANGED <<taskVars, nestableAllowed, scheduleVars, timeVars, now, posting, ioVars>>

WaitForIOEnds ==
    /\ Returned("WaitFor")
    /\ frames' = Front(frames)
    /\ UNCHANGED <<taskVars, nestableAllowed, scheduleVars, timeVars, now, posting, ioVars>>
=============================================================================
