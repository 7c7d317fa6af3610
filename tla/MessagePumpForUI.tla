-------------------------- MODULE MessagePumpForUI ---------------------------
(***************************************************************************)
(* MessagePumpForUI (base/message_pump_win.{h,cc}): Run peeks a window     *)
(* message, then calls the loop back; a native modal loop, which the pump  *)
(* does not control, dispatches the pump's own messages to its hidden      *)
(* window.  Posted window messages other than kMsgHaveWork are all alike:  *)
(* an "input".  WM_TIMER comes when no posted message is left.             *)
(*                                                                         *)
(* Left out: dispatchers, observers and message filters, WM_QUIT, sent     *)
(* messages, PumpOutPendingPaintMessages, the mouse work-around of         *)
(* WaitForWork, and os_modal_loop_, which nothing in the tree sets.        *)
(***************************************************************************)
EXTENDS WinMessageLoop

VARIABLE clicks              \* how often the user still acts: a bound

Input == "input"

(* What PeekMessage(PM_REMOVE) finds: the message to dispatch next.        *)
WmTimerDue == wmTimer # Null /\ wmTimer <= now
WmTimer == "timer"
None == "none"
Peeked == IF queue # <<>> THEN Head(queue) ELSE IF WmTimerDue THEN WmTimer ELSE None
RemovePeeked == queue' = IF queue = <<>> THEN queue ELSE Tail(queue)

(* DispatchMessage() of an input or a WM_TIMER: the frames of the handler. *)
(* HandleTimerMessage() kills the timer first, and does no more outside of *)
(* Run.                                                                    *)
KilledBy(message) == IF message = WmTimer THEN Null ELSE wmTimer
HandlerOf(message, active) ==
    CASE message = Input -> <<Frame("Handler", "Program")>>
      [] message = WmTimer /\ active -> <<Frame("Timer", "DoDelayedWork")>>
      [] OTHER -> <<>>

(* ProcessNextWindowsMessage(): a kMsgHaveWork is discarded and stands for *)
(* the message behind it.                                                  *)
PeekNext ==
    /\ At("Peek") /\ Top.fn = "Run"
    /\ RemovePeeked
    /\ wmTimer' = KilledBy(Peeked)
    /\ frames' = Append(Front(frames), After(Peeked \notin {None, HaveWork}))
                   \o (IF Peeked = HaveWork THEN <<Frame("Replacement", "PeekReplacement")>>
                                            ELSE HandlerOf(Peeked, TRUE))
    /\ UNCHANGED <<taskVars, nestableAllowed, haveWork, delayedWorkTime, now, posting>>

(* ProcessPumpReplacementMessage(): peek the replacement, exchange         *)
(* have_work_, and if there was one, schedule work and dispatch it: for a  *)
(* Run, that is a stage that did something.  "Spurious" stands for a       *)
(* replacement that is a kMsgHaveWork, which a DCHECK rules out.           *)
PeekReplacement ==
    /\ At("PeekReplacement")
    /\ RemovePeeked
    /\ wmTimer' = KilledBy(Peeked)
    /\ SetTop([Top EXCEPT !.pc = CASE Peeked = None -> "ResetOnly"
                                   [] Peeked = Input -> "ResetInput"
                                   [] Peeked = WmTimer -> "ResetTimer"
                                   [] Peeked = HaveWork -> "Spurious"])
    /\ UNCHANGED <<taskVars, nestableAllowed, haveWork, delayedWorkTime, now, posting>>

ExchangeHaveWork ==
    /\ frames # <<>> /\ Top.pc \in {"ResetOnly", "ResetInput", "ResetTimer"}
    /\ haveWork' = FALSE
    /\ CASE Top.pc = "ResetOnly" -> frames' = Front(frames)
         [] Top.pc = "ResetInput" -> SetTop([Top EXCEPT !.pc = "DispatchInput"])
         [] Top.pc = "ResetTimer" -> SetTop([Top EXCEPT !.pc = "DispatchTimer"])
    /\ UNCHANGED <<taskVars, nestableAllowed, queue, timeVars, now, posting>>

(* The caller below is Run or HandleWorkMessage; the latter ignores the    *)
(* result.                                                                 *)
DispatchReplacement ==
    /\ frames # <<>> /\ Top.pc \in {"DispatchInput", "DispatchTimer"}
    /\ ScheduleWork
    /\ LET caller == Last(Front(frames))
           message == IF Top.pc = "DispatchInput" THEN Input ELSE WmTimer
       IN  frames' = Front(Front(frames))
                       \o <<[caller EXCEPT !.more = @ \/ caller.fn = "Run"]>>
                       \o HandlerOf(message, TRUE)
    /\ UNCHANGED <<taskVars, nestableAllowed, timeVars, now, posting>>
-----------------------------------------------------------------------------
(* DoRunLoop() after each stage.  After DoDelayedWork() it kills a timer   *)
(* that nothing waits for.                                                 *)
NextUIStage == CASE Top.pc = "Peek" -> "DoWork"
                 [] Top.pc = "DoWork" -> "DoDelayedWork"
                 [] Top.pc = "DoDelayedWork" -> IF Top.more THEN "Peek" ELSE "DoIdleWork"
                 [] Top.pc = "DoIdleWork" -> IF Top.more THEN "Peek" ELSE "Wait"

UIStageDone ==
    /\ pump = "UI"
    /\ RunBreaks \/ RunGoesOn(NextUIStage, "Peek")
    /\ wmTimer' = IF Top.pc = "DoDelayedWork" /\ Top.more /\ delayedWorkTime = Null
                  THEN Null ELSE wmTimer
    /\ UNCHANGED <<taskVars, scheduleVars, delayedWorkTime, now, posting>>

(* WaitForWork(): MsgWaitForMultipleObjectsEx returns for a message or     *)
(* when GetCurrentDelay() has passed.                                      *)
UIWaitReturns ==
    /\ At("Wait") /\ pump = "UI"
    /\ Peeked # None \/ (delayedWorkTime # Null /\ delayedWorkTime <= now)
    /\ SetTop([Top EXCEPT !.pc = "Peek"])
    /\ UNCHANGED <<taskVars, nestableAllowed, scheduleVars, timeVars, now, posting>>

UIRun ==
    /\ pump = "UI" /\ frames = <<>>
    /\ \E allPending \in BOOLEAN : frames' = <<RunFrame("Peek", allPending)>>
    /\ UNCHANGED <<taskVars, nestableAllowed, scheduleVars, timeVars, now, posting>>

(* MessageLoop::Run() or RunAllPending() in a task or handler, which may   *)
(* have put a ScopedNestableTaskAllower around it or not.                  *)
UIRunNested ==
    /\ pump = "UI" /\ Running
    /\ \E allPending, allow \in BOOLEAN : EnterNested(RunFrame("Peek", allPending), allow)
-----------------------------------------------------------------------------
(* A native modal loop, such as MessageBox(): opened by a task or handler, *)
(* or by the program outside of Run.                                       *)
ModalFrame == Frame("Modal", "Modal")
OpenModal ==
    /\ pump \in {"UI", "Embed"}
    /\ \/ \E allow \in BOOLEAN : EnterNested(ModalFrame, allow)
       \/ /\ frames = <<>>
          /\ frames' = <<ModalFrame>>
          /\ UNCHANGED <<taskVars, nestableAllowed, scheduleVars, timeVars, now, posting>>

CloseModal ==
    /\ At("Modal")
    /\ pump = "UI" \/ Len(frames) > 1          \* the host's own loop goes on
    /\ frames' = Front(frames)
    /\ nestableAllowed' = Top.restore
    /\ UNCHANGED <<taskVars, scheduleVars, timeVars, now, posting>>

(* It dispatches a message.  HandleWorkMessage() begins: within Run it     *)
(* processes a replacement, outside it only resets the flag.               *)
WorkMessageFrames ==
    IF pump = "UI" /\ Running
    THEN <<Frame("Work", "DoWork"), Frame("Replacement", "PeekReplacement")>>
    ELSE <<Frame("Work", "Reset")>>

DispatchInModal(active) ==
    /\ At("Modal") /\ Peeked # None
    /\ RemovePeeked
    /\ wmTimer' = KilledBy(Peeked)
    /\ frames' = frames \o (IF Peeked = HaveWork THEN WorkMessageFrames
                                                 ELSE HandlerOf(Peeked, active))
    /\ UNCHANGED <<taskVars, nestableAllowed, haveWork, delayedWorkTime, now, posting>>

UIDispatch == pump = "UI" /\ DispatchInModal(Running)

WorkMessageOutsideRun ==
    /\ At("Reset") /\ pump = "UI"
    /\ haveWork' = FALSE
    /\ frames' = Front(frames)
    /\ UNCHANGED <<taskVars, nestableAllowed, queue, timeVars, now, posting>>

(* The end of HandleWorkMessage() and of HandleTimerMessage().             *)
WorkMessageEnds ==
    /\ Returned("Work")
    /\ frames' = Front(frames)
    /\ IF Top.more THEN ScheduleWork ELSE UNCHANGED scheduleVars
    /\ UNCHANGED <<taskVars, nestableAllowed, timeVars, now, posting>>

TimerMessageEnds ==
    /\ Returned("Timer")
    /\ frames' = Front(frames)
    /\ IF delayedWorkTime = Null THEN UNCHANGED timeVars
                                 ELSE ScheduleDelayedWork(delayedWorkTime)
    /\ UNCHANGED <<taskVars, nestableAllowed, scheduleVars, now, posting>>

(* The user acts: a message is posted to some window of the thread.        *)
UserInput ==
    /\ clicks > 0
    /\ clicks' = clicks - 1
    /\ queue' = Append(queue, Input)
    /\ UNCHANGED <<taskVars, nestableAllowed, frames, haveWork, timeVars, now, posting>>
=============================================================================
