------------------------- MODULE MessagePumpForEmbed -------------------------
(***************************************************************************)
(* MessagePumpForEmbed (base/message_pump_embed_win.{h,cc}) and            *)
(* MessageLoopForEmbed (base/message_loop_embed.{h,cc}): a loop inside a   *)
(* host program that has its own message loop.  The host's loop is the     *)
(* bottom frame, a native loop that never ends; there is no Run and no     *)
(* DoIdleWork.  As in the sample, Start() comes before the host's loop.    *)
(***************************************************************************)
EXTENDS MessagePumpForUI

VARIABLE started             \* delegate_ # NULL

EmbedInit ==
    /\ started = (pump = "Embed")
    /\ frames = IF pump = "Embed" THEN <<ModalFrame>> ELSE <<>>

(* MessagePumpForEmbed::Quit(), by way of MessageLoop::QuitNow() in a task *)
(* or after the host's loop.  MessageLoop::Quit() sets a flag that nothing *)
(* reads.                                                                  *)
EmbedQuit ==
    /\ pump = "Embed" /\ started
    /\ InProgram
    /\ started' = FALSE
    /\ UNCHANGED <<taskVars, nestableAllowed, frames, scheduleVars, timeVars, now, posting>>

EmbedDispatch == pump = "Embed" /\ DispatchInModal(started) /\ UNCHANGED started

(* HandleWorkMessage(): exchange have_work_, then DoWork().                *)
EmbedWorkMessage ==
    /\ At("Reset") /\ pump = "Embed"
    /\ haveWork' = FALSE
    /\ IF started THEN SetTop([Top EXCEPT !.pc = "DoWork"]) ELSE frames' = Front(frames)
    /\ UNCHANGED <<taskVars, nestableAllowed, queue, timeVars, now, posting, started>>
=============================================================================
