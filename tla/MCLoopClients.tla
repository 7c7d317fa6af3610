---------------------------- MODULE MCLoopClients ----------------------------
(* Small instances of LoopClients: each program uses a few of the clients. *)
EXTENDS LoopClients

CONSTANTS once, again, button, reply, posted

MCTimers == {once, again, button}
MCKind == [t \in MCTimers |-> CASE t = once -> "OneShot" [] t = again -> "Repeating"
                                [] t = button -> "Delay"]
MCDelay == [t \in MCTimers |-> 2]

None == [timers |-> {}, watcher |-> "gone", relays |-> {}, posts |-> {},
         notices |-> {}, existingOnly |-> FALSE]

MCPrograms ==
    {[None EXCEPT !.timers = {t}] : t \in MCTimers}
        \union {[None EXCEPT !.watcher = "usable"],
                [None EXCEPT !.relays = Relays, !.posts = Posts],
                [None EXCEPT !.notices = Notices],
                [None EXCEPT !.notices = {1}, !.existingOnly = TRUE]}
=============================================================================
