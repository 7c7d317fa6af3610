---------------------------- MODULE MCWindowsPumps ---------------------------
(* Small instances of WindowsPumps: a plain and a delayed task or more, and *)
(* operations of two IO handlers.                                          *)
EXTENDS WindowsPumps

CONSTANTS plain, other, late, later, op1, op2, op3, reader, writer

MCDelay == [t \in Tasks |-> IF t \in {late, later} THEN 1 ELSE 0]
MCClosure == [t \in Tasks |-> IF t = later THEN late ELSE t]
MCHandlerOfIO == [o \in Operations |-> IF o = op3 THEN writer ELSE reader]

UIProgram(tasks, inputs) ==
    [pump |-> "UI", tasks |-> tasks, operations |-> {}, leaving |-> {}, clicks |-> inputs]
EmbedProgram(tasks, inputs) == [UIProgram(tasks, inputs) EXCEPT !.pump = "Embed"]
IOProgram(tasks, operations, leaving) ==
    [pump |-> "IO", tasks |-> tasks, operations |-> operations, leaving |-> leaving, clicks |-> 0]

MCPrograms ==
    {UIProgram({plain, late}, 0),
     UIProgram({plain, other}, 0),
     UIProgram({plain}, 1),
     EmbedProgram({plain, late}, 1),
     IOProgram({}, {op1, op2, op3}, {}),
     IOProgram({}, {op1, op3}, {reader}),
     IOProgram({plain}, {op1}, {}),
     IOProgram({late, later}, {}, {})}

MCNativePrograms == {UIProgram({plain, other}, 1)}
MCEmbedPrograms == {EmbedProgram({plain, late}, 1)}
=============================================================================
