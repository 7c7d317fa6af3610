---------------------------- MODULE MCMessageLoop ----------------------------
(* Small instances of MessageLoopProxy: each run uses some of a plain, two *)
(* non-nestable and two delayed tasks.                                     *)
EXTENDS MessageLoopProxy

CONSTANTS plain, nonNestable, nonNestable2, late, later

MCDelay == [t \in Tasks |-> IF t \in {late, later} THEN 1 ELSE 0]
MCNestable == [t \in Tasks |-> t \notin {nonNestable, nonNestable2}]
MCClosure == [t \in Tasks |-> t]

PosterSymmetry == Permutations(Posters)
=============================================================================
