------------------------ MODULE MCSequencedWorkerPool ------------------------
(* Small instances of SequencedWorkerPool: tasks a and b of one sequence,  *)
(* c and d of none.                                                        *)
EXTENDS SequencedWorkerPool, TLC

CONSTANTS a, b, c, d, s

MCToken == [t \in Tasks |-> IF t \in {a, b} THEN s ELSE NoToken]
MCBehavior == [t \in Tasks |-> CASE t = a -> "BLOCK"
                                 [] t = b -> "BLOCK"
                                 [] t = c -> "SKIP"
                                 [] t = d -> "CONTINUE"]

WorkerSymmetry == Permutations(Workers)
=============================================================================
