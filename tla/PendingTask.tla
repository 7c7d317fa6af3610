----------------------------- MODULE PendingTask -----------------------------
(***************************************************************************)
(* base/pending_task.{h,cc}: the order of the delayed work queue of a      *)
(* MessageLoop.  A pending task carries the time it is to run at (0 stands *)
(* for a null TimeTicks) and a sequence number, an int that wraps around.  *)
(***************************************************************************)
EXTENDS Integers, FiniteSets

CONSTANT SeqModulus          \* the number of values of an int (2^32)

ASSUME SeqModulusAssumption ==
    /\ SeqModulus \in Nat \ {0}
    /\ SeqModulus % 2 = 0

SeqNumbers == 0 .. (SeqModulus - 1)

(* next_sequence_num_++ of an int, which wraps.                            *)
NextSeqNum(n) == (n + 1) % SeqModulus

(* The int difference m - n is positive, which supports a roll-over.       *)
(* Slip: the numbers are compared, not their difference.                   *)
LaterSeqNumCompared(m, n) == m > n
LaterSeqNum(m, n) == LET d == (m - n) % SeqModulus
                     IN  0 < d /\ 2 * d < SeqModulus

(* operator<, inverted as the heap inverts it: a task with run time ta and *)
(* number m comes out of the heap before one with run time tb and number n *)
RunsBefore(ta, m, tb, n) == \/ ta < tb
                            \/ ta = tb /\ LaterSeqNum(n, m)
=============================================================================
