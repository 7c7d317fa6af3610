-------------------------- MODULE WindowsPumpsProofs --------------------------
(***************************************************************************)
(* Proofs about WindowsPumps: the three pumps, the loop they call and the  *)
(* threads that post, for any programs, tasks, posters and depth.          *)
(*                                                                         *)
(* Everything rests on the stack of the loop's thread.  A lemma sorts the  *)
(* steps by what they do to it, and the invariants of the stack are proved *)
(* over these kinds; those of the flag have_work_, of sleeping and of IO   *)
(* then read off what a frame on top, or a frame that waits, can be.       *)
(***************************************************************************)
EXTENDS WindowsPumps, SequenceLemmas, WellFoundedInduction, FiniteSetTheorems, TLAPS

(* The frames there are.                                                   *)
Fns == {"Run", "Task", "Handler", "Modal", "Work", "Timer", "Replacement", "Internal", "WaitFor"}
UIStages == {"Peek", "DoWork", "DoDelayedWork", "DoIdleWork", "Wait"}
IOStages == {"DoWork", "PollIO", "DoDelayedWork", "DoIdleWork", "WaitIO"}
ResetPcs == {"PeekReplacement", "ResetOnly", "ResetInput", "ResetTimer", "Reset", "Internal"}
DispatchPcs == {"DispatchInput", "DispatchTimer"}
Pcs == UIStages \cup IOStages \cup ResetPcs \cup DispatchPcs \cup {"Program", "Modal"}

FrameSet ==
    [fn : Fns, pc : Pcs, done : BOOLEAN, more : BOOLEAN, quit : BOOLEAN, quitReceived : BOOLEAN,
     task : Tasks \cup {NoTask}, nested : BOOLEAN, restore : BOOLEAN,
     allower : BOOLEAN, filter : Handlers \cup {NoHandler}]

(* A turn of Run that will look for work again before it sleeps.           *)
Comes(f) == \/ f.more \/ f.pc = "Peek"
            \/ (f.pc = "DoWork" /\ ~f.done)
            \/ (f.pc = "WaitIO" /\ f.done)

(* What a frame can be, and what it can be while another one is on it.     *)
WellFormed(p, f) ==
    /\ f.fn = "Run" =>
         /\ (p = "UI" /\ f.pc \in UIStages) \/ (p = "IO" /\ f.pc \in IOStages)
         /\ f.filter = NoHandler
         /\ f.pc = "Wait" => ~f.done
         /\ (f.pc \in {"Wait", "WaitIO"} /\ ~f.done) => ~f.more
         /\ (f.quit /\ ~f.done) => (p = "IO" /\ f.pc = "DoWork")
    /\ f.fn = "Task" <=> f.task # NoTask
    /\ f.fn \in {"Task", "Handler"} => f.pc = "Program" /\ ~f.done
    /\ f.fn = "Modal" => f.pc = "Modal" /\ ~f.done /\ p \in {"UI", "Embed"}
    /\ f.fn = "Work" => p \in {"UI", "Embed"} /\ (f.pc = "DoWork" \/ (f.pc = "Reset" /\ ~f.done))
    /\ f.fn = "Timer" => f.pc = "DoDelayedWork" /\ p \in {"UI", "Embed"}
    /\ f.fn = "Replacement" => p = "UI" /\ ~f.done /\ f.pc \in (ResetPcs \ {"Reset", "Internal"}) \cup DispatchPcs
    /\ f.fn = "Internal" => p = "IO" /\ f.pc = "Internal" /\ ~f.done
    /\ f.fn = "WaitFor" => p = "IO" /\ f.pc = "WaitIO"

Waits(f) == /\ f.fn \in {"Run", "Timer", "WaitFor"} => f.done
            /\ f.fn = "Run" => Comes(f)
            /\ f.fn = "Work" => f.pc = "DoWork"
            /\ f.fn \notin {"Replacement", "Internal"}
Bears(f, g) == g.fn = "Replacement" => f.fn \in {"Run", "Work"}

Stack(p, s) ==
    /\ s \in Seq(FrameSet)
    /\ \A k \in 1 .. Len(s) : WellFormed(p, s[k])
    /\ \A k \in 1 .. Len(s) : k # Len(s) => Waits(s[k]) /\ Bears(s[k], s[k + 1])
    /\ s # <<>> => s[1].fn # "Replacement"
StackInv == Stack(pump, frames)

(* Frame n, or the last Run below it that does not forbid nestable tasks,  *)
(* has no task and no native loop above it: there nestable tasks are       *)
(* allowed, and a nested loop that was entered there restores that.        *)
Opens(f) == f.fn = "Run" /\ ~Forbids(f)
Clear(s, k, n) == /\ k = 0 \/ Opens(s[k])
                  /\ \A j \in 1 .. n : j > k => s[j].fn \notin {"Task", "Modal"}
Free(s, n) == \E k \in 0 .. n : Clear(s, k, n)
Allowed(s, allowed) ==
    /\ Free(s, Len(s)) => allowed
    /\ \A n \in 1 .. Len(s) : s[n].fn \in {"Run", "Modal"} /\ Free(s, n - 1) => s[n].restore
AllowInv == Allowed(frames, nestableAllowed)
-----------------------------------------------------------------------------
(* Pushing and popping, element by element.                                *)
LEMMA PushedFrame ==
    ASSUME NEW S, NEW s \in Seq(S), NEW f \in S
    PROVE  /\ Append(s, f) \in Seq(S) /\ Append(s, f) # <<>>
           /\ Len(s) \in Nat /\ Len(Append(s, f)) = Len(s) + 1
           /\ Append(s, f)[Len(s) + 1] = f
           /\ \A k \in 1 .. Len(s) : Append(s, f)[k] = s[k]
           /\ Last(Append(s, f)) = f
           /\ Front(Append(s, f)) = s
<1>1. /\ Append(s, f) \in Seq(S) /\ Append(s, f) # <<>>
      /\ Len(s) \in Nat /\ Len(Append(s, f)) = Len(s) + 1
      /\ Append(s, f)[Len(s) + 1] = f
      /\ \A k \in 1 .. Len(s) : Append(s, f)[k] = s[k]
  OBVIOUS
<1>2. Last(Append(s, f)) = f
  BY <1>1 DEF Last
<1>3. Front(Append(s, f)) = s
  <2> DEFINE r == Append(s, f)
  <2>1. r \in Seq(S) /\ Len(r) = Len(s) + 1 /\ \A k \in 1 .. Len(s) : r[k] = s[k]
    BY <1>1
  <2> HIDE DEF r
  <2>2. /\ SubSeq(r, 1, Len(r) - 1) \in Seq(S) /\ Len(SubSeq(r, 1, Len(r) - 1)) = Len(s)
        /\ \A k \in 1 .. Len(s) : SubSeq(r, 1, Len(r) - 1)[k] = r[k]
    BY <1>1, <2>1
  <2>3. SubSeq(r, 1, Len(r) - 1) = s
    BY <1>1, <2>1, <2>2
  <2> QED
    BY <2>3 DEF Front, r
<1> QED
  BY <1>1, <1>2, <1>3

LEMMA PushedTop ==
    \A s \in Seq(FrameSet), f \in FrameSet : Append(s, f) # <<>> /\ Last(Append(s, f)) = f
BY PushedFrame, Zenon

LEMMA PoppedFrame ==
    ASSUME NEW S, NEW s \in Seq(S), s # <<>>
    PROVE  /\ Front(s) \in Seq(S) /\ Last(s) \in S /\ Last(s) = s[Len(s)]
           /\ Len(s) \in Nat \ {0} /\ Len(Front(s)) = Len(s) - 1
           /\ \A k \in 1 .. Len(s) - 1 : Front(s)[k] = s[k]
<1>1. Len(s) \in Nat \ {0} /\ s[Len(s)] \in S /\ DOMAIN s = 1 .. Len(s)
  OBVIOUS
<1>2. /\ Front(s) \in Seq(S) /\ Len(Front(s)) = Len(s) - 1
      /\ \A k \in 1 .. Len(s) - 1 : Front(s)[k] = s[k]
  BY <1>1 DEF Front
<1> QED
  BY <1>1, <1>2 DEF Last

(* A push keeps the invariant of the stack when the frame below waits, a   *)
(* pop keeps it always, and so does a change of the top frame.             *)
LEMMA StackPushed ==
    ASSUME NEW p, NEW s, Stack(p, s), NEW f \in FrameSet, WellFormed(p, f),
           IF s = <<>> THEN f.fn # "Replacement" ELSE Waits(Last(s)) /\ Bears(Last(s), f)
    PROVE  Stack(p, Append(s, f))
<1> DEFINE r == Append(s, f)
<1>1. s \in Seq(FrameSet)
  BY DEF Stack
<1>2. /\ r \in Seq(FrameSet) /\ Len(s) \in Nat /\ Len(r) = Len(s) + 1
      /\ r[Len(s) + 1] = f /\ \A k \in 1 .. Len(s) : r[k] = s[k]
  BY <1>1, PushedFrame
<1> HIDE DEF r
<1>3. ASSUME NEW k \in 1 .. Len(r)
      PROVE  WellFormed(p, r[k])
  BY <1>2 DEF Stack
<1>4. ASSUME NEW k \in 1 .. Len(r), k # Len(r)
      PROVE  Waits(r[k]) /\ Bears(r[k], r[k + 1])
  <2>1. CASE k = Len(s)
    <3>1. s # <<>> /\ r[k] = Last(s) /\ r[k + 1] = f
      BY <1>1, <1>2, <1>4, <2>1 DEF Last
    <3> QED
      BY <3>1
  <2>2. CASE k # Len(s)
    <3>1. k \in 1 .. Len(s) /\ k + 1 \in 1 .. Len(s) /\ r[k] = s[k] /\ r[k + 1] = s[k + 1]
      BY <1>2, <1>4, <2>2
    <3> QED
      BY <2>2, <3>1 DEF Stack
  <2> QED
    BY <2>1, <2>2
<1>5. r[1].fn # "Replacement"
  BY <1>1, <1>2 DEF Stack
<1>6. Stack(p, r)
  BY <1>2, <1>3, <1>4, <1>5 DEF Stack
<1> QED
  BY <1>6 DEF r

LEMMA StackPopped ==
    ASSUME NEW p, NEW s, Stack(p, s), s # <<>>
    PROVE  /\ Stack(p, Front(s)) /\ WellFormed(p, Last(s)) /\ Last(s) \in FrameSet
           /\ IF Front(s) = <<>> THEN Last(s).fn # "Replacement"
              ELSE Waits(Last(Front(s))) /\ Bears(Last(Front(s)), Last(s))
<1> DEFINE r == Front(s)
<1>1. s \in Seq(FrameSet)
  BY DEF Stack
<1>2. /\ r \in Seq(FrameSet) /\ Last(s) \in FrameSet /\ Last(s) = s[Len(s)]
      /\ Len(s) \in Nat \ {0} /\ Len(r) = Len(s) - 1
      /\ \A k \in 1 .. Len(s) - 1 : r[k] = s[k]
  BY <1>1, PoppedFrame
<1> HIDE DEF r
<1>3. Stack(p, r)
  <2>1. ASSUME NEW k \in 1 .. Len(r)
        PROVE  WellFormed(p, r[k])
    BY <1>2 DEF Stack
  <2>2. ASSUME NEW k \in 1 .. Len(r), k # Len(r)
        PROVE  Waits(r[k]) /\ Bears(r[k], r[k + 1])
    <3>1. k \in 1 .. Len(s) /\ k # Len(s) /\ r[k] = s[k] /\ r[k + 1] = s[k + 1]
      BY <1>2, <2>2
    <3> QED
      BY <3>1 DEF Stack
  <2>3. r # <<>> => r[1].fn # "Replacement"
    BY <1>2 DEF Stack
  <2> QED
    BY <1>2, <2>1, <2>2, <2>3 DEF Stack
<1>4. WellFormed(p, Last(s))
  BY <1>2 DEF Stack
<1>5. ASSUME r # <<>>
      PROVE  Waits(Last(r)) /\ Bears(Last(r), Last(s))
  <2>1. Len(r) \in Nat \ {0} /\ Last(r) = r[Len(r)]
    BY <1>2, <1>5, PoppedFrame
  <2>2. Len(r) \in 1 .. Len(s) /\ Len(r) # Len(s) /\ Last(r) = s[Len(r)] /\ Last(s) = s[Len(r) + 1]
    BY <1>2, <2>1
  <2> QED
    BY <2>2 DEF Stack
<1>6. ASSUME r = <<>>
      PROVE  Last(s).fn # "Replacement"
  <2>1. Len(s) = 1
    BY <1>2, <1>6
  <2> QED
    BY <1>2, <2>1 DEF Stack
<1> QED
  BY <1>2, <1>3, <1>4, <1>5, <1>6 DEF r

(* What a change of the stack does to the frames where nestable tasks are  *)
(* allowed.                                                                *)
SameCall(f, g) == f.fn = g.fn /\ f.restore = g.restore /\ f.allower = g.allower
LEMMA AllowedSame ==
    ASSUME NEW s \in Seq(FrameSet), NEW r \in Seq(FrameSet), NEW a, Allowed(s, a),
           Len(r) = Len(s),
           \A k \in 1 .. Len(s) : SameCall(r[k], s[k])
    PROVE  Allowed(r, a)
<1>1. Len(s) \in Nat
  OBVIOUS
<1>2. ASSUME NEW n \in 0 .. Len(s), Free(r, n)
      PROVE  Free(s, n)
  <2>1. PICK k \in 0 .. n : Clear(r, k, n)
    BY <1>2 DEF Free
  <2>2. Clear(s, k, n)
    BY <1>1, <2>1 DEF Clear, Opens, Forbids, SameCall
  <2> QED
    BY <2>2 DEF Free
<1>3. Free(r, Len(r)) => a
  BY <1>1, <1>2 DEF Allowed
<1>4. ASSUME NEW n \in 1 .. Len(r), r[n].fn \in {"Run", "Modal"}, Free(r, n - 1)
      PROVE  r[n].restore
  <2>1. n \in 1 .. Len(s) /\ n - 1 \in 0 .. Len(s)
    BY <1>1
  <2>2. Free(s, n - 1)
    BY <1>2, <1>4, <2>1
  <2> QED
    BY <1>4, <2>1, <2>2 DEF Allowed, SameCall
<1> QED
  BY <1>3, <1>4 DEF Allowed

LEMMA AllowedPushed ==
    ASSUME NEW s \in Seq(FrameSet), NEW f \in FrameSet, NEW a, NEW b, Allowed(s, a),
           f.fn \in {"Run", "Modal"} => (a => f.restore),
           Opens(f) => b,
           f.fn \notin {"Run", "Task", "Modal"} => (a => b)
    PROVE  Allowed(Append(s, f), b)
<1> DEFINE r == Append(s, f)
<1>1. /\ r \in Seq(FrameSet) /\ Len(s) \in Nat /\ Len(r) = Len(s) + 1
      /\ r[Len(s) + 1] = f /\ \A k \in 1 .. Len(s) : r[k] = s[k]
  BY PushedFrame
<1> HIDE DEF r
<1>2. ASSUME NEW n \in 0 .. Len(s), Free(r, n)
      PROVE  Free(s, n)
  <2>1. PICK k \in 0 .. n : Clear(r, k, n)
    BY <1>2 DEF Free
  <2>2. Clear(s, k, n)
    BY <1>1, <2>1 DEF Clear
  <2> QED
    BY <2>2 DEF Free
<1>3. ASSUME Free(r, Len(r)), ~Opens(f)
      PROVE  f.fn \notin {"Run", "Task", "Modal"} /\ Free(s, Len(s))
  <2>1. PICK k \in 0 .. Len(r) : Clear(r, k, Len(r))
    BY <1>3 DEF Free
  <2>2. k # Len(r)
    BY <1>1, <1>3, <2>1 DEF Clear
  <2>3. f.fn \notin {"Task", "Modal"} /\ Clear(s, k, Len(s)) /\ k \in 0 .. Len(s)
    BY <1>1, <2>1, <2>2 DEF Clear
  <2>4. Free(s, Len(s))
    BY <2>3 DEF Free
  <2>5. f.fn # "Run"
    BY <1>3, <2>4 DEF Allowed, Opens, Forbids
  <2> QED
    BY <2>3, <2>4, <2>5
<1>4. Free(r, Len(r)) => b
  BY <1>3 DEF Allowed
<1>5. ASSUME NEW n \in 1 .. Len(r), r[n].fn \in {"Run", "Modal"}, Free(r, n - 1)
      PROVE  r[n].restore
  <2>1. n - 1 \in 0 .. Len(s)
    BY <1>1
  <2>2. Free(s, n - 1)
    BY <1>2, <1>5, <2>1
  <2>3. CASE n = Len(s) + 1
    <3>1. r[n] = f /\ n - 1 = Len(s)
      BY <1>1, <2>3
    <3>2. a
      BY <2>2, <3>1 DEF Allowed
    <3> QED
      BY <1>5, <3>1, <3>2
  <2>4. CASE n # Len(s) + 1
    <3>1. n \in 1 .. Len(s) /\ r[n] = s[n]
      BY <1>1, <2>4
    <3> QED
      BY <1>5, <2>2, <3>1 DEF Allowed
  <2> QED
    BY <2>3, <2>4
<1>6. Allowed(r, b)
  BY <1>4, <1>5 DEF Allowed
<1> QED
  BY <1>6 DEF r

LEMMA AllowedPopped ==
    ASSUME NEW s \in Seq(FrameSet), s # <<>>, NEW a, NEW b, Allowed(s, a),
           Last(s).fn \in {"Run", "Modal"} => (Last(s).restore => b),
           Last(s).fn = "Task" => b,
           Last(s).fn \notin {"Run", "Task", "Modal"} => (a => b)
    PROVE  Allowed(Front(s), b)
<1> DEFINE r == Front(s)
<1>1. /\ r \in Seq(FrameSet) /\ Last(s) = s[Len(s)]
      /\ Len(s) \in Nat \ {0} /\ Len(r) = Len(s) - 1
      /\ \A k \in 1 .. Len(s) - 1 : r[k] = s[k]
  BY PoppedFrame
<1> HIDE DEF r
<1>2. ASSUME NEW n \in 0 .. Len(r), Free(r, n)
      PROVE  Free(s, n)
  <2>1. PICK k \in 0 .. n : Clear(r, k, n)
    BY <1>2 DEF Free
  <2>2. /\ \A l \in 1 .. n : l \in 1 .. Len(r) /\ r[l] = s[l]
        /\ k # 0 => k \in 1 .. n
    BY <1>1
  <2>3. Clear(s, k, n)
    BY <2>1, <2>2 DEF Clear
  <2> QED
    BY <2>3 DEF Free
<1>3. ASSUME Free(r, Len(r)), Last(s).fn \notin {"Run", "Task", "Modal"}
      PROVE  a
  <2>1. PICK k \in 0 .. Len(r) : Clear(r, k, Len(r))
    BY <1>3 DEF Free
  <2>2. Clear(s, k, Len(s)) /\ k \in 0 .. Len(s)
    BY <1>1, <1>3, <2>1 DEF Clear
  <2>3. Free(s, Len(s))
    BY <2>2 DEF Free
  <2> QED
    BY <2>3 DEF Allowed
<1>4. ASSUME Free(r, Len(r)), Last(s).fn \in {"Run", "Modal"}
      PROVE  Last(s).restore
  <2>1. Free(s, Len(s) - 1)
    BY <1>1, <1>2, <1>4
  <2> QED
    BY <1>1, <1>4, <2>1 DEF Allowed
<1>5. ASSUME Free(r, Len(r))
      PROVE  b
  <2>1. CASE Last(s).fn \in {"Run", "Modal"}
    BY <1>4, <1>5, <2>1
  <2>2. CASE Last(s).fn = "Task"
    BY <2>2
  <2>3. CASE Last(s).fn \notin {"Run", "Task", "Modal"}
    BY <1>3, <1>5, <2>3
  <2> QED
    BY <2>1, <2>2, <2>3
<1>6. ASSUME NEW n \in 1 .. Len(r), r[n].fn \in {"Run", "Modal"}, Free(r, n - 1)
      PROVE  r[n].restore
  <2>1. n \in 1 .. Len(s) /\ n - 1 \in 0 .. Len(r) /\ r[n] = s[n]
    BY <1>1
  <2>2. Free(s, n - 1)
    BY <1>2, <1>6, <2>1
  <2> QED
    BY <1>6, <2>1, <2>2 DEF Allowed
<1>7. Allowed(r, b)
  BY <1>5, <1>6 DEF Allowed
<1> QED
  BY <1>7 DEF r

-----------------------------------------------------------------------------
(* The kinds of steps, by what they do to the stack: nothing, a new stage  *)
(* of the top frame, a call from it, a message handled in a native loop,   *)
(* a call from outside any loop, the end of the top frame, a replacement   *)
(* dispatched in its stead, or a flag set in a Run below.                  *)
Enters(g) == /\ g.fn \in {"Run", "Modal"} => (nestableAllowed => g.restore)
             /\ Opens(g) => nestableAllowed'
             /\ g.fn \notin {"Run", "Task", "Modal"} => (nestableAllowed => nestableAllowed')
             /\ g.fn = "Run" => Comes(g)
Keeps == UNCHANGED <<frames, nestableAllowed>>
Turns == /\ frames # <<>> /\ UNCHANGED nestableAllowed
         /\ \E f \in FrameSet : /\ frames' = Append(Front(frames), f)
                                /\ WellFormed(pump, f) /\ SameCall(f, Top)
Calls == /\ frames # <<>>
         /\ \E f, g \in FrameSet : /\ frames' = Append(Append(Front(frames), f), g)
                                   /\ WellFormed(pump, f) /\ SameCall(f, Top)
                                   /\ WellFormed(pump, g) /\ Waits(f) /\ Bears(f, g)
                                   /\ Enters(g)
CallsTwo == /\ frames # <<>> /\ UNCHANGED nestableAllowed
            /\ Waits(Top)
            /\ \E f, g \in FrameSet : /\ frames' = Append(Append(frames, f), g)
                                      /\ WellFormed(pump, f) /\ Bears(Top, f)
                                      /\ WellFormed(pump, g) /\ Waits(f) /\ Bears(f, g)
                                      /\ {f.fn, g.fn} \cap {"Run", "Task", "Modal"} = {}
Begins == /\ frames = <<>> /\ UNCHANGED nestableAllowed
          /\ \E g \in FrameSet : /\ frames' = Append(frames, g)
                                 /\ WellFormed(pump, g) /\ g.restore
                                 /\ g.fn # "Replacement"
                                 /\ g.fn = "Run" => Comes(g)
Ends == /\ frames # <<>> /\ frames' = Front(frames)
        /\ Top.fn \in {"Run", "Modal"} => (Top.restore => nestableAllowed')
        /\ Top.fn = "Task" => nestableAllowed'
        /\ Top.fn \notin {"Run", "Task", "Modal"} => (nestableAllowed => nestableAllowed')
Replaces == /\ frames # <<>> /\ Front(frames) # <<>> /\ UNCHANGED nestableAllowed
            /\ Top.fn \notin {"Run", "Task", "Modal"}
            /\ \E f, g \in FrameSet :
                 /\ frames' = Append(Append(Front(Front(frames)), f), g)
                 /\ WellFormed(pump, f) /\ SameCall(f, Last(Front(frames)))
                 /\ WellFormed(pump, g) /\ Waits(f) /\ Bears(f, g)
                 /\ g.fn \notin {"Run", "Task", "Modal"}
Flags == /\ UNCHANGED nestableAllowed
         /\ \E i \in DOMAIN frames, f \in FrameSet :
              /\ i # Len(frames)
              /\ frames' = [frames EXCEPT ![i] = f]
              /\ WellFormed(pump, f) /\ Waits(f) /\ SameCall(f, frames[i])

(* Each kind keeps the two invariants of the stack.                        *)
LEMMA TurnKeepsStack ==
    ASSUME StackInv, AllowInv, Turns, UNCHANGED pump
    PROVE  StackInv' /\ AllowInv'
<1>1. PICK f \in FrameSet : /\ frames' = Append(Front(frames), f)
                            /\ WellFormed(pump, f) /\ SameCall(f, Top)
  BY DEF Turns
<1>2. frames \in Seq(FrameSet) /\ frames # <<>>
  BY DEF StackInv, Stack, Turns
<1>3. /\ Stack(pump, Front(frames))
      /\ IF Front(frames) = <<>> THEN Top.fn # "Replacement"
         ELSE Waits(Last(Front(frames))) /\ Bears(Last(Front(frames)), Top)
  BY <1>2, StackPopped DEF StackInv, Top
<1>4. IF Front(frames) = <<>> THEN f.fn # "Replacement"
      ELSE Waits(Last(Front(frames))) /\ Bears(Last(Front(frames)), f)
  BY <1>1, <1>3 DEF Bears, SameCall
<1>5. Stack(pump, frames')
  BY <1>1, <1>3, <1>4, StackPushed
<1>6. frames' \in Seq(FrameSet)
  BY <1>5 DEF Stack
<1>7. /\ Front(frames) \in Seq(FrameSet) /\ Top = frames[Len(frames)]
      /\ Len(frames) \in Nat \ {0} /\ Len(Front(frames)) = Len(frames) - 1
      /\ \A k \in 1 .. Len(frames) - 1 : Front(frames)[k] = frames[k]
  BY <1>2, PoppedFrame DEF Top
<1>8. /\ Len(frames') = Len(frames) /\ frames'[Len(frames)] = f
      /\ \A k \in 1 .. Len(frames) - 1 : frames'[k] = frames[k]
  BY <1>1, <1>7, PushedFrame
<1>9. \A k \in 1 .. Len(frames) : SameCall(frames'[k], frames[k])
  BY <1>1, <1>7, <1>8 DEF SameCall
<1>10. Allowed(frames', nestableAllowed)
  BY <1>2, <1>6, <1>8, <1>9, AllowedSame DEF AllowInv
<1> QED
  BY <1>5, <1>10 DEF StackInv, AllowInv, Turns

LEMMA CallKeepsStack ==
    ASSUME StackInv, AllowInv, Calls, UNCHANGED pump
    PROVE  StackInv' /\ AllowInv'
<1>1. PICK f \in FrameSet, g \in FrameSet :
        /\ frames' = Append(Append(Front(frames), f), g)
        /\ WellFormed(pump, f) /\ SameCall(f, Top)
        /\ WellFormed(pump, g) /\ Waits(f) /\ Bears(f, g)
        /\ Enters(g)
  BY DEF Calls
<1> DEFINE r == Append(Front(frames), f)
<1>2. frames \in Seq(FrameSet) /\ frames # <<>>
  BY DEF StackInv, Stack, Calls
<1>3. /\ Stack(pump, Front(frames))
      /\ IF Front(frames) = <<>> THEN Top.fn # "Replacement"
         ELSE Waits(Last(Front(frames))) /\ Bears(Last(Front(frames)), Top)
  BY <1>2, StackPopped DEF StackInv, Top
<1>4. IF Front(frames) = <<>> THEN f.fn # "Replacement"
      ELSE Waits(Last(Front(frames))) /\ Bears(Last(Front(frames)), f)
  BY <1>1, <1>3 DEF Bears, SameCall
<1>5. Stack(pump, r)
  BY <1>1, <1>3, <1>4, StackPushed
<1>7. /\ Front(frames) \in Seq(FrameSet) /\ Top = frames[Len(frames)]
      /\ Len(frames) \in Nat \ {0} /\ Len(Front(frames)) = Len(frames) - 1
      /\ \A k \in 1 .. Len(frames) - 1 : Front(frames)[k] = frames[k]
  BY <1>2, PoppedFrame DEF Top
<1>8. /\ Len(r) = Len(frames) /\ r[Len(frames)] = f /\ Last(r) = f /\ r # <<>>
      /\ \A k \in 1 .. Len(frames) - 1 : r[k] = frames[k]
  BY <1>1, <1>7, PushedFrame
<1> HIDE DEF r
<1>9. \A k \in 1 .. Len(frames) : SameCall(r[k], frames[k])
  BY <1>1, <1>7, <1>8 DEF SameCall
<1>10. r \in Seq(FrameSet)
  BY <1>5 DEF Stack
<1>11. Allowed(r, nestableAllowed)
  BY <1>2, <1>8, <1>9, <1>10, AllowedSame DEF AllowInv
<1>12. frames' = Append(r, g)
  BY <1>1 DEF r
<1>13. Stack(pump, frames')
  BY <1>1, <1>5, <1>8, <1>12, StackPushed
<1>14. Allowed(frames', nestableAllowed')
  BY <1>1, <1>10, <1>11, <1>12, AllowedPushed DEF Enters
<1> QED
  BY <1>13, <1>14 DEF StackInv, AllowInv

LEMMA CallTwoKeepsStack ==
    ASSUME StackInv, AllowInv, CallsTwo, UNCHANGED pump
    PROVE  StackInv' /\ AllowInv'
<1>1. PICK f \in FrameSet, g \in FrameSet :
        /\ frames' = Append(Append(frames, f), g)
        /\ WellFormed(pump, f) /\ Bears(Top, f)
        /\ WellFormed(pump, g) /\ Waits(f) /\ Bears(f, g)
        /\ {f.fn, g.fn} \cap {"Run", "Task", "Modal"} = {}
  BY DEF CallsTwo
<1> DEFINE r == Append(frames, f)
<1>2. frames \in Seq(FrameSet) /\ frames # <<>> /\ Waits(Last(frames)) /\ Bears(Last(frames), f)
  BY <1>1 DEF StackInv, Stack, CallsTwo, Top
<1>3. Stack(pump, r)
  BY <1>1, <1>2, StackPushed DEF StackInv
<1>4. Allowed(r, nestableAllowed)
  BY <1>1, <1>2, AllowedPushed DEF AllowInv, Opens
<1>5. r \in Seq(FrameSet) /\ Last(r) = f /\ r # <<>>
  BY <1>2, PushedFrame
<1> HIDE DEF r
<1>6. frames' = Append(r, g)
  BY <1>1 DEF r
<1>7. Stack(pump, frames')
  BY <1>1, <1>3, <1>5, <1>6, StackPushed
<1>8. Allowed(frames', nestableAllowed)
  BY <1>1, <1>4, <1>5, <1>6, AllowedPushed DEF Opens
<1> QED
  BY <1>7, <1>8 DEF StackInv, AllowInv, CallsTwo

LEMMA BeginKeepsStack ==
    ASSUME StackInv, AllowInv, Begins, UNCHANGED pump
    PROVE  StackInv' /\ AllowInv'
<1>1. PICK g \in FrameSet : /\ frames' = Append(frames, g) /\ WellFormed(pump, g)
                            /\ g.restore /\ g.fn # "Replacement" /\ (g.fn = "Run" => Comes(g))
  BY DEF Begins
<1>2. frames \in Seq(FrameSet) /\ frames = <<>>
  BY DEF StackInv, Stack, Begins
<1>3. Stack(pump, frames')
  BY <1>1, <1>2, StackPushed DEF StackInv
<1>4. Clear(frames, 0, 0)
  BY <1>2 DEF Clear
<1>5. nestableAllowed
  BY <1>2, <1>4 DEF AllowInv, Allowed, Free
<1>6. Allowed(frames', nestableAllowed)
  BY <1>1, <1>2, <1>5, AllowedPushed DEF AllowInv
<1> QED
  BY <1>3, <1>6 DEF StackInv, AllowInv, Begins

LEMMA EndKeepsStack ==
    ASSUME StackInv, AllowInv, Ends, UNCHANGED pump
    PROVE  StackInv' /\ AllowInv'
<1>1. frames \in Seq(FrameSet) /\ frames # <<>> /\ frames' = Front(frames)
  BY DEF StackInv, Stack, Ends
<1>2. Stack(pump, frames')
  BY <1>1, StackPopped DEF StackInv
<1>3. Allowed(frames', nestableAllowed')
  BY <1>1, AllowedPopped DEF AllowInv, Ends, Top
<1> QED
  BY <1>2, <1>3 DEF StackInv, AllowInv

LEMMA ReplaceKeepsStack ==
    ASSUME StackInv, AllowInv, Replaces, UNCHANGED pump
    PROVE  StackInv' /\ AllowInv'
<1>1. PICK f \in FrameSet, g \in FrameSet :
        /\ frames' = Append(Append(Front(Front(frames)), f), g)
        /\ WellFormed(pump, f) /\ SameCall(f, Last(Front(frames)))
        /\ WellFormed(pump, g) /\ Waits(f) /\ Bears(f, g)
        /\ g.fn \notin {"Run", "Task", "Modal"}
  BY DEF Replaces
<1> DEFINE s == Front(frames)
           r == Append(Front(s), f)
<1>2. frames \in Seq(FrameSet) /\ frames # <<>> /\ s # <<>>
  BY DEF StackInv, Stack, Replaces
<1>3. Stack(pump, s)
  BY <1>2, StackPopped DEF StackInv
<1>4. Allowed(s, nestableAllowed)
  BY <1>2, AllowedPopped DEF AllowInv, Replaces, Top
<1> HIDE DEF s
<1>5. /\ Stack(pump, Front(s))
      /\ IF Front(s) = <<>> THEN Last(s).fn # "Replacement"
         ELSE Waits(Last(Front(s))) /\ Bears(Last(Front(s)), Last(s))
  BY <1>2, <1>3, StackPopped
<1>6. SameCall(f, Last(s))
  BY <1>1 DEF s
<1>7. IF Front(s) = <<>> THEN f.fn # "Replacement"
      ELSE Waits(Last(Front(s))) /\ Bears(Last(Front(s)), f)
  BY <1>5, <1>6 DEF Bears, SameCall
<1>8. Stack(pump, r)
  BY <1>1, <1>5, <1>7, StackPushed
<1>9. s \in Seq(FrameSet)
  BY <1>3 DEF Stack
<1>10. /\ Front(s) \in Seq(FrameSet) /\ Last(s) = s[Len(s)]
       /\ Len(s) \in Nat \ {0} /\ Len(Front(s)) = Len(s) - 1
       /\ \A k \in 1 .. Len(s) - 1 : Front(s)[k] = s[k]
  BY <1>2, <1>9, PoppedFrame
<1>11. /\ Len(r) = Len(s) /\ r[Len(s)] = f /\ Last(r) = f /\ r # <<>>
       /\ \A k \in 1 .. Len(s) - 1 : r[k] = s[k]
  BY <1>10, PushedFrame
<1>12. frames' = Append(r, g)
  BY <1>1 DEF s
<1> HIDE DEF r
<1>13. \A k \in 1 .. Len(s) : SameCall(r[k], s[k])
  BY <1>6, <1>10, <1>11 DEF SameCall
<1>14. r \in Seq(FrameSet)
  BY <1>8 DEF Stack
<1>15. Allowed(r, nestableAllowed)
  BY <1>4, <1>9, <1>11, <1>13, <1>14, AllowedSame
<1>16. Stack(pump, frames')
  BY <1>1, <1>8, <1>11, <1>12, StackPushed
<1>17. Allowed(frames', nestableAllowed)
  BY <1>1, <1>12, <1>14, <1>15, AllowedPushed DEF Opens
<1> QED
  BY <1>16, <1>17 DEF StackInv, AllowInv, Replaces

LEMMA FlagKeepsStack ==
    ASSUME StackInv, AllowInv, Flags, UNCHANGED pump
    PROVE  StackInv' /\ AllowInv'
<1>1. PICK i \in DOMAIN frames, f \in FrameSet :
        /\ i # Len(frames)
        /\ frames' = [frames EXCEPT ![i] = f]
        /\ WellFormed(pump, f) /\ Waits(f) /\ SameCall(f, frames[i])
  BY DEF Flags
<1>2. frames \in Seq(FrameSet)
  BY DEF StackInv, Stack
<1>3. /\ Len(frames) \in Nat /\ DOMAIN frames = 1 .. Len(frames)
      /\ frames' \in Seq(FrameSet) /\ Len(frames') = Len(frames) /\ frames'[i] = f
      /\ \A k \in 1 .. Len(frames) : k # i => frames'[k] = frames[k]
  BY <1>1, <1>2
<1>4. Stack(pump, frames')
  <2>1. ASSUME NEW k \in 1 .. Len(frames')
        PROVE  WellFormed(pump, frames'[k])
    BY <1>1, <1>3 DEF StackInv, Stack
  <2>2. ASSUME NEW k \in 1 .. Len(frames'), k # Len(frames')
        PROVE  Waits(frames'[k]) /\ Bears(frames'[k], frames'[k + 1])
    <3>0. Len(frames) \in Nat /\ k \in 1 .. Len(frames) /\ k # Len(frames)
      BY <1>3, <2>2
    <3>1. k + 1 \in 1 .. Len(frames)
      BY <3>0
    <3>2. Waits(frames[k]) /\ Bears(frames[k], frames[k + 1])
      BY <3>0 DEF StackInv, Stack
    <3>3. Waits(frames'[k])
      BY <1>1, <1>3, <3>0, <3>2
    <3>4. frames'[k].fn = frames[k].fn /\ frames'[k + 1].fn = frames[k + 1].fn
      BY <1>1, <1>3, <3>0, <3>1 DEF SameCall
    <3> QED
      BY <3>2, <3>3, <3>4 DEF Bears
  <2>3. frames' # <<>> => frames'[1].fn # "Replacement"
    BY <1>1, <1>3 DEF StackInv, Stack, SameCall
  <2> QED
    BY <1>3, <2>1, <2>2, <2>3 DEF Stack
<1>5. \A k \in 1 .. Len(frames) : SameCall(frames'[k], frames[k])
  BY <1>1, <1>3 DEF SameCall
<1>6. Allowed(frames', nestableAllowed)
  BY <1>2, <1>3, <1>5, AllowedSame DEF AllowInv
<1> QED
  BY <1>4, <1>6 DEF StackInv, AllowInv, Flags

(* Any step that is of one of these kinds keeps the stack.                 *)
StackMoves == Keeps \/ Turns \/ Calls \/ CallsTwo \/ Begins \/ Ends \/ Replaces \/ Flags
LEMMA MovesKeepStack ==
    ASSUME StackInv, AllowInv, StackMoves, UNCHANGED pump
    PROVE  StackInv' /\ AllowInv'
<1>1. CASE Keeps
  BY <1>1 DEF Keeps, StackInv, AllowInv
<1> QED
  BY <1>1, TurnKeepsStack, CallKeepsStack, CallTwoKeepsStack, BeginKeepsStack, EndKeepsStack,
     ReplaceKeepsStack, FlagKeepsStack DEF StackMoves

-----------------------------------------------------------------------------
(* The top of the delayed queue is one of its tasks, and none is due       *)
(* earlier.                                                                *)
LEMMA LeastOf ==
    ASSUME NEW T \in SUBSET Nat, T # {}
    PROVE  \E n \in T : \A m \in T : n <= m
<1>1. PICK n \in T : \A m \in T : ~(<<m, n>> \in OpToRel(<, Nat))
  BY NatLessThanWellFounded, WFMin
<1>2. \A m \in T : m \in Nat /\ n \in Nat
  OBVIOUS
<1>3. \A m \in T : ~(m < n)
  BY <1>1, <1>2 DEF OpToRel
<1> QED
  BY <1>2, <1>3

LEMMA EarliestIsFirst ==
    ASSUME NEW s \in Seq(Tasks), s # <<>>, runTime \in [Tasks -> Nat]
    PROVE  /\ EarliestIndex(s) \in DOMAIN s
           /\ Earliest(s) \in ToSet(s) /\ Earliest(s) \in Tasks
           /\ \A u \in ToSet(s) : runTime[Earliest(s)] <= runTime[u]
<1> DEFINE time(i) == runTime[s[i]]
           T == {time(i) : i \in DOMAIN s}
           first(n) == {i \in DOMAIN s : time(i) = n}
           Leads(i) == \A j \in DOMAIN s : time(i) < time(j) \/ (time(i) = time(j) /\ i <= j)
<1>1. /\ Len(s) \in Nat \ {0} /\ DOMAIN s = 1 .. Len(s)
      /\ \A i \in DOMAIN s : s[i] \in Tasks /\ time(i) \in Nat
  OBVIOUS
<1>2. PICK n \in T : \A m \in T : n <= m
  <2>1. T \in SUBSET Nat /\ T # {}
    BY <1>1
  <2> HIDE DEF T
  <2> QED
    BY <2>1, LeastOf
<1>3. PICK i \in first(n) : \A j \in first(n) : i <= j
  <2>1. first(n) \in SUBSET Nat /\ first(n) # {}
    BY <1>1, <1>2
  <2> HIDE DEF first
  <2> QED
    BY <2>1, LeastOf
<1>4. i \in DOMAIN s /\ Leads(i)
  <2>1. i \in DOMAIN s /\ time(i) = n
    BY <1>3
  <2>2. ASSUME NEW j \in DOMAIN s
        PROVE  time(i) < time(j) \/ (time(i) = time(j) /\ i <= j)
    <3>1. n <= time(j)
      BY <1>2
    <3>2. time(j) = n => i <= j
      BY <1>3
    <3> QED
      BY <1>1, <2>1, <3>1, <3>2
  <2> QED
    BY <2>1, <2>2
<1>5. EarliestIndex(s) = CHOOSE k \in DOMAIN s : Leads(k)
  BY DEF EarliestIndex
<1>6. EarliestIndex(s) \in DOMAIN s /\ Leads(EarliestIndex(s))
  <2> HIDE DEF Leads
  <2> QED
    BY <1>4, <1>5
<1>7. Earliest(s) = s[EarliestIndex(s)]
  BY DEF Earliest
<1>8. ASSUME NEW u \in ToSet(s)
      PROVE  runTime[Earliest(s)] <= runTime[u]
  <2>1. PICK j \in DOMAIN s : u = s[j]
    BY DEF ToSet
  <2> QED
    BY <1>1, <1>6, <1>7, <2>1
<1>9. Earliest(s) \in ToSet(s) /\ Earliest(s) \in Tasks
  BY <1>1, <1>6, <1>7 DEF ToSet
<1> QED
  BY <1>6, <1>8, <1>9

(* A new frame.                                                            *)
LEMMA NewFrame ==
    ASSUME NEW fn \in Fns, NEW pc \in Pcs
    PROVE  /\ Frame(fn, pc) \in FrameSet
           /\ Frame(fn, pc).fn = fn /\ Frame(fn, pc).pc = pc
           /\ ~Frame(fn, pc).done /\ ~Frame(fn, pc).more /\ ~Frame(fn, pc).quit
           /\ Frame(fn, pc).task = NoTask /\ Frame(fn, pc).restore
           /\ Frame(fn, pc).filter = NoHandler
BY DEF Frame, FrameSet

(* The top frame.                                                          *)
LEMMA TopFrame ==
    ASSUME StackInv, frames # <<>>
    PROVE  /\ frames \in Seq(FrameSet) /\ Top \in FrameSet /\ WellFormed(pump, Top)
           /\ Front(frames) \in Seq(FrameSet) /\ Len(frames) \in Nat \ {0}
           /\ Top = frames[Len(frames)]
           /\ frames = Append(Front(frames), Top)
           /\ Front(frames) # <<>> => /\ Last(Front(frames)) \in FrameSet
                                      /\ WellFormed(pump, Last(Front(frames)))
                                      /\ Waits(Last(Front(frames)))
                                      /\ Bears(Last(Front(frames)), Top)
           /\ Top.fn = "Replacement" => Front(frames) # <<>>
<1>1. frames \in Seq(FrameSet)
  BY DEF StackInv, Stack
<1>2. /\ Stack(pump, Front(frames)) /\ WellFormed(pump, Top) /\ Top \in FrameSet
      /\ IF Front(frames) = <<>> THEN Top.fn # "Replacement"
         ELSE Waits(Last(Front(frames))) /\ Bears(Last(Front(frames)), Top)
  BY StackPopped DEF StackInv, Top
<1>3. /\ Front(frames) \in Seq(FrameSet) /\ Top = frames[Len(frames)]
      /\ Len(frames) \in Nat \ {0} /\ Len(Front(frames)) = Len(frames) - 1
      /\ \A k \in 1 .. Len(frames) - 1 : Front(frames)[k] = frames[k]
  BY <1>1, PoppedFrame DEF Top
<1>4. frames = Append(Front(frames), Top)
  <2> DEFINE r == Append(Front(frames), Top)
  <2>1. /\ r \in Seq(FrameSet) /\ Len(r) = Len(frames) /\ r[Len(frames)] = Top
        /\ \A k \in 1 .. Len(frames) - 1 : r[k] = frames[k]
    BY <1>2, <1>3, PushedFrame
  <2> HIDE DEF r
  <2>2. \A k \in 1 .. Len(frames) : r[k] = frames[k]
    BY <1>3, <2>1
  <2>3. r = frames
    BY <1>1, <1>3, <2>1, <2>2
  <2> QED
    BY <2>3 DEF r
<1>5. Front(frames) # <<>> => /\ Last(Front(frames)) \in FrameSet
                              /\ WellFormed(pump, Last(Front(frames)))
  <2>1. ASSUME Front(frames) # <<>>
        PROVE  Last(Front(frames)) \in FrameSet /\ WellFormed(pump, Last(Front(frames)))
    BY <1>2, <2>1, StackPopped
  <2> QED
    BY <2>1
<1> QED
  BY <1>1, <1>2, <1>3, <1>4, <1>5

(* A stage of the top frame that returns, and one that calls.              *)
StagePcs == {"Peek", "DoWork", "DoDelayedWork", "DoIdleWork", "PollIO", "WaitIO"}
MustReset(s) == s # <<>> /\ Last(s).pc \in ResetPcs /\ ~Last(s).done

LEMMA StageReturns ==
    ASSUME StackInv, frames # <<>>, Top.pc \in StagePcs, NEW b, b \in BOOLEAN
    PROVE  /\ After(b) \in FrameSet /\ WellFormed(pump, After(b)) /\ SameCall(After(b), Top)
           /\ After(b).pc = Top.pc /\ After(b).done /\ After(b).more = (Top.more \/ b)
           /\ Waits(After(b)) \/ (Top.fn = "Run" /\ ~Comes(After(b)))
<1>1. Top \in FrameSet /\ WellFormed(pump, Top)
  BY TopFrame
<1>2. /\ After(b) \in FrameSet /\ SameCall(After(b), Top)
      /\ After(b).pc = Top.pc /\ After(b).done /\ After(b).more = (Top.more \/ b)
      /\ After(b).quit = Top.quit /\ After(b).filter = Top.filter /\ After(b).task = Top.task
  BY <1>1 DEF After, FrameSet, SameCall
<1> HIDE DEF After
<1>3. WellFormed(pump, After(b))
  <2>1. Top.fn \in {"Run", "Work", "Timer", "WaitFor"} /\ Top.pc # "Wait" /\ Top.task = NoTask
    BY <1>1 DEF WellFormed, StagePcs, ResetPcs, DispatchPcs, FrameSet, Fns
  <2>2. CASE Top.fn = "Run"
    BY <1>1, <1>2, <2>1, <2>2 DEF WellFormed, SameCall
  <2>3. CASE Top.fn = "Work"
    <3>1. Top.pc = "DoWork" /\ pump \in {"UI", "Embed"}
      BY <1>1, <2>3 DEF WellFormed, StagePcs
    <3> QED
      BY <1>2, <2>1, <2>3, <3>1 DEF WellFormed, SameCall
  <2>4. CASE Top.fn = "Timer"
    <3>1. Top.pc = "DoDelayedWork" /\ pump \in {"UI", "Embed"}
      BY <1>1, <2>4 DEF WellFormed
    <3> QED
      BY <1>2, <2>1, <2>4, <3>1 DEF WellFormed, SameCall
  <2>5. CASE Top.fn = "WaitFor"
    <3>1. Top.pc = "WaitIO" /\ pump = "IO"
      BY <1>1, <2>5 DEF WellFormed
    <3> QED
      BY <1>2, <2>1, <2>5, <3>1 DEF WellFormed, SameCall
  <2> QED
    BY <2>1, <2>2, <2>3, <2>4, <2>5
<1>4. Waits(After(b)) \/ (Top.fn = "Run" /\ ~Comes(After(b)))
  BY <1>1, <1>2 DEF WellFormed, SameCall, Waits, StagePcs, ResetPcs, DispatchPcs
<1> QED
  BY <1>2, <1>3, <1>4

LEMMA ReturnTurns ==
    ASSUME StackInv, frames # <<>>, Top.pc \in StagePcs, NEW b, b \in BOOLEAN,
           Return(b), UNCHANGED nestableAllowed
    PROVE  Turns /\ ~MustReset(frames) /\ ~MustReset(frames') /\ frames' # <<>> /\ Last(frames') = After(b)
<1>1. Turns
  BY StageReturns DEF Turns, Return, SetTop
<1>2. Front(frames) \in Seq(FrameSet) /\ After(b) \in FrameSet /\ After(b).done
  BY TopFrame, StageReturns
<1>3. frames' # <<>> /\ Last(frames') = After(b)
  BY <1>2, PushedFrame DEF Return, SetTop
<1> QED
  BY <1>1, <1>2, <1>3 DEF MustReset, Top, StagePcs, ResetPcs

LEMMA CallCalls ==
    ASSUME StackInv, frames # <<>>, Top.pc \in StagePcs,
           NEW g \in FrameSet, WellFormed(pump, g), g.fn # "Replacement", Enters(g), Call(TRUE, g)
    PROVE  Calls /\ ~MustReset(frames) /\ frames' # <<>> /\ Last(frames') = g
<1>1. /\ After(TRUE) \in FrameSet /\ WellFormed(pump, After(TRUE)) /\ SameCall(After(TRUE), Top)
      /\ After(TRUE).more
      /\ Waits(After(TRUE)) \/ (Top.fn = "Run" /\ ~Comes(After(TRUE)))
  BY StageReturns, Zenon
<1>2. Waits(After(TRUE)) /\ Bears(After(TRUE), g)
  BY <1>1 DEF Comes, Bears
<1>3. Front(frames) \in Seq(FrameSet)
  BY TopFrame
<1> DEFINE r == Append(Front(frames), After(TRUE))
<1>4. Front(frames) \o <<After(TRUE)>> = r
  BY <1>1, <1>3, AppendIsConcat
<1>5. frames' = Append(r, g)
  BY <1>4 DEF Call
<1>6. r \in Seq(FrameSet)
  BY <1>1, <1>3, PushedFrame
<1>7. frames' # <<>> /\ Last(frames') = g
  BY <1>5, <1>6, PushedFrame
<1>8. Calls
  BY <1>1, <1>2, <1>5 DEF Calls
<1> QED
  BY <1>7, <1>8 DEF MustReset, Top, StagePcs, ResetPcs

-----------------------------------------------------------------------------
(* Every step is of one of these kinds.  First those of the loop.          *)
TasksOK == /\ incoming \in Seq(Tasks) /\ work \in Seq(Tasks) /\ delayed \in Seq(Tasks)
           /\ runTime \in [Tasks -> Nat]

LEMMA TaskFrame ==
    ASSUME NEW t \in Tasks
    PROVE  /\ [Frame("Task", "Program") EXCEPT !.task = t] \in FrameSet
           /\ WellFormed(pump, [Frame("Task", "Program") EXCEPT !.task = t])
           /\ [Frame("Task", "Program") EXCEPT !.task = t].fn = "Task"
           /\ [Frame("Task", "Program") EXCEPT !.task = t].pc = "Program"
<1> DEFINE g == [Frame("Task", "Program") EXCEPT !.task = t]
<1>1. /\ g \in FrameSet /\ g.fn = "Task" /\ g.pc = "Program" /\ ~g.done /\ g.task = t
  BY DEF Frame, FrameSet, Fns, Pcs
<1>2. t # NoTask
  BY WinMessageLoopAssumption
<1> HIDE DEF g
<1>3. WellFormed(pump, g)
  BY <1>1, <1>2 DEF WellFormed
<1> QED
  BY <1>1, <1>3 DEF g

LEMMA TaskStarts ==
    ASSUME StackInv, frames # <<>>, Top.pc \in StagePcs, NEW t \in Tasks, RunTask(t)
    PROVE  /\ Calls /\ ~MustReset(frames) /\ ~MustReset(frames')
           /\ frames' # <<>> /\ Last(frames').fn = "Task"
<1> DEFINE g == [Frame("Task", "Program") EXCEPT !.task = t]
<1>1. g \in FrameSet /\ WellFormed(pump, g) /\ g.fn = "Task" /\ g.pc = "Program"
  BY TaskFrame
<1>2. Call(TRUE, g)
  BY DEF RunTask
<1> HIDE DEF g
<1>3. Enters(g)
  BY <1>1 DEF Enters, Opens
<1>4. Calls /\ ~MustReset(frames) /\ frames' # <<>> /\ Last(frames') = g
  BY <1>1, <1>2, <1>3, CallCalls
<1> QED
  BY <1>1, <1>4 DEF MustReset, ResetPcs

LEMMA ReloadedTasks ==
    ASSUME TasksOK
    PROVE  Reloaded.work \in Seq(Tasks) /\ Reloaded.incoming \in Seq(Tasks)
BY DEF TasksOK, Reloaded

LEMMA LoopMoves ==
    ASSUME StackInv, TasksOK, LoopStep
    PROVE  StackMoves /\ ~MustReset(frames) /\ ~MustReset(frames')
<1>1. CASE DoWorkFindsNothing
  <2>1. frames # <<>> /\ Top.pc \in StagePcs /\ Return(FALSE) /\ UNCHANGED nestableAllowed
    BY <1>1 DEF DoWorkFindsNothing, At, StagePcs
  <2> QED
    BY <2>1, ReturnTurns, Zenon DEF StackMoves
<1>2. CASE DoWorkTakesTask
  <2>1. frames # <<>> /\ Top.pc \in StagePcs
    BY <1>2 DEF DoWorkTakesTask, At, StagePcs
  <2>2. Head(Reloaded.work) \in Tasks
    BY <1>2, ReloadedTasks DEF DoWorkTakesTask
  <2>3. CASE RunTask(Head(Reloaded.work))
    BY <2>1, <2>2, <2>3, TaskStarts DEF StackMoves
  <2>4. CASE UNCHANGED <<nestableAllowed, status, frames>>
    BY <2>1, <2>4 DEF StackMoves, Keeps, MustReset, Top, StagePcs, ResetPcs
  <2> QED
    BY <1>2, <2>3, <2>4 DEF DoWorkTakesTask
<1>3. CASE DoIdleWork
  <2>1. frames # <<>> /\ Top.pc = "DoIdleWork" /\ Top.pc \in StagePcs
    BY <1>3 DEF DoIdleWork, At, StagePcs
  <2> DEFINE f == [After(FALSE) EXCEPT !.quit = @ \/ Top.quitReceived]
  <2>2. Top \in FrameSet /\ WellFormed(pump, Top) /\ Front(frames) \in Seq(FrameSet)
    BY <2>1, TopFrame
  <2>3. /\ f \in FrameSet /\ SameCall(f, Top) /\ f.pc = "DoIdleWork" /\ f.done
        /\ f.filter = Top.filter /\ f.task = Top.task /\ f.more = Top.more
    BY <2>1, <2>2 DEF After, FrameSet, SameCall
  <2>4. frames' = Append(Front(frames), f) /\ UNCHANGED nestableAllowed
    BY <1>3 DEF DoIdleWork, SetTop
  <2> HIDE DEF f
  <2>5. Top.fn = "Run" /\ Top.task = NoTask
    BY <2>1, <2>2 DEF WellFormed, FrameSet, Fns, ResetPcs, DispatchPcs
  <2>6. WellFormed(pump, f)
    BY <2>1, <2>2, <2>3, <2>5 DEF WellFormed, SameCall
  <2>7. Turns
    BY <2>1, <2>3, <2>4, <2>6 DEF Turns
  <2>8. Last(frames') = f
    BY <2>2, <2>3, <2>4, PushedFrame
  <2> QED
    BY <2>1, <2>3, <2>7, <2>8 DEF StackMoves, MustReset, Top, StagePcs, ResetPcs
<1>4. CASE DoDelayedWorkFindsNothing
  <2>1. frames # <<>> /\ Top.pc \in StagePcs /\ Return(FALSE) /\ UNCHANGED nestableAllowed
    BY <1>4 DEF DoDelayedWorkFindsNothing, At, StagePcs
  <2> QED
    BY <2>1, ReturnTurns, Zenon DEF StackMoves
<1>5. CASE DoDelayedWorkTakesTask
  <2>1. frames # <<>> /\ Top.pc \in StagePcs /\ RunTask(Earliest(delayed))
    BY <1>5 DEF DoDelayedWorkTakesTask, At, StagePcs
  <2>2. Earliest(delayed) \in Tasks
    BY <1>5, EarliestIsFirst DEF DoDelayedWorkTakesTask, TasksOK
  <2> QED
    BY <2>1, <2>2, TaskStarts DEF StackMoves
<1> QED
  BY <1>1, <1>2, <1>3, <1>4, <1>5 DEF LoopStep

(* Then those of the pumps with a window.                                  *)
LEMMA PumpFrames ==
    /\ Frame("Handler", "Program") \in FrameSet /\ WellFormed(pump, Frame("Handler", "Program"))
    /\ Frame("Timer", "DoDelayedWork") \in FrameSet
    /\ Frame("Modal", "Modal") \in FrameSet
    /\ Frame("Work", "DoWork") \in FrameSet /\ Frame("Work", "Reset") \in FrameSet
    /\ Frame("Replacement", "PeekReplacement") \in FrameSet
    /\ Frame("Internal", "Internal") \in FrameSet
    /\ pump \in {"UI", "Embed"} => /\ WellFormed(pump, Frame("Timer", "DoDelayedWork"))
                                   /\ WellFormed(pump, Frame("Modal", "Modal"))
                                   /\ WellFormed(pump, Frame("Work", "DoWork"))
                                   /\ WellFormed(pump, Frame("Work", "Reset"))
    /\ pump = "UI" => WellFormed(pump, Frame("Replacement", "PeekReplacement"))
    /\ pump = "IO" => WellFormed(pump, Frame("Internal", "Internal"))
<1>1. /\ Frame("Handler", "Program") \in FrameSet /\ Frame("Timer", "DoDelayedWork") \in FrameSet
      /\ Frame("Modal", "Modal") \in FrameSet
      /\ Frame("Work", "DoWork") \in FrameSet /\ Frame("Work", "Reset") \in FrameSet
      /\ Frame("Replacement", "PeekReplacement") \in FrameSet
      /\ Frame("Internal", "Internal") \in FrameSet
  BY NewFrame DEF Fns, Pcs, UIStages, ResetPcs
<1>2. WellFormed(pump, Frame("Handler", "Program"))
  BY DEF WellFormed, Frame
<1>3. ASSUME pump \in {"UI", "Embed"}
      PROVE  /\ WellFormed(pump, Frame("Timer", "DoDelayedWork"))
             /\ WellFormed(pump, Frame("Modal", "Modal"))
             /\ WellFormed(pump, Frame("Work", "DoWork"))
             /\ WellFormed(pump, Frame("Work", "Reset"))
  BY <1>3 DEF WellFormed, Frame
<1>4. ASSUME pump = "UI"
      PROVE  WellFormed(pump, Frame("Replacement", "PeekReplacement"))
  BY <1>4 DEF WellFormed, Frame, ResetPcs
<1>5. ASSUME pump = "IO"
      PROVE  WellFormed(pump, Frame("Internal", "Internal"))
  BY <1>5 DEF WellFormed, Frame
<1> QED
  BY <1>1, <1>2, <1>3, <1>4, <1>5

LEMMA CallsOn ==
    ASSUME StackInv, frames # <<>>, NEW f \in FrameSet, WellFormed(pump, f), SameCall(f, Top),
           NEW g \in FrameSet, WellFormed(pump, g), Waits(f), Bears(f, g), Enters(g),
           frames' = Append(Front(frames), f) \o <<g>>
    PROVE  Calls /\ frames' # <<>> /\ Last(frames') = g
<1> DEFINE r == Append(Front(frames), f)
<1>1. r \in Seq(FrameSet)
  BY TopFrame, PushedFrame
<1>2. frames' = Append(r, g)
  BY <1>1, AppendIsConcat
<1>3. Calls
  BY <1>2 DEF Calls
<1> HIDE DEF r
<1>4. Append(r, g) # <<>> /\ Last(Append(r, g)) = g
  BY <1>1, PushedFrame, Zenon
<1> QED
  BY <1>2, <1>3, <1>4, Zenon

LEMMA EndsAtRest ==
    ASSUME StackInv, frames # <<>>, frames' = Front(frames)
    PROVE  ~MustReset(frames')
<1>1. ASSUME Front(frames) # <<>>
      PROVE  Last(Front(frames)).pc \notin ResetPcs
  <2>1. /\ Last(Front(frames)) \in FrameSet /\ WellFormed(pump, Last(Front(frames)))
        /\ Waits(Last(Front(frames)))
    BY <1>1, TopFrame
  <2> QED
    BY <2>1 DEF WellFormed, Waits, FrameSet, Fns, ResetPcs, UIStages, IOStages
<1> QED
  BY <1>1 DEF MustReset

MessagesOK == pump # "IO" => queue \in Seq({HaveWork, Input})
LEMMA PeekedOne ==
    ASSUME MessagesOK, pump # "IO"
    PROVE  Peeked \in {HaveWork, Input, WmTimer, None}
BY DEF MessagesOK, Peeked

(* What the dispatch of a message calls, from a frame that waits.          *)
LEMMA HandlerCalled ==
    ASSUME StackInv, frames # <<>>, NEW f \in FrameSet, WellFormed(pump, f), SameCall(f, Top),
           Waits(f), pump \in {"UI", "Embed"}, NEW message, NEW active, UNCHANGED nestableAllowed,
           frames' = Append(Front(frames), f) \o HandlerOf(message, active)
    PROVE  StackMoves /\ ~MustReset(frames')
<1> DEFINE h == Frame("Handler", "Program")
           g == Frame("Timer", "DoDelayedWork")
<1>1. /\ h \in FrameSet /\ WellFormed(pump, h) /\ g \in FrameSet /\ WellFormed(pump, g)
      /\ h.fn = "Handler" /\ h.pc = "Program" /\ g.fn = "Timer" /\ g.pc = "DoDelayedWork"
  <2>1. h \in FrameSet /\ WellFormed(pump, h) /\ g \in FrameSet /\ WellFormed(pump, g)
    BY PumpFrames
  <2>2. h.fn = "Handler" /\ h.pc = "Program" /\ g.fn = "Timer" /\ g.pc = "DoDelayedWork"
    BY DEF Frame
  <2> QED
    BY <2>1, <2>2
<1>2. HandlerOf(message, active) \in {<<h>>, <<g>>, <<>>}
  BY DEF HandlerOf
<1> HIDE DEF h, g
<1>3. Bears(f, h) /\ Bears(f, g) /\ Enters(h) /\ Enters(g)
  BY <1>1 DEF Bears, Enters, Opens
<1>4. CASE HandlerOf(message, active) = <<h>>
  <2>1. Calls /\ frames' # <<>> /\ Last(frames') = h
    BY <1>1, <1>3, <1>4, CallsOn
  <2> QED
    BY <1>1, <2>1 DEF StackMoves, MustReset, ResetPcs
<1>5. CASE HandlerOf(message, active) = <<g>>
  <2>1. Calls /\ frames' # <<>> /\ Last(frames') = g
    BY <1>1, <1>3, <1>5, CallsOn
  <2> QED
    BY <1>1, <2>1 DEF StackMoves, MustReset, ResetPcs
<1>6. CASE HandlerOf(message, active) = <<>>
  <2>1. Append(Front(frames), f) \in Seq(FrameSet) /\ Last(Append(Front(frames), f)) = f
    BY TopFrame, PushedFrame
  <2>2. frames' = Append(Front(frames), f)
    BY <1>6, <2>1, ConcatEmptySeq
  <2>3. Turns
    BY <2>2 DEF Turns
  <2>4. f.pc \notin ResetPcs
    BY DEF WellFormed, Waits, FrameSet, Fns, ResetPcs, UIStages, IOStages
  <2> QED
    BY <2>1, <2>2, <2>3, <2>4 DEF StackMoves, MustReset
<1> QED
  BY <1>2, <1>4, <1>5, <1>6

LEMMA PeekNextMoves ==
    ASSUME StackInv, MessagesOK, PeekNext
    PROVE  /\ StackMoves /\ ~MustReset(frames) /\ (MustReset(frames') <=> Peeked = HaveWork)
           /\ pump = "UI"
<1> DEFINE b == Peeked \notin {None, HaveWork}
           f == After(b)
<1>1. frames # <<>> /\ Top.pc = "Peek" /\ Top.pc \in StagePcs /\ Top.fn = "Run"
  BY DEF PeekNext, At, StagePcs
<1>2. Top \in FrameSet /\ WellFormed(pump, Top)
  BY <1>1, TopFrame
<1>3. pump = "UI"
  BY <1>1, <1>2 DEF WellFormed, IOStages
<1>4. b \in BOOLEAN
  OBVIOUS
<1> HIDE DEF b
<1>5. f \in FrameSet /\ WellFormed(pump, f) /\ SameCall(f, Top) /\ f.pc = "Peek" /\ f.done
  BY <1>1, <1>4, StageReturns
<1>6. /\ frames' = Append(Front(frames), f)
                     \o (IF Peeked = HaveWork THEN <<Frame("Replacement", "PeekReplacement")>>
                                              ELSE HandlerOf(Peeked, TRUE))
      /\ UNCHANGED nestableAllowed
  BY DEF PeekNext, b
<1> HIDE DEF f
<1>7. Waits(f) /\ f.fn = "Run"
  BY <1>1, <1>5 DEF Waits, Comes, SameCall
<1>8. ~MustReset(frames)
  BY <1>1 DEF MustReset, Top, ResetPcs
<1>9. CASE Peeked = HaveWork
  <2> DEFINE g == Frame("Replacement", "PeekReplacement")
  <2>1. /\ g \in FrameSet /\ WellFormed(pump, g) /\ g.fn = "Replacement"
        /\ g.pc = "PeekReplacement" /\ ~g.done
    <3>1. g \in FrameSet /\ WellFormed(pump, g)
      BY <1>3, PumpFrames
    <3>2. g.fn = "Replacement" /\ g.pc = "PeekReplacement" /\ ~g.done
      BY DEF Frame
    <3> QED
      BY <3>1, <3>2
  <2>2. frames' = Append(Front(frames), f) \o <<g>>
    BY <1>6, <1>9
  <2> HIDE DEF g
  <2>3. Bears(f, g) /\ Enters(g)
    BY <1>6, <1>7, <2>1 DEF Bears, Enters, Opens
  <2>4. Calls /\ frames' # <<>> /\ Last(frames') = g
    BY <1>1, <1>5, <1>7, <2>1, <2>2, <2>3, CallsOn
  <2> QED
    BY <1>3, <1>8, <1>9, <2>1, <2>4 DEF StackMoves, MustReset, ResetPcs
<1>10. CASE Peeked # HaveWork
  <2>1. frames' = Append(Front(frames), f) \o HandlerOf(Peeked, TRUE)
    BY <1>6, <1>10
  <2>2. StackMoves /\ ~MustReset(frames')
    BY <1>1, <1>3, <1>5, <1>6, <1>7, <2>1, HandlerCalled
  <2> QED
    BY <1>3, <1>8, <1>10, <2>2
<1> QED
  BY <1>9, <1>10

LEMMA TurnsTo ==
    ASSUME StackInv, frames # <<>>, NEW f \in FrameSet, WellFormed(pump, f), SameCall(f, Top),
           SetTop(f), UNCHANGED nestableAllowed
    PROVE  Turns /\ frames' # <<>> /\ Last(frames') = f
<1>1. Front(frames) \in Seq(FrameSet)
  BY TopFrame
<1>2. Append(Front(frames), f) # <<>> /\ Last(Append(Front(frames), f)) = f
  BY <1>1, PushedFrame, Zenon
<1>3. frames' = Append(Front(frames), f)
  BY DEF SetTop
<1>4. Turns
  BY <1>3 DEF Turns
<1> QED
  BY <1>2, <1>3, <1>4, Zenon

LEMMA PeekReplacementMoves ==
    ASSUME StackInv, MessagesOK, PeekReplacement, Peeked # HaveWork
    PROVE  StackMoves /\ MustReset(frames) /\ MustReset(frames') /\ pump = "UI"
<1>1. frames # <<>> /\ Top.pc = "PeekReplacement" /\ ~Top.done
  BY DEF PeekReplacement, At
<1>2. Top \in FrameSet /\ WellFormed(pump, Top)
  BY <1>1, TopFrame
<1>3. Top.fn = "Replacement" /\ pump = "UI"
  BY <1>1, <1>2 DEF WellFormed, FrameSet, Fns, UIStages, IOStages
<1> DEFINE x == CASE Peeked = None -> "ResetOnly"
                  [] Peeked = Input -> "ResetInput"
                  [] Peeked = WmTimer -> "ResetTimer"
                  [] Peeked = HaveWork -> "Spurious"
           f == [Top EXCEPT !.pc = x]
<1>4. x \in {"ResetOnly", "ResetInput", "ResetTimer"}
  <2>1. Peeked \in {None, Input, WmTimer}
    BY <1>3, PeekedOne
  <2> QED
    BY <2>1 DEF None, Input, WmTimer, HaveWork
<1>5. SetTop(f) /\ UNCHANGED nestableAllowed
  BY DEF PeekReplacement
<1> HIDE DEF x
<1>6. /\ f \in FrameSet /\ SameCall(f, Top) /\ f.pc = x /\ f.fn = "Replacement" /\ ~f.done
      /\ f.task = Top.task
  BY <1>1, <1>2, <1>3, <1>4 DEF FrameSet, Pcs, ResetPcs, SameCall
<1> HIDE DEF f
<1>7. WellFormed(pump, f)
  BY <1>2, <1>3, <1>4, <1>6 DEF WellFormed, ResetPcs
<1>8. Turns /\ frames' # <<>> /\ Last(frames') = f
  BY <1>1, <1>5, <1>6, <1>7, TurnsTo
<1> QED
  BY <1>1, <1>3, <1>4, <1>6, <1>8 DEF StackMoves, MustReset, Top, ResetPcs

LEMMA ExchangeMoves ==
    ASSUME StackInv, ExchangeHaveWork
    PROVE  StackMoves /\ MustReset(frames) /\ ~MustReset(frames') /\ pump = "UI"
<1>1. frames # <<>> /\ Top.pc \in {"ResetOnly", "ResetInput", "ResetTimer"}
  BY DEF ExchangeHaveWork
<1>2. Top \in FrameSet /\ WellFormed(pump, Top)
  BY <1>1, TopFrame
<1>3. Top.fn = "Replacement" /\ pump = "UI" /\ ~Top.done
  BY <1>1, <1>2 DEF WellFormed, FrameSet, Fns, UIStages, IOStages
<1>4. MustReset(frames)
  BY <1>1, <1>3 DEF MustReset, Top, ResetPcs
<1>5. CASE Top.pc = "ResetOnly"
  <2>1. frames' = Front(frames) /\ UNCHANGED nestableAllowed
    BY <1>5 DEF ExchangeHaveWork
  <2>2. Ends /\ ~MustReset(frames')
    BY <1>1, <1>3, <2>1, EndsAtRest DEF Ends
  <2> QED
    BY <1>3, <1>4, <2>2 DEF StackMoves
<1>6. ASSUME NEW x \in DispatchPcs, SetTop([Top EXCEPT !.pc = x]), UNCHANGED nestableAllowed
      PROVE  StackMoves /\ ~MustReset(frames')
  <2> DEFINE f == [Top EXCEPT !.pc = x]
  <2>1. /\ f \in FrameSet /\ SameCall(f, Top) /\ f.pc = x /\ f.fn = "Replacement" /\ ~f.done
        /\ f.task = Top.task
    BY <1>2, <1>3, <1>6 DEF FrameSet, Pcs, DispatchPcs, SameCall
  <2> HIDE DEF f
  <2>2. WellFormed(pump, f)
    BY <1>2, <1>3, <1>6, <2>1 DEF WellFormed
  <2>3. Turns /\ frames' # <<>> /\ Last(frames') = f
    BY <1>1, <1>6, <2>1, <2>2, TurnsTo DEF f
  <2> QED
    BY <2>1, <2>3 DEF StackMoves, MustReset, ResetPcs, DispatchPcs
<1>7. CASE Top.pc = "ResetInput"
  <2>1. SetTop([Top EXCEPT !.pc = "DispatchInput"]) /\ UNCHANGED nestableAllowed
    BY <1>7 DEF ExchangeHaveWork
  <2> QED
    BY <1>3, <1>4, <1>6, <2>1 DEF DispatchPcs
<1>8. CASE Top.pc = "ResetTimer"
  <2>1. SetTop([Top EXCEPT !.pc = "DispatchTimer"]) /\ UNCHANGED nestableAllowed
    BY <1>8 DEF ExchangeHaveWork
  <2> QED
    BY <1>3, <1>4, <1>6, <2>1 DEF DispatchPcs
<1> QED
  BY <1>1, <1>5, <1>7, <1>8

LEMMA DispatchReplacementMoves ==
    ASSUME StackInv, DispatchReplacement
    PROVE  StackMoves /\ ~MustReset(frames) /\ ~MustReset(frames') /\ pump = "UI"
<1> DEFINE s == Front(frames)
           caller == Last(s)
           f == [caller EXCEPT !.more = @ \/ caller.fn = "Run"]
           message == IF Top.pc = "DispatchInput" THEN Input ELSE WmTimer
           g == IF message = Input THEN Frame("Handler", "Program")
                                   ELSE Frame("Timer", "DoDelayedWork")
<1>1. frames # <<>> /\ Top.pc \in DispatchPcs
  BY DEF DispatchReplacement, DispatchPcs
<1>2. Top \in FrameSet /\ WellFormed(pump, Top)
  BY <1>1, TopFrame
<1>3. Top.fn = "Replacement" /\ pump = "UI" /\ ~Top.done
  BY <1>1, <1>2 DEF WellFormed, FrameSet, Fns, DispatchPcs, UIStages, IOStages
<1>4. /\ s # <<>> /\ s \in Seq(FrameSet)
      /\ caller \in FrameSet /\ WellFormed(pump, caller) /\ Waits(caller) /\ Bears(caller, Top)
  BY <1>1, <1>3, TopFrame
<1>5. HandlerOf(message, TRUE) = <<g>>
  BY DEF HandlerOf, Input, WmTimer
<1>6. frames' = Front(s) \o <<f>> \o HandlerOf(message, TRUE) /\ UNCHANGED nestableAllowed
  BY DEF DispatchReplacement
<1>7. /\ g \in FrameSet /\ WellFormed(pump, g) /\ g.fn \in {"Handler", "Timer"}
      /\ g.pc \notin ResetPcs
  <2>1. g \in FrameSet /\ WellFormed(pump, g)
    BY <1>3, PumpFrames
  <2>2. g.fn \in {"Handler", "Timer"} /\ g.pc \notin ResetPcs
    BY DEF Frame, ResetPcs
  <2> QED
    BY <2>1, <2>2
<1> HIDE DEF message, g
<1>8. caller.fn \in {"Run", "Work"}
  BY <1>3, <1>4 DEF Bears
<1> HIDE DEF caller, s
<1>9. /\ f \in FrameSet /\ SameCall(f, caller) /\ f.pc = caller.pc /\ f.done = caller.done
      /\ f.task = caller.task /\ f.filter = caller.filter /\ f.quit = caller.quit
      /\ f.more = (caller.more \/ caller.fn = "Run")
  BY <1>4, <1>8 DEF FrameSet, SameCall
<1> HIDE DEF f
<1>10. WellFormed(pump, f) /\ Waits(f) /\ Bears(f, g)
  <2>1. CASE caller.fn = "Run"
    BY <1>4, <1>7, <1>9, <2>1 DEF WellFormed, Waits, Bears, SameCall, Comes
  <2>2. CASE caller.fn = "Work"
    BY <1>4, <1>7, <1>9, <2>2 DEF WellFormed, Waits, Bears, SameCall, Comes
  <2> QED
    BY <1>8, <2>1, <2>2
<1>11. Front(s) \in Seq(FrameSet)
  BY <1>4, PoppedFrame
<1> DEFINE r == Append(Front(s), f)
<1>12. r \in Seq(FrameSet) /\ Front(s) \o <<f>> = r
  BY <1>9, <1>11, PushedFrame, AppendIsConcat
<1>13. r \o <<g>> = Append(r, g) /\ Last(Append(r, g)) = g
  <2> HIDE DEF r
  <2> QED
    BY <1>7, <1>12, PushedFrame, AppendIsConcat
<1>14. frames' = Append(r, g)
  BY <1>5, <1>6, <1>12, <1>13
<1>15. Replaces
  BY <1>1, <1>3, <1>4, <1>6, <1>7, <1>9, <1>10, <1>14 DEF Replaces, s, caller
<1>16. ~MustReset(frames')
  BY <1>7, <1>13, <1>14 DEF MustReset
<1> QED
  BY <1>1, <1>3, <1>15, <1>16 DEF StackMoves, MustReset, Top, DispatchPcs, ResetPcs

LEMMA EndsMoves ==
    ASSUME StackInv, frames # <<>>, frames' = Front(frames), Ends, Top.pc \notin ResetPcs \/ Top.done
    PROVE  StackMoves /\ ~MustReset(frames) /\ ~MustReset(frames')
BY EndsAtRest DEF StackMoves, MustReset, Top

LEMMA BreakMoves ==
    ASSUME StackInv, RunBreaks
    PROVE  StackMoves /\ ~MustReset(frames) /\ ~MustReset(frames')
<1>1. /\ frames # <<>> /\ Top.fn = "Run" /\ Top.done
      /\ frames' = Front(frames) /\ nestableAllowed' = Top.restore
  BY DEF RunBreaks, Returned
<1>2. Ends
  BY <1>1 DEF Ends
<1> QED
  BY <1>1, <1>2, EndsMoves

LEMMA GoOnMoves ==
    ASSUME StackInv, frames # <<>>, Top.fn = "Run", Top.done,
           NEW x \in UIStages \cup IOStages, NEW b \in BOOLEAN,
           (pump = "UI" /\ x \in UIStages) \/ (pump = "IO" /\ x \in IOStages),
           x \in {"Wait", "WaitIO"} => ~b,
           ~Top.quit \/ (pump = "IO" /\ x = "DoWork"),
           SetTop([Top EXCEPT !.pc = x, !.done = FALSE, !.more = b]), UNCHANGED nestableAllowed
    PROVE  StackMoves /\ ~MustReset(frames) /\ ~MustReset(frames')
<1> DEFINE f == [Top EXCEPT !.pc = x, !.done = FALSE, !.more = b]
<1>1. Top \in FrameSet /\ WellFormed(pump, Top) /\ x \in Pcs
  BY TopFrame DEF Pcs
<1>2. /\ f \in FrameSet /\ SameCall(f, Top) /\ f.fn = "Run" /\ f.pc = x /\ f.done = FALSE /\ f.more = b
      /\ f.task = Top.task /\ f.filter = Top.filter /\ f.quit = Top.quit
  <2>1. f \in FrameSet
    BY <1>1 DEF FrameSet
  <2> QED
    BY <1>1, <2>1 DEF FrameSet, SameCall
<1>3. SetTop(f)
  OBVIOUS
<1> HIDE DEF f
<1>4. WellFormed(pump, f)
  BY <1>1, <1>2 DEF WellFormed
<1>5. Turns /\ frames' # <<>> /\ Last(frames') = f
  BY <1>2, <1>3, <1>4, TurnsTo
<1> QED
  BY <1>2, <1>5 DEF StackMoves, MustReset, Top, ResetPcs, UIStages, IOStages

LEMMA UIStageMoves ==
    ASSUME StackInv, UIStageDone
    PROVE  StackMoves /\ ~MustReset(frames) /\ ~MustReset(frames')
<1>1. pump = "UI"
  BY DEF UIStageDone
<1>2. CASE RunBreaks
  BY <1>2, BreakMoves
<1>3. CASE RunGoesOn(NextUIStage, "Peek")
  <2>1. frames # <<>> /\ Top.fn = "Run" /\ Top.done /\ ~Top.quit /\ UNCHANGED nestableAllowed
    BY <1>3 DEF RunGoesOn, Returned, MustBreak
  <2>2. Top \in FrameSet /\ WellFormed(pump, Top)
    BY <2>1, TopFrame
  <2>3. Top.pc \in {"Peek", "DoWork", "DoDelayedWork", "DoIdleWork"}
    BY <1>1, <2>1, <2>2 DEF WellFormed, UIStages
  <2>4. /\ NextUIStage \in UIStages
        /\ NextUIStage = "Wait" => ~Top.more
        /\ NextUIStage # "WaitIO"
    BY <2>3 DEF NextUIStage, UIStages
  <2> DEFINE b == Top.more /\ NextUIStage # "Peek"
             x == NextUIStage
  <2>5. SetTop([Top EXCEPT !.pc = x, !.done = FALSE, !.more = b])
    BY <1>3 DEF RunGoesOn
  <2>6. b \in BOOLEAN
    OBVIOUS
  <2>7. x \in {"Wait", "WaitIO"} => ~b
    BY <2>4
  <2> HIDE DEF b, x
  <2>8. x \in UIStages
    BY <2>4 DEF x
  <2> QED
    BY <1>1, <2>1, <2>5, <2>6, <2>7, <2>8, GoOnMoves
<1> QED
  BY <1>2, <1>3 DEF UIStageDone

LEMMA UIWaitMoves ==
    ASSUME StackInv, UIWaitReturns
    PROVE  StackMoves /\ ~MustReset(frames) /\ ~MustReset(frames')
<1>1. /\ frames # <<>> /\ Top.pc = "Wait" /\ ~Top.done /\ pump = "UI"
      /\ SetTop([Top EXCEPT !.pc = "Peek"]) /\ UNCHANGED nestableAllowed
  BY DEF UIWaitReturns, At
<1> DEFINE f == [Top EXCEPT !.pc = "Peek"]
<1>2. Top \in FrameSet /\ WellFormed(pump, Top)
  BY <1>1, TopFrame
<1>3. Top.fn = "Run"
  BY <1>1, <1>2 DEF WellFormed, FrameSet, Fns, ResetPcs, DispatchPcs
<1>4. /\ f \in FrameSet /\ SameCall(f, Top) /\ f.fn = "Run" /\ f.pc = "Peek" /\ f.done = Top.done
      /\ f.task = Top.task /\ f.filter = Top.filter /\ f.quit = Top.quit
  BY <1>2, <1>3 DEF FrameSet, SameCall, Pcs, UIStages
<1>5. SetTop(f)
  BY <1>1
<1> HIDE DEF f
<1>6. WellFormed(pump, f)
  BY <1>1, <1>2, <1>3, <1>4 DEF WellFormed, UIStages
<1>7. Turns /\ frames' # <<>> /\ Last(frames') = f
  BY <1>1, <1>4, <1>5, <1>6, TurnsTo
<1> QED
  BY <1>1, <1>4, <1>7 DEF StackMoves, MustReset, Top, ResetPcs

LEMMA DispatchMoves ==
    ASSUME StackInv, MessagesOK, pump \in {"UI", "Embed"}, NEW active, DispatchInModal(active)
    PROVE  /\ StackMoves /\ ~MustReset(frames)
           /\ MustReset(frames') <=> Peeked = HaveWork
<1>1. /\ frames # <<>> /\ Top.pc = "Modal" /\ ~Top.done /\ UNCHANGED nestableAllowed
      /\ frames' = frames \o (IF Peeked = HaveWork THEN WorkMessageFrames
                                                   ELSE HandlerOf(Peeked, active))
  BY DEF DispatchInModal, At
<1>2. /\ Top \in FrameSet /\ WellFormed(pump, Top) /\ frames \in Seq(FrameSet)
      /\ frames = Append(Front(frames), Top)
  BY <1>1, TopFrame
<1>3. Top.fn = "Modal"
  BY <1>1, <1>2 DEF WellFormed, FrameSet, Fns, UIStages, IOStages, ResetPcs, DispatchPcs
<1>4. Waits(Top) /\ SameCall(Top, Top) /\ ~MustReset(frames)
  BY <1>1, <1>3 DEF Waits, SameCall, MustReset, Top, ResetPcs
<1>5. CASE Peeked # HaveWork
  <2>1. frames' = Append(Front(frames), Top) \o HandlerOf(Peeked, active)
    BY <1>1, <1>2, <1>5
  <2> QED
    BY <1>1, <1>2, <1>4, <1>5, <2>1, HandlerCalled
<1>6. CASE Peeked = HaveWork /\ WorkMessageFrames = <<Frame("Work", "Reset")>>
  <2> DEFINE g == Frame("Work", "Reset")
  <2>1. g \in FrameSet /\ WellFormed(pump, g)
    BY PumpFrames
  <2>2. g.fn = "Work" /\ g.pc = "Reset" /\ ~g.done
    BY DEF Frame
  <2>3. frames' = Append(Front(frames), Top) \o <<g>>
    BY <1>1, <1>2, <1>6
  <2> HIDE DEF g
  <2>4. Bears(Top, g) /\ Enters(g)
    BY <1>1, <2>2 DEF Bears, Enters, Opens
  <2>5. Calls /\ frames' # <<>> /\ Last(frames') = g
    BY <1>1, <1>2, <1>4, <2>1, <2>3, <2>4, CallsOn
  <2> QED
    BY <1>4, <1>6, <2>2, <2>5 DEF StackMoves, MustReset, ResetPcs
<1>7. CASE /\ Peeked = HaveWork /\ pump = "UI"
           /\ WorkMessageFrames = <<Frame("Work", "DoWork"), Frame("Replacement", "PeekReplacement")>>
  <2> DEFINE f == Frame("Work", "DoWork")
             g == Frame("Replacement", "PeekReplacement")
  <2>1. f \in FrameSet /\ WellFormed(pump, f) /\ g \in FrameSet /\ WellFormed(pump, g)
    BY <1>7, PumpFrames
  <2>2. f.fn = "Work" /\ f.pc = "DoWork" /\ g.fn = "Replacement" /\ g.pc = "PeekReplacement" /\ ~g.done
    BY DEF Frame
  <2>3. frames' = frames \o <<f, g>>
    BY <1>1, <1>7
  <2> HIDE DEF f, g
  <2>4. Bears(Top, f) /\ Waits(f) /\ Bears(f, g)
    BY <2>2 DEF Bears, Waits
  <2> DEFINE r == Append(frames, f)
  <2>5. frames' = Append(r, g)
    BY <1>2, <2>1, <2>3
  <2>6. r \in Seq(FrameSet)
    BY <1>2, <2>1
  <2>7. CallsTwo
    BY <1>1, <1>4, <2>1, <2>2, <2>4, <2>5 DEF CallsTwo
  <2> HIDE DEF r
  <2>8. Append(r, g) # <<>> /\ Last(Append(r, g)) = g
    BY <2>1, <2>6, PushedFrame, Zenon
  <2> QED
    BY <1>4, <1>7, <2>2, <2>5, <2>7, <2>8 DEF StackMoves, MustReset, ResetPcs
<1> QED
  BY <1>5, <1>6, <1>7 DEF WorkMessageFrames

LEMMA WorkOutsideMoves ==
    ASSUME StackInv, WorkMessageOutsideRun
    PROVE  StackMoves /\ MustReset(frames) /\ ~MustReset(frames')
<1>1. /\ frames # <<>> /\ Top.pc = "Reset" /\ ~Top.done
      /\ frames' = Front(frames) /\ UNCHANGED nestableAllowed
  BY DEF WorkMessageOutsideRun, At
<1>2. Top \in FrameSet /\ WellFormed(pump, Top)
  BY <1>1, TopFrame
<1>3. Top.fn = "Work"
  BY <1>1, <1>2 DEF WellFormed, FrameSet, Fns, UIStages, IOStages, ResetPcs, DispatchPcs
<1>4. Ends
  BY <1>1, <1>3 DEF Ends
<1> QED
  BY <1>1, <1>4, EndsAtRest DEF StackMoves, MustReset, Top, ResetPcs

LEMMA MessageEndsMoves ==
    ASSUME StackInv, WorkMessageEnds \/ TimerMessageEnds \/ WaitForIOEnds
    PROVE  StackMoves /\ ~MustReset(frames) /\ ~MustReset(frames')
<1>1. /\ frames # <<>> /\ Top.fn \in {"Work", "Timer", "WaitFor"} /\ Top.done
      /\ frames' = Front(frames) /\ UNCHANGED nestableAllowed
  BY DEF WorkMessageEnds, TimerMessageEnds, WaitForIOEnds, Returned
<1>2. Ends
  BY <1>1 DEF Ends
<1> QED
  BY <1>1, <1>2, EndsMoves

LEMMA EmbedWorkMoves ==
    ASSUME StackInv, EmbedWorkMessage
    PROVE  StackMoves /\ MustReset(frames) /\ ~MustReset(frames')
<1>1. /\ frames # <<>> /\ Top.pc = "Reset" /\ ~Top.done /\ pump = "Embed" /\ UNCHANGED nestableAllowed
  BY DEF EmbedWorkMessage, At
<1>2. Top \in FrameSet /\ WellFormed(pump, Top)
  BY <1>1, TopFrame
<1>3. Top.fn = "Work"
  BY <1>1, <1>2 DEF WellFormed, FrameSet, Fns, UIStages, IOStages, ResetPcs, DispatchPcs
<1>4. MustReset(frames)
  BY <1>1 DEF MustReset, Top, ResetPcs
<1>5. CASE frames' = Front(frames)
  <2>1. Ends
    BY <1>1, <1>3, <1>5 DEF Ends
  <2> QED
    BY <1>1, <1>4, <1>5, <2>1, EndsAtRest DEF StackMoves
<1>6. CASE SetTop([Top EXCEPT !.pc = "DoWork"])
  <2> DEFINE f == [Top EXCEPT !.pc = "DoWork"]
  <2>1. /\ f \in FrameSet /\ SameCall(f, Top) /\ f.fn = "Work" /\ f.pc = "DoWork"
        /\ f.task = Top.task
    BY <1>2, <1>3 DEF FrameSet, SameCall, Pcs, UIStages
  <2>2. SetTop(f)
    BY <1>6
  <2> HIDE DEF f
  <2>3. WellFormed(pump, f)
    BY <1>1, <1>2, <1>3, <2>1 DEF WellFormed
  <2>4. Turns /\ frames' # <<>> /\ Last(frames') = f
    BY <1>1, <2>1, <2>2, <2>3, TurnsTo
  <2> QED
    BY <1>4, <2>1, <2>4 DEF StackMoves, MustReset, ResetPcs
<1> QED
  BY <1>5, <1>6 DEF EmbedWorkMessage

(* Those of the pump with a completion port.                               *)
LEMMA ItemMoves ==
    ASSUME StackInv, InWaitForIO, NEW o, NEW saved, NEW filter, HandleItem(o, saved, filter),
           UNCHANGED nestableAllowed
    PROVE  StackMoves /\ ~MustReset(frames) /\ ~MustReset(frames')
<1>1. frames # <<>> /\ Top.pc \in StagePcs
  BY DEF InWaitForIO, At, StagePcs
<1>2. CASE Return(TRUE)
  BY <1>1, <1>2, ReturnTurns, Zenon DEF StackMoves
<1>3. CASE Call(TRUE, Frame("Handler", "Program"))
  <2> DEFINE g == Frame("Handler", "Program")
  <2>1. g \in FrameSet /\ WellFormed(pump, g)
    BY PumpFrames
  <2>2. g.fn = "Handler" /\ g.pc = "Program"
    BY DEF Frame
  <2>3. Call(TRUE, g)
    BY <1>3
  <2> HIDE DEF g
  <2>4. Enters(g)
    BY <2>2 DEF Enters, Opens
  <2>5. Calls /\ ~MustReset(frames) /\ frames' # <<>> /\ Last(frames') = g
    BY <1>1, <2>1, <2>2, <2>3, <2>4, CallCalls
  <2> QED
    BY <2>2, <2>5 DEF StackMoves, MustReset, ResetPcs
<1> QED
  BY <1>2, <1>3 DEF HandleItem

LEMMA WaitForIOPump ==
    ASSUME StackInv, InWaitForIO
    PROVE  pump = "IO" /\ Top.fn \in {"Run", "WaitFor"}
<1>1. frames # <<>> /\ Top.pc \in {"PollIO", "WaitIO"}
  BY DEF InWaitForIO, At
<1>2. Top \in FrameSet /\ WellFormed(pump, Top)
  BY <1>1, TopFrame
<1> QED
  BY <1>1, <1>2 DEF WellFormed, FrameSet, Fns, UIStages, ResetPcs, DispatchPcs

LEMMA TakeSavedMoves ==
    ASSUME StackInv, TakeSavedItem
    PROVE  StackMoves /\ ~MustReset(frames) /\ ~MustReset(frames')
BY ItemMoves DEF TakeSavedItem

LEMMA GetItemMoves ==
    ASSUME StackInv, GetIOItem
    PROVE  /\ StackMoves /\ ~MustReset(frames)
           /\ MustReset(frames') <=> Head(queue) = HaveWork
<1>1. frames # <<>> /\ Top.pc \in StagePcs /\ InWaitForIO /\ UNCHANGED nestableAllowed
  BY DEF GetIOItem, InWaitForIO, At, StagePcs
<1>2. pump = "IO"
  BY <1>1, WaitForIOPump
<1>3. CASE Head(queue) # HaveWork
  BY <1>1, <1>3, ItemMoves DEF GetIOItem
<1>4. CASE Head(queue) = HaveWork
  <2> DEFINE g == Frame("Internal", "Internal")
  <2>1. g \in FrameSet /\ WellFormed(pump, g)
    BY <1>2, PumpFrames
  <2>2. g.fn = "Internal" /\ g.pc = "Internal" /\ ~g.done
    BY DEF Frame
  <2>3. Call(TRUE, g)
    BY <1>4 DEF GetIOItem
  <2> HIDE DEF g
  <2>4. Enters(g)
    BY <1>1, <2>2 DEF Enters, Opens
  <2>5. Calls /\ ~MustReset(frames) /\ frames' # <<>> /\ Last(frames') = g
    BY <1>1, <2>1, <2>2, <2>3, <2>4, CallCalls
  <2> QED
    BY <1>4, <2>2, <2>5 DEF StackMoves, MustReset, ResetPcs
<1> QED
  BY <1>3, <1>4

LEMMA NoItemMoves ==
    ASSUME StackInv, NoIOItem
    PROVE  StackMoves /\ ~MustReset(frames) /\ ~MustReset(frames')
<1>1. frames # <<>> /\ Top.pc \in StagePcs /\ Return(FALSE) /\ UNCHANGED nestableAllowed
  BY DEF NoIOItem, InWaitForIO, At, StagePcs
<1> QED
  BY <1>1, ReturnTurns, Zenon DEF StackMoves

LEMMA InternalMoves ==
    ASSUME StackInv, ProcessInternalIOItem
    PROVE  StackMoves /\ MustReset(frames) /\ ~MustReset(frames')
<1>1. /\ frames # <<>> /\ Top.pc = "Internal" /\ ~Top.done
      /\ frames' = Front(frames) /\ UNCHANGED nestableAllowed
  BY DEF ProcessInternalIOItem, At
<1>2. Top \in FrameSet /\ WellFormed(pump, Top)
  BY <1>1, TopFrame
<1>3. Top.fn = "Internal"
  BY <1>1, <1>2 DEF WellFormed, FrameSet, Fns, UIStages, IOStages, ResetPcs, DispatchPcs
<1>4. Ends
  BY <1>1, <1>3 DEF Ends
<1> QED
  BY <1>1, <1>4, EndsAtRest DEF StackMoves, MustReset, Top, ResetPcs

LEMMA IOStageMoves ==
    ASSUME StackInv, IOStageDone
    PROVE  StackMoves /\ ~MustReset(frames) /\ ~MustReset(frames')
<1>1. pump = "IO"
  BY DEF IOStageDone
<1>2. CASE RunBreaks
  BY <1>2, BreakMoves
<1>3. CASE RunGoesOn(NextIOStage, "DoWork")
  <2>1. frames # <<>> /\ Top.fn = "Run" /\ Top.done /\ ~Top.quit /\ UNCHANGED nestableAllowed
    BY <1>3 DEF RunGoesOn, Returned, MustBreak
  <2>2. Top \in FrameSet /\ WellFormed(pump, Top)
    BY <2>1, TopFrame
  <2>3. Top.pc \in IOStages
    BY <1>1, <2>1, <2>2 DEF WellFormed
  <2>4. /\ NextIOStage \in IOStages
        /\ NextIOStage = "WaitIO" => ~Top.more
        /\ NextIOStage # "Wait"
    BY <2>3 DEF NextIOStage, IOStages
  <2> DEFINE b == Top.more /\ NextIOStage # "DoWork"
             x == NextIOStage
  <2>5. SetTop([Top EXCEPT !.pc = x, !.done = FALSE, !.more = b])
    BY <1>3 DEF RunGoesOn
  <2>6. b \in BOOLEAN
    OBVIOUS
  <2>7. x \in {"Wait", "WaitIO"} => ~b
    BY <2>4
  <2> HIDE DEF b, x
  <2>8. x \in IOStages
    BY <2>4 DEF x
  <2> QED
    BY <1>1, <2>1, <2>5, <2>6, <2>7, <2>8, GoOnMoves
<1>4. CASE /\ frames # <<>> /\ Top.fn = "Run" /\ Top.done
           /\ SetTop([Top EXCEPT !.pc = "DoWork", !.done = FALSE, !.more = FALSE])
           /\ UNCHANGED nestableAllowed
  <2>1. "DoWork" \in IOStages
    BY DEF IOStages
  <2> QED
    BY <1>1, <1>4, <2>1, GoOnMoves, Zenon
<1> QED
  BY <1>2, <1>3, <1>4 DEF IOStageDone, Returned
-----------------------------------------------------------------------------
(* And those of the program.                                               *)
LEMMA FinishMoves ==
    ASSUME StackInv, Finish
    PROVE  StackMoves /\ ~MustReset(frames) /\ ~MustReset(frames')
<1>1. /\ frames # <<>> /\ Top.pc = "Program" /\ frames' = Front(frames)
      /\ nestableAllowed' = (nestableAllowed \/ Top.task # NoTask)
  BY DEF Finish, AllowedAfter, InProgram, At
<1>2. Top \in FrameSet /\ WellFormed(pump, Top)
  BY <1>1, TopFrame
<1>3. Top.fn \in {"Task", "Handler"} /\ (Top.fn = "Task" => Top.task # NoTask)
  BY <1>1, <1>2 DEF WellFormed, FrameSet, Fns, UIStages, IOStages, ResetPcs, DispatchPcs
<1>4. Ends
  BY <1>1, <1>3 DEF Ends
<1> QED
  BY <1>1, <1>4, EndsMoves DEF ResetPcs

LEMMA CloseModalMoves ==
    ASSUME StackInv, CloseModal
    PROVE  StackMoves /\ ~MustReset(frames) /\ ~MustReset(frames')
<1>1. /\ frames # <<>> /\ Top.pc = "Modal" /\ frames' = Front(frames)
      /\ nestableAllowed' = Top.restore
  BY DEF CloseModal, At
<1>2. Top \in FrameSet /\ WellFormed(pump, Top)
  BY <1>1, TopFrame
<1>3. Top.fn = "Modal"
  BY <1>1, <1>2 DEF WellFormed, FrameSet, Fns, UIStages, IOStages, ResetPcs, DispatchPcs
<1>4. Ends
  BY <1>1, <1>3 DEF Ends
<1> QED
  BY <1>1, <1>4, EndsMoves DEF ResetPcs

LEMMA InnermostRun ==
    ASSUME frames \in Seq(FrameSet), Running
    PROVE  Innermost \in Runs
<1> DEFINE T == {Len(frames) - i : i \in Runs}
<1>1. Runs \subseteq 1 .. Len(frames) /\ Len(frames) \in Nat /\ Runs # {}
  BY DEF Runs, Running
<1>2. T \in SUBSET Nat /\ T # {}
  <2>1. \A i \in Runs : Len(frames) - i \in Nat
    BY <1>1
  <2>2. \A x \in T : x \in Nat
    BY <2>1
  <2> QED
    BY <1>1, <2>2
<1> HIDE DEF T
<1>3. PICK n \in T : \A m \in T : n <= m
  BY <1>2, LeastOf
<1>4. PICK i \in Runs : n = Len(frames) - i
  BY <1>3 DEF T
<1>5. ASSUME NEW j \in Runs
      PROVE  j <= i
  <2>1. Len(frames) - j \in T
    BY DEF T
  <2>2. Len(frames) - i <= Len(frames) - j
    BY <1>3, <1>4, <2>1
  <2> QED
    BY <1>1, <2>2
<1> QED
  BY <1>4, <1>5 DEF Innermost

LEMMA QuitMoves ==
    ASSUME StackInv, Quit
    PROVE  /\ Flags /\ frames # <<>> /\ frames' # <<>> /\ Last(frames') = Top
           /\ MustReset(frames') = MustReset(frames)
<1> DEFINE i == Innermost
<1>1. /\ frames # <<>> /\ Top.pc = "Program" /\ Running /\ UNCHANGED nestableAllowed
      /\ \/ frames' = [frames EXCEPT ![i].quitReceived = TRUE]
         \/ frames' = [frames EXCEPT ![i].quit = TRUE]
  BY DEF Quit, InProgram, At
<1>2. Top \in FrameSet /\ WellFormed(pump, Top) /\ frames \in Seq(FrameSet)
  BY <1>1, TopFrame
<1>3. i \in Runs
  BY <1>1, <1>2, InnermostRun
<1> HIDE DEF i
<1>4. i \in 1 .. Len(frames) /\ frames[i].fn = "Run" /\ frames[i] \in FrameSet
  BY <1>2, <1>3 DEF Runs
<1>5. i # Len(frames)
  <2>1. Top.fn # "Run"
    BY <1>1, <1>2 DEF WellFormed, UIStages, IOStages
  <2> QED
    BY <1>4, <2>1 DEF Top, Last
<1>6. WellFormed(pump, frames[i]) /\ Waits(frames[i])
  BY <1>4, <1>5 DEF StackInv, Stack
<1>7. PICK f : /\ f \in {[frames[i] EXCEPT !.quit = TRUE], [frames[i] EXCEPT !.quitReceived = TRUE]}
               /\ frames' = [frames EXCEPT ![i] = f]
  BY <1>1, <1>2, <1>4
<1>8. /\ f \in FrameSet /\ SameCall(f, frames[i]) /\ f.fn = "Run"
      /\ f.pc = frames[i].pc /\ f.done = frames[i].done /\ f.more = frames[i].more
      /\ f.task = frames[i].task /\ f.filter = frames[i].filter
  BY <1>4, <1>7 DEF FrameSet, SameCall
<1>9. f.done
  BY <1>4, <1>6, <1>8 DEF Waits
<1>10. WellFormed(pump, f) /\ Waits(f)
  <2>1. Waits(f)
    BY <1>4, <1>6, <1>8, <1>9 DEF Waits, Comes
  <2>2. /\ (pump = "UI" /\ f.pc \in UIStages) \/ (pump = "IO" /\ f.pc \in IOStages)
        /\ f.filter = NoHandler /\ f.pc # "Wait" /\ f.task = NoTask
    <3> DEFINE e == frames[i]
    <3>1. e.fn = "Run" /\ e.done /\ WellFormed(pump, e) /\ e \in FrameSet
      BY <1>4, <1>6 DEF Waits
    <3>2. f.pc = e.pc /\ f.filter = e.filter /\ f.task = e.task
      BY <1>8
    <3> HIDE DEF e
    <3> QED
      BY <3>1, <3>2 DEF WellFormed
  <2>3. WellFormed(pump, f)
    BY <1>8, <1>9, <2>2 DEF WellFormed
  <2> QED
    BY <2>1, <2>3
<1>11. Flags
  <2>1. i \in DOMAIN frames
    BY <1>2, <1>4
  <2>2. frames' = [frames EXCEPT ![i] = f] /\ f \in FrameSet /\ SameCall(f, frames[i])
    BY <1>7, <1>8
  <2>3. UNCHANGED nestableAllowed
    BY <1>1
  <2> QED
    BY <1>5, <1>10, <2>1, <2>2, <2>3, Zenon DEF Flags
<1>12. /\ frames' \in Seq(FrameSet) /\ Len(frames') = Len(frames) /\ frames' # <<>>
       /\ frames'[Len(frames)] = frames[Len(frames)]
  BY <1>1, <1>2, <1>4, <1>5, <1>7, <1>8
<1>13. Last(frames') = Top
  BY <1>12 DEF Last, Top
<1> QED
  BY <1>1, <1>11, <1>12, <1>13 DEF MustReset, Top

(* The frame of a nested loop.                                             *)
Within(frame, c, a) == [frame EXCEPT !.restore = c, !.allower = a]
LEMMA NestedFrames ==
    ASSUME NEW b, b \in BOOLEAN, NEW c, c \in BOOLEAN, NEW a, a \in BOOLEAN
    PROVE  /\ Within(RunFrame("Peek", b), c, a) \in FrameSet
           /\ Within(RunFrame("Peek", b), c, a).fn = "Run"
           /\ Within(RunFrame("Peek", b), c, a).pc = "Peek"
           /\ Within(RunFrame("Peek", b), c, a).restore = c
           /\ Within(RunFrame("Peek", b), c, a).allower = a
           /\ pump = "UI" => WellFormed(pump, Within(RunFrame("Peek", b), c, a))
           /\ Within(ModalFrame, c, a) \in FrameSet
           /\ Within(ModalFrame, c, a).fn = "Modal"
           /\ Within(ModalFrame, c, a).pc = "Modal"
           /\ Within(ModalFrame, c, a).restore = c
           /\ pump \in {"UI", "Embed"} => WellFormed(pump, Within(ModalFrame, c, a))
<1> DEFINE r == Within(RunFrame("Peek", b), c, a)
           m == Within(ModalFrame, c, a)
<1>1. /\ r \in FrameSet /\ r.fn = "Run" /\ r.pc = "Peek" /\ r.restore = c /\ r.allower = a /\ r.done = FALSE
      /\ r.quit = FALSE /\ r.task = NoTask /\ r.filter = NoHandler
  BY DEF Within, RunFrame, Frame, FrameSet, Fns, Pcs, UIStages
<1>2. /\ m \in FrameSet /\ m.fn = "Modal" /\ m.pc = "Modal" /\ m.restore = c /\ m.done = FALSE
      /\ m.task = NoTask
  BY DEF Within, ModalFrame, Frame, FrameSet, Fns, Pcs
<1> HIDE DEF r, m
<1>3. ASSUME pump = "UI"
      PROVE  WellFormed(pump, r)
  BY <1>1, <1>3 DEF WellFormed, UIStages
<1>4. ASSUME pump \in {"UI", "Embed"}
      PROVE  WellFormed(pump, m)
  BY <1>2, <1>4 DEF WellFormed
<1> QED
  BY <1>1, <1>2, <1>3, <1>4 DEF r, m

LEMMA EnterMoves ==
    ASSUME StackInv, nestableAllowed \in BOOLEAN, NEW frame, NEW allow, EnterNested(frame, allow),
           NEW g, g = Within(frame, nestableAllowed, allow),
           g \in FrameSet, WellFormed(pump, g), g.restore = nestableAllowed,
           \/ g.fn = "Run" /\ g.pc = "Peek" /\ g.allower = allow
           \/ g.fn = "Modal" /\ g.pc = "Modal"
    PROVE  StackMoves /\ ~MustReset(frames) /\ ~MustReset(frames')
<1> DEFINE f == [Top EXCEPT !.nested = TRUE]
<1>1. /\ frames # <<>> /\ Top.pc = "Program"
      /\ frames' = Append(Front(frames) \o <<f>>, g)
      /\ nestableAllowed' = (nestableAllowed \/ allow)
  BY DEF EnterNested, InProgram, At, Within
<1>2. Top \in FrameSet /\ WellFormed(pump, Top) /\ Front(frames) \in Seq(FrameSet)
  BY <1>1, TopFrame
<1>3. Top.fn \in {"Task", "Handler"}
  BY <1>1, <1>2 DEF WellFormed, FrameSet, Fns, UIStages, IOStages, ResetPcs, DispatchPcs
<1>4. /\ f \in FrameSet /\ SameCall(f, Top) /\ f.fn = Top.fn
      /\ f.pc = Top.pc /\ f.done = Top.done /\ f.task = Top.task
  BY <1>2 DEF FrameSet, SameCall
<1> HIDE DEF f
<1>5. WellFormed(pump, f) /\ Waits(f) /\ Bears(f, g)
  BY <1>1, <1>2, <1>3, <1>4 DEF WellFormed, Waits, Bears
<1>6. Enters(g)
  BY <1>1 DEF Enters, Comes, Opens, Forbids
<1> DEFINE r == Append(Front(frames), f)
<1>7. r \in Seq(FrameSet) /\ frames' = Append(r, g)
  BY <1>1, <1>2, <1>4, PushedFrame, AppendIsConcat
<1>8. Calls
  BY <1>1, <1>4, <1>5, <1>6, <1>7 DEF Calls
<1> HIDE DEF r
<1>9. Append(r, g) # <<>> /\ Last(Append(r, g)) = g
  <2>1. r \in Seq(FrameSet)
    BY <1>7
  <2> QED
    BY <2>1, PushedTop
<1> QED
  BY <1>1, <1>7, <1>8, <1>9 DEF StackMoves, MustReset, Top, ResetPcs

LEMMA BeginMoves ==
    ASSUME StackInv, frames = <<>>, NEW g \in FrameSet, WellFormed(pump, g), g.restore,
           g.fn # "Replacement", g.pc \notin ResetPcs, g.fn = "Run" => Comes(g),
           frames' = <<g>>, UNCHANGED nestableAllowed
    PROVE  StackMoves /\ ~MustReset(frames) /\ ~MustReset(frames')
<1>1. frames' = Append(frames, g) /\ Last(<<g>>) = g
  BY DEF Last
<1>2. Begins
  BY <1>1 DEF Begins
<1> QED
  BY <1>1, <1>2 DEF StackMoves, MustReset

LEMMA RunMoves ==
    ASSUME StackInv, UIRun \/ IORun
    PROVE  StackMoves /\ ~MustReset(frames) /\ ~MustReset(frames')
<1>1. PICK b \in BOOLEAN, first \in {"Peek", "DoWork"} :
        /\ frames = <<>> /\ frames' = <<RunFrame(first, b)>> /\ UNCHANGED nestableAllowed
        /\ (first = "Peek" /\ pump = "UI") \/ (first = "DoWork" /\ pump = "IO")
  BY DEF UIRun, IORun
<1> DEFINE g == RunFrame(first, b)
<1>2. /\ g \in FrameSet /\ g.fn = "Run" /\ g.pc = first /\ g.restore = TRUE /\ g.done = FALSE
      /\ g.quit = FALSE /\ g.task = NoTask /\ g.filter = NoHandler
  BY DEF RunFrame, Frame, FrameSet, Fns, Pcs, UIStages
<1>3. frames' = <<g>>
  BY <1>1
<1> HIDE DEF g
<1>4. WellFormed(pump, g) /\ Comes(g) /\ g.pc \notin ResetPcs
  BY <1>1, <1>2 DEF WellFormed, Comes, UIStages, IOStages, ResetPcs
<1> QED
  BY <1>1, <1>2, <1>3, <1>4, BeginMoves

LEMMA RunNestedMoves ==
    ASSUME StackInv, nestableAllowed \in BOOLEAN, UIRunNested
    PROVE  StackMoves /\ ~MustReset(frames) /\ ~MustReset(frames')
<1>1. PICK b \in BOOLEAN, allow \in BOOLEAN :
        pump = "UI" /\ EnterNested(RunFrame("Peek", b), allow)
  BY DEF UIRunNested
<1> DEFINE g == Within(RunFrame("Peek", b), nestableAllowed, allow)
<1>2. /\ g \in FrameSet /\ WellFormed(pump, g) /\ g.restore = nestableAllowed
      /\ g.fn = "Run" /\ g.pc = "Peek" /\ g.allower = allow
  BY <1>1, NestedFrames
<1> QED
  BY <1>1, <1>2, EnterMoves, Zenon

LEMMA OpenModalMoves ==
    ASSUME StackInv, nestableAllowed \in BOOLEAN, OpenModal
    PROVE  StackMoves /\ ~MustReset(frames) /\ ~MustReset(frames')
<1>1. CASE \E allow \in BOOLEAN : EnterNested(ModalFrame, allow)
  <2>1. PICK allow \in BOOLEAN : EnterNested(ModalFrame, allow)
    BY <1>1
  <2> DEFINE g == Within(ModalFrame, nestableAllowed, allow)
  <2>2. pump \in {"UI", "Embed"}
    BY DEF OpenModal
  <2>3. /\ g \in FrameSet /\ WellFormed(pump, g) /\ g.restore = nestableAllowed
        /\ g.fn = "Modal" /\ g.pc = "Modal"
    BY <2>2, NestedFrames
  <2> QED
    BY <2>1, <2>3, EnterMoves, Zenon
<1>2. CASE frames = <<>> /\ frames' = <<ModalFrame>> /\ UNCHANGED nestableAllowed
  <2> DEFINE g == ModalFrame
  <2>1. g \in FrameSet /\ WellFormed(pump, g)
    BY PumpFrames DEF OpenModal, ModalFrame
  <2>2. g.fn = "Modal" /\ g.pc = "Modal" /\ g.restore
    BY DEF ModalFrame, Frame
  <2>3. frames' = <<g>>
    BY <1>2
  <2> HIDE DEF g
  <2>4. g.pc \notin ResetPcs /\ g.fn # "Replacement" /\ g.fn # "Run"
    BY <2>2 DEF ResetPcs
  <2> QED
    BY <1>2, <2>1, <2>2, <2>3, <2>4, BeginMoves
<1> QED
  BY <1>1, <1>2 DEF OpenModal

LEMMA WaitMoves ==
    ASSUME StackInv, WaitForIOCompletion
    PROVE  StackMoves /\ ~MustReset(frames) /\ ~MustReset(frames')
<1>1. PICK o \in Operations :
        frames' = Append(frames, [Frame("WaitFor", "WaitIO") EXCEPT !.filter = HandlerOfIO[o]])
  BY DEF WaitForIOCompletion
<1>2. /\ pump = "IO" /\ UNCHANGED nestableAllowed
      /\ frames = <<>> \/ (frames # <<>> /\ Top.pc = "Program")
  BY DEF WaitForIOCompletion, InProgram, At
<1> DEFINE g == [Frame("WaitFor", "WaitIO") EXCEPT !.filter = HandlerOfIO[o]]
<1>3. /\ g \in FrameSet /\ g.fn = "WaitFor" /\ g.pc = "WaitIO" /\ g.task = NoTask /\ g.restore = TRUE
  BY IOAssumption DEF Frame, FrameSet, Fns, Pcs, IOStages
<1>4. frames' = Append(frames, g)
  BY <1>1
<1> HIDE DEF g
<1>5. WellFormed(pump, g) /\ g.pc \notin ResetPcs
  BY <1>2, <1>3 DEF WellFormed, ResetPcs
<1>6. CASE frames = <<>>
  <2>1. frames' = <<g>>
    BY <1>4, <1>6
  <2> QED
    BY <1>2, <1>3, <1>5, <1>6, <2>1, BeginMoves
<1>7. CASE frames # <<>>
  <2>1. /\ Top \in FrameSet /\ WellFormed(pump, Top) /\ frames \in Seq(FrameSet)
        /\ frames = Append(Front(frames), Top)
    BY <1>7, TopFrame
  <2>2. Top.fn \in {"Task", "Handler"}
    BY <1>2, <1>7, <2>1 DEF WellFormed, FrameSet, Fns, UIStages, IOStages, ResetPcs, DispatchPcs
  <2>3. Waits(Top) /\ Bears(Top, g) /\ SameCall(Top, Top) /\ Enters(g)
    BY <1>2, <1>3, <2>2 DEF Waits, Bears, SameCall, Enters, Opens
  <2>4. frames' = Append(Append(Front(frames), Top), g)
    BY <1>4, <2>1
  <2>5. Calls
    BY <1>3, <1>5, <1>7, <2>1, <2>3, <2>4 DEF Calls
  <2>6. Append(frames, g) # <<>> /\ Last(Append(frames, g)) = g
    <3>1. frames \in Seq(FrameSet) /\ g \in FrameSet
      BY <1>3, <2>1
    <3> QED
      BY <3>1, PushedFrame, ZenonT(30)
  <2> QED
    BY <1>2, <1>4, <1>5, <1>7, <2>5, <2>6 DEF StackMoves, MustReset, Top, ResetPcs
<1> QED
  BY <1>6, <1>7

-----------------------------------------------------------------------------
(* So every step keeps the invariants of the stack.  A replacement is      *)
(* never the pump's own message again: that is up to the flag, below.      *)
NoSecondMessage == At("PeekReplacement") => Peeked # HaveWork

LEMMA NextMoves ==
    ASSUME StackInv, TasksOK, MessagesOK, NoSecondMessage, nestableAllowed \in BOOLEAN, Next
    PROVE  StackMoves /\ UNCHANGED pump
<1>1. UNCHANGED pump
  BY DEF Next, ThreadStep, LoopStep, WindowStep, IOStep, Returns, Closes, Program, PosterStep,
         Post, Completion, Clock
<1> SUFFICES StackMoves
  BY <1>1
<1>2. CASE ThreadStep
  <2>1. CASE LoopStep
    BY <2>1, LoopMoves
  <2>2. CASE PeekNext
    BY <2>2, PeekNextMoves
  <2>3. CASE PeekReplacement
    BY <2>3, PeekReplacementMoves DEF NoSecondMessage, PeekReplacement
  <2>4. CASE ExchangeHaveWork
    BY <2>4, ExchangeMoves
  <2>5. CASE DispatchReplacement
    BY <2>5, DispatchReplacementMoves
  <2>6. CASE UIStageDone \/ UIWaitReturns
    BY <2>6, UIStageMoves, UIWaitMoves
  <2>7. CASE UIDispatch \/ EmbedDispatch
    BY <2>7, DispatchMoves DEF UIDispatch, EmbedDispatch
  <2>8. CASE WorkMessageOutsideRun
    BY <2>8, WorkOutsideMoves
  <2>9. CASE WorkMessageEnds \/ TimerMessageEnds \/ WaitForIOEnds
    BY <2>9, MessageEndsMoves
  <2>10. CASE EmbedWorkMessage
    BY <2>10, EmbedWorkMoves
  <2>11. CASE TakeSavedItem \/ GetIOItem \/ NoIOItem
    BY <2>11, TakeSavedMoves, GetItemMoves, NoItemMoves
  <2>12. CASE ProcessInternalIOItem \/ IOStageDone
    BY <2>12, InternalMoves, IOStageMoves
  <2> QED
    BY <1>2, <2>1, <2>2, <2>3, <2>4, <2>5, <2>6, <2>7, <2>8, <2>9, <2>10, <2>11, <2>12
       DEF ThreadStep, WindowStep, IOStep
<1>3. CASE Returns \/ Closes
  BY <1>3, FinishMoves, CloseModalMoves DEF Returns, Closes
<1>4. CASE Program
  <2>1. CASE OwnThreadPost
    BY <2>1 DEF OwnThreadPost, StackMoves, Keeps
  <2>2. CASE Quit
    BY <2>2, QuitMoves DEF StackMoves
  <2>3. CASE UIRun \/ IORun
    BY <2>3, RunMoves
  <2>4. CASE UIRunNested
    BY <2>4, RunNestedMoves
  <2>5. CASE OpenModal
    BY <2>5, OpenModalMoves
  <2>6. CASE WaitForIOCompletion
    BY <2>6, WaitMoves
  <2>7. CASE UserInput \/ EmbedQuit \/ \E h \in Handlers : HandlerGone(h)
    BY <2>7 DEF UserInput, EmbedQuit, HandlerGone, StackMoves, Keeps
  <2> QED
    BY <1>4, <2>1, <2>2, <2>3, <2>4, <2>5, <2>6, <2>7 DEF Program
<1>5. CASE Clock \/ \E o \in Operations : Completion(o)
  BY <1>5 DEF Clock, Tick, Completion, CompleteIO, StackMoves, Keeps
<1>6. CASE \E p \in Posters : PosterStep(p) \/ Post(p)
  BY <1>6 DEF PosterStep, Post, PosterExchanges, PosterPosts, PosterPushes, StackMoves, Keeps
<1> QED
  BY <1>1, <1>2, <1>3, <1>4, <1>5, <1>6 DEF Next
-----------------------------------------------------------------------------
(* The flag have_work_: at most one message stands for it, in one place.   *)
QueuedIn(q) == \E i \in DOMAIN q : q[i] = HaveWork
OnceIn(q) == \A i, j \in DOMAIN q : q[i] = HaveWork /\ q[j] = HaveWork => i = j
Posted == \E p \in Posters : posting[p] = "post"

HaveWorkInv ==
    /\ OnceIn(queue)
    /\ \A p, r \in Posters : posting[p] = "post" /\ posting[r] = "post" => p = r
    /\ ~(QueuedIn(queue) /\ Posted)
    /\ ~(QueuedIn(queue) /\ MustReset(frames))
    /\ ~(Posted /\ MustReset(frames))
    /\ haveWork <=> QueuedIn(queue) \/ Posted \/ MustReset(frames)

LEMMA MessagePosted ==
    ASSUME NEW S, NEW q \in Seq(S), NEW x \in S
    PROVE  /\ x # HaveWork => /\ QueuedIn(Append(q, x)) <=> QueuedIn(q)
                              /\ OnceIn(q) => OnceIn(Append(q, x))
           /\ x = HaveWork => QueuedIn(Append(q, x))
           /\ x = HaveWork /\ ~QueuedIn(q) => OnceIn(Append(q, x))
<1> DEFINE r == Append(q, x)
<1>1. /\ Len(q) \in Nat /\ DOMAIN q = 1 .. Len(q) /\ DOMAIN r = 1 .. Len(q) + 1
      /\ r[Len(q) + 1] = x /\ \A i \in 1 .. Len(q) : r[i] = q[i]
  OBVIOUS
<1> HIDE DEF r
<1>2. QueuedIn(q) => QueuedIn(r)
  BY <1>1 DEF QueuedIn
<1>3. x = HaveWork => QueuedIn(r)
  BY <1>1 DEF QueuedIn
<1>4. QueuedIn(r) /\ x # HaveWork => QueuedIn(q)
  BY <1>1 DEF QueuedIn
<1>5. OnceIn(q) /\ x # HaveWork => OnceIn(r)
  BY <1>1 DEF OnceIn
<1>6. ~QueuedIn(q) => OnceIn(r)
  BY <1>1 DEF OnceIn, QueuedIn
<1> QED
  BY <1>2, <1>3, <1>4, <1>5, <1>6 DEF r

LEMMA MessageTaken ==
    ASSUME NEW S, NEW q \in Seq(S), q # <<>>
    PROVE  /\ Head(q) # HaveWork => QueuedIn(Tail(q)) <=> QueuedIn(q)
           /\ OnceIn(q) => OnceIn(Tail(q))
           /\ Head(q) = HaveWork => QueuedIn(q)
           /\ Head(q) = HaveWork /\ OnceIn(q) => ~QueuedIn(Tail(q))
<1> DEFINE r == Tail(q)
<1>1. /\ Len(q) \in Nat \ {0} /\ DOMAIN q = 1 .. Len(q) /\ DOMAIN r = 1 .. Len(q) - 1
      /\ Head(q) = q[1] /\ \A i \in 1 .. Len(q) - 1 : r[i] = q[i + 1]
  OBVIOUS
<1> HIDE DEF r
<1>2. ASSUME NEW i \in DOMAIN q, i # 1
      PROVE  i - 1 \in DOMAIN r /\ r[i - 1] = q[i]
  BY <1>1, <1>2
<1>3. QueuedIn(r) => QueuedIn(q)
  BY <1>1 DEF QueuedIn
<1>4. ASSUME QueuedIn(q), Head(q) # HaveWork
      PROVE  QueuedIn(r)
  <2>1. PICK i \in DOMAIN q : q[i] = HaveWork
    BY <1>4 DEF QueuedIn
  <2>2. i # 1
    BY <1>1, <1>4, <2>1
  <2> QED
    BY <1>2, <2>1, <2>2 DEF QueuedIn
<1>5. OnceIn(q) => OnceIn(r)
  BY <1>1 DEF OnceIn
<1>6. Head(q) = HaveWork => QueuedIn(q)
  BY <1>1 DEF QueuedIn
<1>7. Head(q) = HaveWork /\ OnceIn(q) => ~QueuedIn(r)
  BY <1>1 DEF OnceIn, QueuedIn
<1> QED
  BY <1>3, <1>4, <1>5, <1>6, <1>7 DEF r

(* The kinds of steps, by what they do to the flag and its message: none   *)
(* or a message that is no concern of it, ScheduleWork on the loop's own   *)
(* thread, the message taken out, the flag reset, and a poster's two steps. *)
SameQueue == \/ UNCHANGED queue
             \/ \E x \in Messages : x # HaveWork /\ queue' = Append(queue, x)
             \/ queue # <<>> /\ Head(queue) # HaveWork /\ queue' = Tail(queue)
SamePosters == \A p \in Posters : posting'[p] = "post" <=> posting[p] = "post"
SameFrames == MustReset(frames') <=> MustReset(frames)

FlagAlone == UNCHANGED haveWork /\ SameQueue /\ SamePosters /\ SameFrames
FlagSet == ScheduleWork /\ SamePosters /\ ~MustReset(frames) /\ ~MustReset(frames')
FlagTaken == /\ queue # <<>> /\ Head(queue) = HaveWork /\ queue' = Tail(queue)
             /\ UNCHANGED haveWork /\ SamePosters /\ ~MustReset(frames) /\ MustReset(frames')
FlagReset == /\ haveWork' = FALSE /\ UNCHANGED queue /\ SamePosters
             /\ MustReset(frames) /\ ~MustReset(frames')
FlagPost(p) == PosterExchanges(p) \/ PosterPosts(p)
FlagMoves == \/ FlagAlone \/ FlagSet \/ FlagTaken \/ FlagReset
             \/ \E p \in Posters : FlagPost(p)

LEMMA AloneKeepsFlag ==
    ASSUME HaveWorkInv, queue \in Seq(Messages), FlagAlone
    PROVE  HaveWorkInv'
<1>1. /\ QueuedIn(queue') <=> QueuedIn(queue)
      /\ OnceIn(queue')
  <2>1. CASE UNCHANGED queue
    BY <2>1 DEF HaveWorkInv
  <2>2. CASE \E x \in Messages : x # HaveWork /\ queue' = Append(queue, x)
    BY <2>2, MessagePosted DEF HaveWorkInv
  <2>3. CASE queue # <<>> /\ Head(queue) # HaveWork /\ queue' = Tail(queue)
    BY <2>3, MessageTaken DEF HaveWorkInv
  <2> QED
    BY <2>1, <2>2, <2>3 DEF FlagAlone, SameQueue
<1>2. Posted' <=> Posted
  BY DEF FlagAlone, SamePosters, Posted
<1>3. \A p, r \in Posters : posting'[p] = "post" /\ posting'[r] = "post" => p = r
  BY DEF FlagAlone, SamePosters, HaveWorkInv
<1> QED
  BY <1>1, <1>2, <1>3 DEF FlagAlone, SameFrames, HaveWorkInv

LEMMA SetKeepsFlag ==
    ASSUME HaveWorkInv, queue \in Seq(Messages), FlagSet
    PROVE  HaveWorkInv'
<1>1. Posted' <=> Posted
  BY DEF FlagSet, SamePosters, Posted
<1>2. \A p, r \in Posters : posting'[p] = "post" /\ posting'[r] = "post" => p = r
  BY DEF FlagSet, SamePosters, HaveWorkInv
<1>3. CASE haveWork
  BY <1>1, <1>2, <1>3 DEF FlagSet, ScheduleWork, HaveWorkInv
<1>4. CASE ~haveWork
  <2>1. HaveWork \in Messages
    BY DEF Messages
  <2>2. ~QueuedIn(queue) /\ ~Posted
    BY <1>4 DEF HaveWorkInv
  <2>3. queue' = Append(queue, HaveWork) /\ haveWork'
    BY <1>4 DEF FlagSet, ScheduleWork
  <2>4. QueuedIn(queue') /\ OnceIn(queue')
    BY <2>1, <2>2, <2>3, MessagePosted
  <2> QED
    BY <1>1, <1>2, <2>2, <2>3, <2>4 DEF FlagSet, HaveWorkInv
<1> QED
  BY <1>3, <1>4

LEMMA TakenKeepsFlag ==
    ASSUME HaveWorkInv, queue \in Seq(Messages), FlagTaken
    PROVE  HaveWorkInv'
<1>1. Posted' <=> Posted
  BY DEF FlagTaken, SamePosters, Posted
<1>2. \A p, r \in Posters : posting'[p] = "post" /\ posting'[r] = "post" => p = r
  BY DEF FlagTaken, SamePosters, HaveWorkInv
<1>3. QueuedIn(queue) /\ ~QueuedIn(queue') /\ OnceIn(queue')
  BY MessageTaken DEF FlagTaken, HaveWorkInv
<1> QED
  BY <1>1, <1>2, <1>3 DEF FlagTaken, HaveWorkInv

LEMMA ResetKeepsFlag ==
    ASSUME HaveWorkInv, FlagReset
    PROVE  HaveWorkInv'
<1>1. Posted' <=> Posted
  BY DEF FlagReset, SamePosters, Posted
<1>2. \A p, r \in Posters : posting'[p] = "post" /\ posting'[r] = "post" => p = r
  BY DEF FlagReset, SamePosters, HaveWorkInv
<1> QED
  BY <1>1, <1>2 DEF FlagReset, HaveWorkInv

LEMMA PostKeepsFlag ==
    ASSUME HaveWorkInv, queue \in Seq(Messages), NEW p \in Posters,
           posting \in [Posters -> {"idle", "exchange", "post"}], FlagPost(p)
    PROVE  HaveWorkInv'
<1>1. CASE PosterExchanges(p)
  <2>1. UNCHANGED <<queue, frames>> /\ haveWork'
    BY <1>1 DEF PosterExchanges
  <2>2. posting' = [posting EXCEPT ![p] = IF haveWork THEN "idle" ELSE "post"] /\ posting[p] = "exchange"
    BY <1>1 DEF PosterExchanges
  <2>3. CASE haveWork
    <3>1. \A r \in Posters : posting'[r] = "post" <=> posting[r] = "post"
      BY <2>2, <2>3
    <3>2. Posted' <=> Posted
      BY <3>1 DEF Posted
    <3> QED
      BY <2>1, <2>3, <3>1, <3>2 DEF HaveWorkInv
  <2>4. CASE ~haveWork
    <3>1. ~QueuedIn(queue) /\ ~Posted /\ ~MustReset(frames)
      BY <2>4 DEF HaveWorkInv
    <3>2. posting'[p] = "post" /\ \A r \in Posters : posting'[r] = "post" => r = p
      BY <2>2, <2>4, <3>1 DEF Posted
    <3>3. Posted'
      BY <3>2 DEF Posted
    <3> QED
      BY <2>1, <3>1, <3>2, <3>3 DEF HaveWorkInv
  <2> QED
    BY <2>3, <2>4
<1>2. CASE PosterPosts(p)
  <2>1. /\ posting[p] = "post" /\ posting' = [posting EXCEPT ![p] = "idle"]
        /\ queue' = Append(queue, HaveWork) /\ UNCHANGED <<haveWork, frames>>
    BY <1>2 DEF PosterPosts
  <2>2. Posted
    BY <2>1 DEF Posted
  <2>3. ~QueuedIn(queue) /\ ~MustReset(frames) /\ haveWork
    BY <2>2 DEF HaveWorkInv
  <2>4. \A r \in Posters : posting'[r] # "post"
    BY <2>1 DEF HaveWorkInv
  <2>5. ~Posted'
    BY <2>4 DEF Posted
  <2>6. HaveWork \in Messages
    BY DEF Messages
  <2>7. QueuedIn(queue') /\ OnceIn(queue')
    BY <2>1, <2>3, <2>6, MessagePosted
  <2> QED
    BY <2>1, <2>3, <2>4, <2>5, <2>7 DEF HaveWorkInv
<1> QED
  BY <1>1, <1>2 DEF FlagPost

LEMMA MovesKeepFlag ==
    ASSUME HaveWorkInv, queue \in Seq(Messages),
           posting \in [Posters -> {"idle", "exchange", "post"}], FlagMoves
    PROVE  HaveWorkInv'
BY AloneKeepsFlag, SetKeepsFlag, TakenKeepsFlag, ResetKeepsFlag, PostKeepsFlag DEF FlagMoves

LEMMA PeekedHaveWork ==
    /\ Peeked = HaveWork <=> queue # <<>> /\ Head(queue) = HaveWork
    /\ queue = <<>> => Peeked # HaveWork
BY DEF Peeked, HaveWork, WmTimer, None

(* A message that is peeked and is not the pump's, and one that is.        *)
LEMMA PeekedFlag ==
    ASSUME RemovePeeked, UNCHANGED <<haveWork, posting>>, ~MustReset(frames),
           MustReset(frames') <=> Peeked = HaveWork
    PROVE  FlagAlone \/ FlagTaken
<1>1. SamePosters
  BY DEF SamePosters
<1>2. CASE Peeked = HaveWork
  <2>1. queue # <<>> /\ Head(queue) = HaveWork /\ queue' = Tail(queue)
    BY <1>2, PeekedHaveWork DEF RemovePeeked
  <2> QED
    BY <1>1, <1>2, <2>1 DEF FlagTaken
<1>3. CASE Peeked # HaveWork
  <2>1. SameQueue
    BY <1>3, PeekedHaveWork DEF RemovePeeked, SameQueue
  <2> QED
    BY <1>1, <1>3, <2>1 DEF FlagAlone, SameFrames
<1> QED
  BY <1>2, <1>3

(* The posters other than p, which only begins a post.                     *)
LEMMA NextFlagMoves ==
    ASSUME StackInv, TasksOK, MessagesOK, NoSecondMessage, nestableAllowed \in BOOLEAN,
           posting \in [Posters -> {"idle", "exchange", "post"}], Next
    PROVE  FlagMoves
<1>1. ASSUME UNCHANGED <<haveWork, queue, posting>>, MustReset(frames') <=> MustReset(frames)
      PROVE  FlagMoves
  BY <1>1 DEF FlagMoves, FlagAlone, SameQueue, SamePosters, SameFrames
<1>2. ASSUME ScheduleWork \/ UNCHANGED scheduleVars, UNCHANGED posting,
             ~MustReset(frames), ~MustReset(frames')
      PROVE  FlagMoves
  <2>1. SamePosters
    BY <1>2 DEF SamePosters
  <2>2. CASE ScheduleWork
    BY <1>2, <2>1, <2>2 DEF FlagMoves, FlagSet
  <2>3. CASE UNCHANGED scheduleVars
    BY <1>1, <1>2, <2>3 DEF scheduleVars
  <2> QED
    BY <1>2, <2>2, <2>3
<1>3. ASSUME haveWork' = FALSE, UNCHANGED <<queue, posting>>, MustReset(frames), ~MustReset(frames')
      PROVE  FlagMoves
  BY <1>3 DEF FlagMoves, FlagReset, SamePosters
<1>4. CASE ThreadStep
  <2>1. CASE LoopStep
    <3>1. UNCHANGED <<haveWork, queue, posting>>
      BY <2>1 DEF LoopStep, DoWorkFindsNothing, DoWorkTakesTask, DoIdleWork,
                  DoDelayedWorkFindsNothing, DoDelayedWorkTakesTask, scheduleVars
    <3> QED
      BY <1>1, <2>1, <3>1, LoopMoves
  <2>2. CASE PeekNext
    BY <2>2, PeekNextMoves, PeekedFlag DEF PeekNext, FlagMoves
  <2>3. CASE PeekReplacement
    <3>1. Peeked # HaveWork /\ RemovePeeked /\ UNCHANGED <<haveWork, posting>>
      BY <2>3 DEF PeekReplacement, NoSecondMessage
    <3>2. MustReset(frames) /\ MustReset(frames')
      BY <2>3, <3>1, PeekReplacementMoves
    <3>3. SameQueue
      BY <3>1, PeekedHaveWork DEF RemovePeeked, SameQueue
    <3> QED
      BY <3>1, <3>2, <3>3 DEF FlagMoves, FlagAlone, SamePosters, SameFrames
  <2>4. CASE ExchangeHaveWork
    BY <1>3, <2>4, ExchangeMoves DEF ExchangeHaveWork
  <2>5. CASE DispatchReplacement
    BY <1>2, <2>5, DispatchReplacementMoves DEF DispatchReplacement
  <2>6. CASE UIStageDone \/ UIWaitReturns
    <3>1. UNCHANGED <<haveWork, queue, posting>>
      BY <2>6 DEF UIStageDone, UIWaitReturns, scheduleVars
    <3> QED
      BY <1>1, <2>6, <3>1, UIStageMoves, UIWaitMoves
  <2>7. CASE UIDispatch \/ EmbedDispatch
    <3>1. PICK active : DispatchInModal(active) /\ pump \in {"UI", "Embed"}
      BY <2>7 DEF UIDispatch, EmbedDispatch
    <3>2. ~MustReset(frames) /\ (MustReset(frames') <=> Peeked = HaveWork)
      BY <3>1, DispatchMoves
    <3> QED
      BY <3>1, <3>2, PeekedFlag DEF DispatchInModal, FlagMoves
  <2>8. CASE WorkMessageOutsideRun
    BY <1>3, <2>8, WorkOutsideMoves DEF WorkMessageOutsideRun
  <2>9. CASE WorkMessageEnds \/ TimerMessageEnds \/ WaitForIOEnds
    <3>1. (ScheduleWork \/ UNCHANGED scheduleVars) /\ UNCHANGED posting
      BY <2>9 DEF WorkMessageEnds, TimerMessageEnds, WaitForIOEnds
    <3> QED
      BY <1>2, <2>9, <3>1, MessageEndsMoves
  <2>10. CASE EmbedWorkMessage
    BY <1>3, <2>10, EmbedWorkMoves DEF EmbedWorkMessage
  <2>11. CASE TakeSavedItem \/ NoIOItem \/ IOStageDone
    <3>1. UNCHANGED <<haveWork, queue, posting>>
      BY <2>11 DEF TakeSavedItem, NoIOItem, IOStageDone, scheduleVars
    <3> QED
      BY <1>1, <2>11, <3>1, TakeSavedMoves, NoItemMoves, IOStageMoves
  <2>12. CASE GetIOItem
    <3>1. queue # <<>> /\ queue' = Tail(queue) /\ UNCHANGED <<haveWork, posting>>
      BY <2>12 DEF GetIOItem
    <3>2. ~MustReset(frames) /\ (MustReset(frames') <=> Head(queue) = HaveWork)
      BY <2>12, GetItemMoves
    <3> QED
      BY <3>1, <3>2 DEF FlagMoves, FlagAlone, FlagTaken, SameQueue, SamePosters, SameFrames
  <2>13. CASE ProcessInternalIOItem
    BY <1>3, <2>13, InternalMoves DEF ProcessInternalIOItem, HaveWorkAfterItem
  <2> QED
    BY <1>4, <2>1, <2>2, <2>3, <2>4, <2>5, <2>6, <2>7, <2>8, <2>9, <2>10, <2>11, <2>12, <2>13
       DEF ThreadStep, WindowStep, IOStep
<1>5. CASE Returns \/ Closes
  <2>1. UNCHANGED <<haveWork, queue, posting>>
    BY <1>5 DEF Returns, Closes, Finish, CloseModal, scheduleVars
  <2> QED
    BY <1>1, <1>5, <2>1, FinishMoves, CloseModalMoves DEF Returns, Closes
<1>6. CASE Program
  <2>1. CASE OwnThreadPost
    <3>1. /\ frames = <<>> \/ (frames # <<>> /\ Top.pc = "Program")
          /\ UNCHANGED <<frames, posting>>
          /\ ScheduleWork \/ UNCHANGED scheduleVars
      BY <2>1 DEF OwnThreadPost, InProgram, At
    <3>2. ~MustReset(frames) /\ ~MustReset(frames')
      BY <2>1, <3>1 DEF OwnThreadPost, MustReset, Top, ResetPcs
    <3> QED
      BY <1>2, <2>1, <3>1, <3>2 DEF OwnThreadPost
  <2>2. CASE Quit
    BY <1>1, <2>2, QuitMoves DEF Quit, scheduleVars
  <2>3. CASE UIRun \/ IORun
    <3>1. UNCHANGED <<haveWork, queue, posting>>
      BY <2>3 DEF UIRun, IORun, scheduleVars
    <3> QED
      BY <1>1, <2>3, <3>1, RunMoves
  <2>4. CASE UIRunNested
    BY <1>2, <2>4, RunNestedMoves DEF UIRunNested, EnterNested
  <2>5. CASE OpenModal
    <3>1. (ScheduleWork \/ UNCHANGED scheduleVars) /\ UNCHANGED posting
      BY <2>5 DEF OpenModal, EnterNested
    <3> QED
      BY <1>2, <2>5, <3>1, OpenModalMoves
  <2>6. CASE WaitForIOCompletion
    BY <1>1, <2>6, WaitMoves DEF WaitForIOCompletion, scheduleVars
  <2>7. CASE EmbedQuit \/ \E h \in Handlers : HandlerGone(h)
    BY <1>1, <2>7 DEF EmbedQuit, HandlerGone, scheduleVars, MustReset
  <2>8. CASE UserInput
    <3>1. Input \in Messages /\ Input # HaveWork
      BY DEF Messages, Input, HaveWork
    <3> QED
      BY <2>8, <3>1 DEF UserInput, FlagMoves, FlagAlone, SameQueue, SamePosters, SameFrames, MustReset
  <2> QED
    BY <1>6, <2>1, <2>2, <2>3, <2>4, <2>5, <2>6, <2>7, <2>8 DEF Program
<1>7. CASE Clock
  BY <1>1, <1>7 DEF Clock, Tick, scheduleVars, MustReset
<1>8. CASE \E o \in Operations : Completion(o)
  <2>1. PICK o \in Operations : CompleteIO(o)
    BY <1>8 DEF Completion
  <2>2. o \in Messages /\ o # HaveWork
    BY IOAssumption DEF Messages
  <2> QED
    BY <2>1, <2>2 DEF CompleteIO, FlagMoves, FlagAlone, SameQueue, SamePosters, SameFrames, MustReset
<1>9. CASE \E p \in Posters : PosterStep(p) \/ Post(p)
  <2>1. PICK p \in Posters : FlagPost(p) \/ PosterPushes(p)
    BY <1>9 DEF PosterStep, Post, FlagPost
  <2>2. CASE PosterPushes(p)
    <3>1. SamePosters
      BY <2>2 DEF PosterPushes, SamePosters
    <3> QED
      BY <2>2, <3>1 DEF PosterPushes, scheduleVars, FlagMoves, FlagAlone, SameQueue, SameFrames, MustReset
  <2> QED
    BY <2>1, <2>2 DEF FlagMoves
<1> QED
  BY <1>4, <1>5, <1>6, <1>7, <1>8, <1>9 DEF Next

-----------------------------------------------------------------------------
(* Types.  What is in the queue depends on the pump; operations are only   *)
(* there for the one that has a completion port.                           *)
MessagesInv ==
    /\ pump = "IO" => clicks = 0 /\ queue \in Seq({HaveWork} \cup Operations)
    /\ pump # "IO" => queue \in Seq({HaveWork, Input}) /\ \A o \in Operations : state[o] = "unused"
TypeInv == TypeOK /\ MessagesInv

(* ScheduleWork, the peek of a message and a delayed work time.            *)
LEMMA ScheduleTypes ==
    ASSUME TypeInv, ScheduleWork \/ UNCHANGED scheduleVars, UNCHANGED <<pump, clicks, state>>
    PROVE  haveWork' \in BOOLEAN /\ queue' \in Seq(Messages) /\ MessagesInv'
<1>1. \A S : HaveWork \in S => \A s \in Seq(S) : Append(s, HaveWork) \in Seq(S)
  OBVIOUS
<1>2. queue' = queue \/ queue' = Append(queue, HaveWork)
  BY DEF ScheduleWork, scheduleVars
<1>3. haveWork' \in BOOLEAN
  BY DEF ScheduleWork, scheduleVars, TypeInv, TypeOK
<1>4. queue' \in Seq(Messages)
  BY <1>1, <1>2 DEF Messages, TypeInv, TypeOK
<1>5. pump = "IO" => queue' \in Seq({HaveWork} \cup Operations)
  BY <1>1, <1>2 DEF MessagesInv, TypeInv
<1>6. pump # "IO" => queue' \in Seq({HaveWork, Input})
  BY <1>1, <1>2 DEF MessagesInv, TypeInv
<1> QED
  BY <1>3, <1>4, <1>5, <1>6 DEF MessagesInv, TypeInv

LEMMA PeekTypes ==
    ASSUME TypeInv, RemovePeeked \/ (queue # <<>> /\ queue' = Tail(queue))
    PROVE  /\ queue' \in Seq(Messages)
           /\ pump = "IO" => queue' \in Seq({HaveWork} \cup Operations)
           /\ pump # "IO" => queue' \in Seq({HaveWork, Input})
<1>1. UNCHANGED queue \/ (queue # <<>> /\ queue' = Tail(queue))
  BY DEF RemovePeeked
<1>2. \A S : \A s \in Seq(S) : s # <<>> => Tail(s) \in Seq(S)
  OBVIOUS
<1>3. queue' \in Seq(Messages)
  BY <1>1, <1>2 DEF TypeInv, TypeOK
<1>4. pump = "IO" => queue' \in Seq({HaveWork} \cup Operations)
  BY <1>1, <1>2 DEF MessagesInv, TypeInv
<1>5. pump # "IO" => queue' \in Seq({HaveWork, Input})
  BY <1>1, <1>2 DEF MessagesInv, TypeInv
<1> QED
  BY <1>3, <1>4, <1>5

LEMMA KilledTypes ==
    ASSUME TypeOK, NEW message, wmTimer' = KilledBy(message)
    PROVE  wmTimer' \in 0 .. MaxTime + 2
BY WinMessageLoopAssumption DEF TypeOK, KilledBy, Null

LEMMA TimeTypes ==
    ASSUME TypeOK, NEW time \in 0 .. MaxTime, ScheduleDelayedWork(time)
    PROVE  delayedWorkTime' \in 0 .. MaxTime /\ wmTimer' \in 0 .. MaxTime + 2
BY WinMessageLoopAssumption DEF TypeOK, ScheduleDelayedWork

LEMMA DelayedTypes ==
    ASSUME TypeOK, NEW s \in Seq(Tasks), s # <<>>
    PROVE  Earliest(s) \in Tasks /\ runTime[Earliest(s)] \in 0 .. MaxTime
           /\ EarliestIndex(s) \in DOMAIN s
<1>1. runTime \in [Tasks -> Nat]
  BY WinMessageLoopAssumption DEF TypeOK
<1>2. Earliest(s) \in Tasks /\ EarliestIndex(s) \in DOMAIN s
  BY <1>1, EarliestIsFirst
<1> QED
  BY <1>2 DEF TypeOK

(* What is left when an element is taken out.                              *)
LEMMA RemovedAt ==
    ASSUME NEW S, NEW s \in Seq(S), NEW k \in DOMAIN s
    PROVE  /\ RemoveAt(s, k) \in Seq(S) /\ Len(RemoveAt(s, k)) = Len(s) - 1
           /\ \A l \in 1 .. Len(s) - 1 : RemoveAt(s, k)[l] = IF l < k THEN s[l] ELSE s[l + 1]
           /\ ToSet(RemoveAt(s, k)) \subseteq ToSet(s)
<1> DEFINE left == SubSeq(s, 1, k - 1)
           right == SubSeq(s, k + 1, Len(s))
           r == left \o right
<1>1. Len(s) \in Nat /\ DOMAIN s = 1 .. Len(s) /\ k \in 1 .. Len(s)
  OBVIOUS
<1>2. left \in Seq(S) /\ Len(left) = k - 1 /\ \A l \in 1 .. k - 1 : left[l] = s[l]
  BY <1>1
<1>3. right \in Seq(S) /\ Len(right) = Len(s) - k /\ \A l \in 1 .. Len(s) - k : right[l] = s[k + l]
  BY <1>1
<1> HIDE DEF left, right
<1>4. /\ r \in Seq(S) /\ Len(r) = Len(left) + Len(right)
      /\ \A l \in 1 .. Len(left) + Len(right) :
           r[l] = IF l <= Len(left) THEN left[l] ELSE right[l - Len(left)]
  BY <1>2, <1>3, ConcatProperties, ZenonT(30)
<1> HIDE DEF r
<1>5. Len(r) = Len(s) - 1 /\ Len(left) + Len(right) = Len(s) - 1 /\ Len(left) = k - 1
  BY <1>1, <1>2, <1>3, <1>4
<1>6. ASSUME NEW l \in 1 .. Len(s) - 1
      PROVE  r[l] = IF l < k THEN s[l] ELSE s[l + 1]
  <2>1. r[l] = IF l <= k - 1 THEN left[l] ELSE right[l - (k - 1)]
    BY <1>4, <1>5
  <2>2. CASE l < k
    BY <1>1, <1>2, <2>1, <2>2
  <2>3. CASE ~(l < k)
    <3>1. l - (k - 1) \in 1 .. Len(s) - k /\ k + (l - (k - 1)) = l + 1 /\ ~(l <= k - 1)
      BY <1>1, <2>3
    <3> QED
      BY <1>3, <2>1, <2>3, <3>1
  <2> QED
    BY <2>2, <2>3
<1>7. RemoveAt(s, k) = r
  BY DEF RemoveAt, r, left, right
<1>8. ToSet(r) \subseteq ToSet(s)
  <2>1. DOMAIN r = 1 .. Len(s) - 1
    BY <1>4, <1>5
  <2>2. ASSUME NEW l \in 1 .. Len(s) - 1
        PROVE  r[l] \in {s[i] : i \in DOMAIN s}
    <3>1. l \in DOMAIN s /\ l + 1 \in DOMAIN s
      BY <1>1
    <3> QED
      BY <1>6, <3>1
  <2> QED
    BY <2>1, <2>2 DEF ToSet
<1> QED
  BY <1>4, <1>5, <1>6, <1>7, <1>8

LEMMA LoopTypes ==
    ASSUME TypeInv, LoopStep
    PROVE  TypeInv'
<1>1. MessagesInv' /\ UNCHANGED <<queue, haveWork, now, posting, pump, started, clicks, completedIo, state, handler, runTime>>
  BY DEF LoopStep, DoWorkFindsNothing, DoWorkTakesTask, DoIdleWork, DoDelayedWorkFindsNothing,
         DoDelayedWorkTakesTask, MessagesInv, TypeInv, scheduleVars, ioVars, taskVars
<1>2. ASSUME incoming' \in Seq(Tasks), work' \in Seq(Tasks), delayed' \in Seq(Tasks),
             status' \in [Tasks -> {"unused", "new", "queued", "running", "ran"}],
             nestableAllowed' \in BOOLEAN, delayedWorkTime' \in 0 .. MaxTime,
             wmTimer' \in 0 .. MaxTime + 2
      PROVE  TypeInv'
  BY <1>1, <1>2 DEF TypeInv, TypeOK, Messages
<1>3. CASE DoWorkFindsNothing \/ DoIdleWork
  BY <1>2, <1>3 DEF DoWorkFindsNothing, DoIdleWork, TypeInv, TypeOK, taskVars, timeVars
<1>4. CASE DoDelayedWorkFindsNothing
  <2>1. delayedWorkTime' \in 0 .. MaxTime
    BY <1>4, DelayedTypes, WinMessageLoopAssumption DEF DoDelayedWorkFindsNothing, TypeInv, TypeOK, Null
  <2> QED
    BY <1>2, <1>4, <2>1 DEF DoDelayedWorkFindsNothing, TypeInv, TypeOK, taskVars
<1>5. CASE DoWorkTakesTask
  <2> DEFINE t == Head(Reloaded.work)
  <2>1. /\ t \in Tasks /\ incoming' \in Seq(Tasks) /\ work' \in Seq(Tasks)
    BY <1>5 DEF DoWorkTakesTask, Reloaded, TypeInv, TypeOK
  <2> HIDE DEF t
  <2>2. CASE RunTask(t) /\ UNCHANGED <<delayed, timeVars>>
    BY <1>2, <2>1, <2>2 DEF RunTask, TypeInv, TypeOK, timeVars
  <2>3. CASE /\ delayed' = Append(delayed, t)
             /\ IF Closure[Earliest(delayed')] = Closure[t]
                THEN ScheduleDelayedWork(runTime[t]) ELSE UNCHANGED timeVars
             /\ UNCHANGED <<nestableAllowed, status, frames>>
    <3>1. delayed' \in Seq(Tasks) /\ runTime[t] \in 0 .. MaxTime
      BY <2>1, <2>3 DEF TypeInv, TypeOK
    <3>2. delayedWorkTime' \in 0 .. MaxTime /\ wmTimer' \in 0 .. MaxTime + 2
      BY <2>3, <3>1, TimeTypes DEF TypeInv, TypeOK, timeVars
    <3> QED
      BY <1>2, <2>1, <2>3, <3>1, <3>2 DEF TypeInv, TypeOK
  <2> QED
    BY <1>5, <2>2, <2>3 DEF DoWorkTakesTask, t
<1>6. CASE DoDelayedWorkTakesTask
  <2>1. delayed \in Seq(Tasks) /\ delayed # <<>>
    BY <1>6 DEF DoDelayedWorkTakesTask, TypeInv, TypeOK
  <2>2. Earliest(delayed) \in Tasks /\ EarliestIndex(delayed) \in DOMAIN delayed
    BY <2>1, DelayedTypes DEF TypeInv
  <2>3. delayed' \in Seq(Tasks)
    BY <1>6, <2>1, <2>2, RemovedAt DEF DoDelayedWorkTakesTask
  <2>4. delayedWorkTime' \in 0 .. MaxTime
    <3>1. CASE delayed' = <<>>
      BY <1>6, <3>1 DEF DoDelayedWorkTakesTask, TypeInv, TypeOK
    <3>2. CASE delayed' # <<>>
      <4> DEFINE s == RemoveAt(delayed, EarliestIndex(delayed))
      <4>1. s \in Seq(Tasks) /\ s # <<>> /\ delayedWorkTime' = runTime[Earliest(delayed')] /\ delayed' = s
        BY <1>6, <2>3, <3>2 DEF DoDelayedWorkTakesTask
      <4>2. runTime[Earliest(s)] \in 0 .. MaxTime
        <5> HIDE DEF s
        <5> QED
          BY <4>1, DelayedTypes DEF TypeInv
      <4> QED
        BY <4>1, <4>2
    <3> QED
      BY <3>1, <3>2
  <2>5. RunTask(Earliest(delayed)) /\ UNCHANGED <<incoming, work, wmTimer>>
    BY <1>6 DEF DoDelayedWorkTakesTask
  <2> QED
    BY <1>2, <2>2, <2>3, <2>4, <2>5 DEF RunTask, TypeInv, TypeOK
<1> QED
  BY <1>3, <1>4, <1>5, <1>6 DEF LoopStep

(* The item saved for a filter that is taken.                              *)
LEMMA FirstMatchIsFirst ==
    ASSUME completedIo \in Seq(Operations), NEW filter, Matches(filter) # {}
    PROVE  /\ FirstMatch(filter) \in DOMAIN completedIo
           /\ filter = NoHandler \/ HandlerOfIO[completedIo[FirstMatch(filter)]] = filter
           /\ \A j \in DOMAIN completedIo :
                filter = NoHandler \/ HandlerOfIO[completedIo[j]] = filter => FirstMatch(filter) <= j
<1> DEFINE T == Matches(filter)
<1>1. T \in SUBSET Nat /\ T # {}
  BY DEF Matches
<1>2. \E i \in T : \A j \in T : i <= j
  <2> HIDE DEF T
  <2> QED
    BY <1>1, LeastOf
<1>3. FirstMatch(filter) \in T /\ \A j \in T : FirstMatch(filter) <= j
  BY <1>2 DEF FirstMatch
<1> QED
  BY <1>3 DEF Matches

LEMMA WindowTypes ==
    ASSUME TypeInv, StackInv, WindowStep
    PROVE  TypeInv'
<1>1. /\ UNCHANGED <<pump, clicks, started, ioVars>>
      /\ UNCHANGED <<taskVars, now, posting>>
  <2>1. UNCHANGED <<pump, clicks, started, ioVars>>
    BY DEF WindowStep, EmbedDispatch, EmbedWorkMessage
  <2>2. UNCHANGED <<taskVars, now, posting>>
    BY DEF WindowStep, EmbedDispatch, EmbedWorkMessage, PeekNext, PeekReplacement,
           ExchangeHaveWork, DispatchReplacement, UIStageDone, UIWaitReturns, UIDispatch,
           DispatchInModal, WorkMessageOutsideRun, WorkMessageEnds, TimerMessageEnds
  <2> QED
    BY <2>1, <2>2
<1>2. ASSUME nestableAllowed' \in BOOLEAN, haveWork' \in BOOLEAN, queue' \in Seq(Messages),
             MessagesInv', delayedWorkTime' \in 0 .. MaxTime, wmTimer' \in 0 .. MaxTime + 2
      PROVE  TypeInv'
  BY <1>1, <1>2 DEF TypeInv, TypeOK, taskVars, ioVars, Messages
<1>3. /\ nestableAllowed \in BOOLEAN /\ haveWork \in BOOLEAN /\ queue \in Seq(Messages)
      /\ delayedWorkTime \in 0 .. MaxTime /\ wmTimer \in 0 .. MaxTime + 2 /\ MessagesInv
  BY DEF TypeInv, TypeOK
<1>4. UNCHANGED queue => MessagesInv'
  BY <1>1, <1>3 DEF MessagesInv, ioVars
<1>5. ASSUME RemovePeeked, NEW message, wmTimer' = KilledBy(message),
             UNCHANGED <<nestableAllowed, haveWork, delayedWorkTime>>
      PROVE  TypeInv'
  <2>1. queue' \in Seq(Messages) /\ MessagesInv'
    BY <1>1, <1>3, <1>5, PeekTypes DEF MessagesInv, ioVars
  <2>2. wmTimer' \in 0 .. MaxTime + 2
    BY <1>5, KilledTypes DEF TypeInv
  <2> QED
    BY <1>2, <1>3, <1>5, <2>1, <2>2
<1>6. ASSUME ScheduleWork \/ UNCHANGED scheduleVars, UNCHANGED <<nestableAllowed, timeVars>>
      PROVE  TypeInv'
  BY <1>1, <1>2, <1>3, <1>6, ScheduleTypes DEF timeVars, ioVars
<1>7. ASSUME haveWork' = FALSE, UNCHANGED <<nestableAllowed, queue, timeVars>>
      PROVE  TypeInv'
  BY <1>2, <1>3, <1>4, <1>7 DEF timeVars
<1>8. CASE PeekNext \/ PeekReplacement
  BY <1>5, <1>8 DEF PeekNext, PeekReplacement
<1>9. CASE ExchangeHaveWork \/ WorkMessageOutsideRun \/ EmbedWorkMessage
  BY <1>7, <1>9 DEF ExchangeHaveWork, WorkMessageOutsideRun, EmbedWorkMessage
<1>10. CASE DispatchReplacement \/ WorkMessageEnds \/ UIWaitReturns
  BY <1>6, <1>10 DEF DispatchReplacement, WorkMessageEnds, UIWaitReturns
<1>11. CASE UIDispatch \/ EmbedDispatch
  BY <1>5, <1>11 DEF UIDispatch, EmbedDispatch, DispatchInModal
<1>12. CASE UIStageDone
  <2>1. nestableAllowed' \in BOOLEAN
    <3>1. frames # <<>> /\ nestableAllowed' \in {Top.restore, nestableAllowed}
      BY <1>12 DEF UIStageDone, RunBreaks, RunGoesOn, Returned
    <3> QED
      BY <1>3, <3>1, TopFrame DEF FrameSet
  <2>2. wmTimer' \in 0 .. MaxTime + 2
    BY <1>3, <1>12, WinMessageLoopAssumption DEF UIStageDone, Null
  <2> QED
    BY <1>2, <1>3, <1>4, <1>12, <2>1, <2>2 DEF UIStageDone, scheduleVars
<1>13. CASE TimerMessageEnds
  <2>1. delayedWorkTime' \in 0 .. MaxTime /\ wmTimer' \in 0 .. MaxTime + 2
    BY <1>3, <1>13, TimeTypes DEF TimerMessageEnds, timeVars, TypeInv
  <2> QED
    BY <1>2, <1>3, <1>4, <1>13, <2>1 DEF TimerMessageEnds, scheduleVars
<1> QED
  BY <1>8, <1>9, <1>10, <1>11, <1>12, <1>13 DEF WindowStep

LEMMA IOTypes ==
    ASSUME TypeInv, StackInv, IOStep
    PROVE  TypeInv'
<1>1. /\ UNCHANGED <<pump, clicks, started>>
      /\ UNCHANGED <<taskVars, now, posting, timeVars, handler>>
  BY DEF IOStep, TakeSavedItem, GetIOItem, NoIOItem, ProcessInternalIOItem, IOStageDone,
         WaitForIOEnds, ioVars
<1>2. ASSUME nestableAllowed' \in BOOLEAN, haveWork' \in BOOLEAN, queue' \in Seq(Messages),
             MessagesInv', completedIo' \in Seq(Operations),
             state' \in [Operations -> {"unused", "pending", "completed", "saved", "done"}]
      PROVE  TypeInv'
  BY <1>1, <1>2 DEF TypeInv, TypeOK, taskVars, timeVars, Messages
<1>3. /\ nestableAllowed \in BOOLEAN /\ haveWork \in BOOLEAN /\ queue \in Seq(Messages)
      /\ completedIo \in Seq(Operations) /\ MessagesInv
      /\ state \in [Operations -> {"unused", "pending", "completed", "saved", "done"}]
  BY DEF TypeInv, TypeOK
<1>4. ASSUME UNCHANGED <<queue, state>>
      PROVE  MessagesInv'
  BY <1>1, <1>3, <1>4 DEF MessagesInv
<1>5. ASSUME NEW o \in Operations, NEW saved \in Seq(Operations), NEW filter, HandleItem(o, saved, filter)
      PROVE  completedIo' \in Seq(Operations)
             /\ state' \in [Operations -> {"unused", "pending", "completed", "saved", "done"}]
  <2>1. completedIo' = saved \/ completedIo' = Append(saved, o)
    BY <1>5 DEF HandleItem
  <2>2. state' = [state EXCEPT ![o] = "done"] \/ state' = [state EXCEPT ![o] = "saved"]
    BY <1>5 DEF HandleItem
  <2>3. completedIo' \in Seq(Operations)
    BY <1>5, <2>1
  <2>4. state' \in [Operations -> {"unused", "pending", "completed", "saved", "done"}]
    BY <1>3, <2>2
  <2> QED
    BY <2>3, <2>4
<1>6. CASE TakeSavedItem
  <2>1. PICK i \in DOMAIN completedIo : HandleItem(completedIo[i], RemoveAt(completedIo, i), Top.filter)
    BY <1>6, FirstMatchIsFirst DEF TakeSavedItem, TypeInv, TypeOK
  <2>2. completedIo[i] \in Operations /\ RemoveAt(completedIo, i) \in Seq(Operations)
    BY <1>3, <2>1, RemovedAt
  <2>3. pump = "IO"
    BY <1>6, WaitForIOPump DEF TakeSavedItem
  <2> QED
    <3>1. UNCHANGED <<nestableAllowed, haveWork, queue>>
      BY <1>6 DEF TakeSavedItem, scheduleVars
    <3>2. MessagesInv'
      BY <1>1, <1>3, <2>3, <3>1 DEF MessagesInv
    <3> QED
      BY <1>2, <1>3, <1>5, <2>1, <2>2, <3>1, <3>2
<1>7. CASE GetIOItem
  <2>1. pump = "IO" /\ queue # <<>> /\ queue' = Tail(queue) /\ UNCHANGED <<haveWork, nestableAllowed>>
    BY <1>7, WaitForIOPump DEF GetIOItem
  <2>2. queue' \in Seq(Messages) /\ MessagesInv'
    BY <1>1, <1>3, <2>1, PeekTypes DEF MessagesInv
  <2>3. CASE Head(queue) = HaveWork
    BY <1>2, <1>3, <1>7, <2>1, <2>2, <2>3 DEF GetIOItem
  <2>4. CASE Head(queue) # HaveWork
    <3>1. Head(queue) \in Operations
      BY <1>3, <2>1, <2>4 DEF MessagesInv
    <3>2. HandleItem(Head(queue), completedIo, Top.filter)
      BY <1>7, <2>4 DEF GetIOItem
    <3> QED
      BY <1>2, <1>3, <1>5, <2>1, <2>2, <3>1, <3>2
  <2> QED
    BY <2>3, <2>4
<1>8. CASE NoIOItem \/ WaitForIOEnds
  BY <1>2, <1>3, <1>4, <1>8 DEF NoIOItem, WaitForIOEnds, scheduleVars, ioVars
<1>9. CASE ProcessInternalIOItem
  BY <1>2, <1>3, <1>4, <1>9 DEF ProcessInternalIOItem, HaveWorkAfterItem, ioVars
<1>10. CASE IOStageDone
  <2>1. nestableAllowed' \in BOOLEAN
    <3>1. frames # <<>> /\ nestableAllowed' \in {Top.restore, nestableAllowed}
      BY <1>10 DEF IOStageDone, RunBreaks, RunGoesOn, Returned
    <3> QED
      BY <1>3, <3>1, TopFrame DEF FrameSet
  <2> QED
    BY <1>2, <1>3, <1>4, <1>10, <2>1 DEF IOStageDone, scheduleVars, ioVars
<1> QED
  BY <1>6, <1>7, <1>8, <1>9, <1>10 DEF IOStep

LEMMA PushTypes ==
    ASSUME TypeOK, NEW t \in Fresh, Push(t)
    PROVE  /\ incoming' \in Seq(Tasks) /\ runTime' \in [Tasks -> 0 .. MaxTime]
           /\ status' \in [Tasks -> {"unused", "new", "queued", "running", "ran"}]
<1>1. t \in Tasks /\ now + Delay[t] <= MaxTime /\ Delay[t] \in Nat /\ now \in Nat /\ MaxTime \in Nat
  BY WinMessageLoopAssumption DEF Fresh, TypeOK
<1>2. DelayedRuntime(t) \in 0 .. MaxTime
  BY <1>1 DEF DelayedRuntime, Null
<1>3. incoming' \in Seq(Tasks)
  BY <1>1 DEF Push, TypeOK
<1>4. runTime' \in [Tasks -> 0 .. MaxTime]
  BY <1>2 DEF Push, TypeOK
<1>5. status' \in [Tasks -> {"unused", "new", "queued", "running", "ran"}]
  BY DEF Push, TypeOK
<1> QED
  BY <1>3, <1>4, <1>5

LEMMA ProgramTypes ==
    ASSUME TypeInv, StackInv, Returns \/ Closes \/ Program
    PROVE  TypeInv'
<1>1. UNCHANGED <<pump, timeVars, now, posting, work, delayed, completedIo, state>>
  BY DEF Returns, Closes, Program, Finish, CloseModal, OwnThreadPost, Quit, UIRun, UIRunNested,
         OpenModal, EnterNested, UserInput, EmbedQuit, IORun, WaitForIOCompletion, HandlerGone,
         taskVars, ioVars
<1>2. ASSUME incoming' \in Seq(Tasks), runTime' \in [Tasks -> 0 .. MaxTime],
             status' \in [Tasks -> {"unused", "new", "queued", "running", "ran"}],
             nestableAllowed' \in BOOLEAN, haveWork' \in BOOLEAN, queue' \in Seq(Messages),
             clicks' \in Nat, started' \in BOOLEAN,
             handler' \in [Handlers -> {"staying", "leaving", "gone"}], MessagesInv'
      PROVE  TypeInv'
  BY <1>1, <1>2 DEF TypeInv, TypeOK, timeVars, Messages
<1>3. /\ incoming \in Seq(Tasks) /\ runTime \in [Tasks -> 0 .. MaxTime]
      /\ status \in [Tasks -> {"unused", "new", "queued", "running", "ran"}]
      /\ nestableAllowed \in BOOLEAN /\ haveWork \in BOOLEAN /\ queue \in Seq(Messages)
      /\ clicks \in Nat /\ started \in BOOLEAN
      /\ handler \in [Handlers -> {"staying", "leaving", "gone"}] /\ MessagesInv
  BY DEF TypeInv, TypeOK
<1>4. UNCHANGED <<queue, clicks>> => MessagesInv'
  BY <1>1, <1>3 DEF MessagesInv
<1>5. ASSUME UNCHANGED <<taskVars, scheduleVars, clicks, started, handler>>, nestableAllowed' \in BOOLEAN
      PROVE  TypeInv'
  BY <1>2, <1>3, <1>4, <1>5 DEF taskVars, scheduleVars
<1>6. CASE Finish /\ UNCHANGED <<started, clicks, ioVars>>
  <2>1. nestableAllowed' \in BOOLEAN
    BY <1>3, <1>6 DEF Finish, AllowedAfter
  <2>2. status' \in [Tasks -> {"unused", "new", "queued", "running", "ran"}]
    BY <1>3, <1>6 DEF Finish
  <2> QED
    BY <1>2, <1>3, <1>4, <1>6, <2>1, <2>2 DEF Finish, scheduleVars, ioVars
<1>7. CASE CloseModal /\ UNCHANGED <<started, clicks, ioVars>>
  <2>1. Top.restore \in BOOLEAN
    BY <1>7, TopFrame DEF CloseModal, At, FrameSet
  <2> QED
    BY <1>5, <1>7, <2>1 DEF CloseModal, ioVars
<1>8. CASE OwnThreadPost /\ UNCHANGED <<started, clicks, ioVars>>
  <2>1. PICK t \in Fresh : Push(t)
    BY <1>8 DEF OwnThreadPost
  <2>2. /\ incoming' \in Seq(Tasks) /\ runTime' \in [Tasks -> 0 .. MaxTime]
        /\ status' \in [Tasks -> {"unused", "new", "queued", "running", "ran"}]
    BY <2>1, PushTypes DEF TypeInv
  <2>3. haveWork' \in BOOLEAN /\ queue' \in Seq(Messages) /\ MessagesInv'
    BY <1>1, <1>8, ScheduleTypes DEF OwnThreadPost
  <2> QED
    BY <1>2, <1>3, <1>8, <2>2, <2>3 DEF OwnThreadPost, ioVars
<1>9. CASE (Quit \/ UIRun) /\ UNCHANGED <<started, clicks, ioVars>>
  BY <1>3, <1>5, <1>9 DEF Quit, UIRun, ioVars
<1>10. ASSUME NEW frame, NEW allow \in BOOLEAN, EnterNested(frame, allow),
              UNCHANGED <<started, clicks, ioVars>>
       PROVE  TypeInv'
  <2>1. haveWork' \in BOOLEAN /\ queue' \in Seq(Messages) /\ MessagesInv'
    BY <1>1, <1>10, ScheduleTypes DEF EnterNested
  <2>2. nestableAllowed' \in BOOLEAN /\ UNCHANGED taskVars
    BY <1>3, <1>10 DEF EnterNested
  <2> QED
    BY <1>2, <1>3, <1>10, <2>1, <2>2 DEF taskVars, ioVars
<1>11. CASE UIRunNested /\ UNCHANGED <<started, clicks, ioVars>>
  BY <1>10, <1>11 DEF UIRunNested
<1>12. CASE OpenModal /\ UNCHANGED <<started, clicks, ioVars>>
  BY <1>3, <1>5, <1>10, <1>12 DEF OpenModal, ioVars
<1>13. CASE UserInput /\ UNCHANGED <<started, ioVars>>
  <2>1. clicks > 0 /\ clicks' = clicks - 1 /\ queue' = Append(queue, Input)
        /\ UNCHANGED <<taskVars, nestableAllowed, haveWork>>
    BY <1>13 DEF UserInput
  <2>2. \A S : Input \in S => \A s \in Seq(S) : Append(s, Input) \in Seq(S)
    OBVIOUS
  <2>3. clicks' \in Nat /\ pump # "IO"
    BY <1>3, <2>1 DEF MessagesInv
  <2>4. queue' \in Seq(Messages)
    BY <1>3, <2>1, <2>2 DEF Messages
  <2>5. queue' \in Seq({HaveWork, Input})
    BY <1>3, <2>1, <2>2, <2>3 DEF MessagesInv
  <2>6. MessagesInv'
    BY <1>1, <1>3, <2>3, <2>5 DEF MessagesInv
  <2> QED
    BY <1>2, <1>3, <1>13, <2>1, <2>3, <2>4, <2>6 DEF taskVars, ioVars
<1>14. CASE EmbedQuit /\ UNCHANGED <<clicks, ioVars>>
  BY <1>2, <1>3, <1>4, <1>14 DEF EmbedQuit, taskVars, scheduleVars, ioVars
<1>15. CASE (IORun \/ WaitForIOCompletion) /\ UNCHANGED <<started, clicks>>
  BY <1>3, <1>5, <1>15 DEF IORun, WaitForIOCompletion, ioVars
<1>16. ASSUME NEW h \in Handlers, HandlerGone(h), UNCHANGED <<started, clicks>>
       PROVE  TypeInv'
  BY <1>2, <1>3, <1>4, <1>16 DEF HandlerGone, taskVars, scheduleVars
<1> QED
  BY <1>6, <1>7, <1>8, <1>9, <1>11, <1>12, <1>13, <1>14, <1>15, <1>16 DEF Returns, Closes, Program

LEMMA OthersTypes ==
    ASSUME TypeInv, Clock \/ (\E p \in Posters : PosterStep(p) \/ Post(p))
                          \/ (\E o \in Operations : Completion(o))
    PROVE  TypeInv'
<1>1. UNCHANGED <<pump, timeVars, work, delayed, nestableAllowed, clicks, started, completedIo, handler>>
  BY DEF Clock, PosterStep, Post, Completion, Tick, PosterExchanges, PosterPosts, PosterPushes,
         CompleteIO, taskVars, ioVars
<1>2. ASSUME incoming' \in Seq(Tasks), runTime' \in [Tasks -> 0 .. MaxTime],
             status' \in [Tasks -> {"unused", "new", "queued", "running", "ran"}],
             haveWork' \in BOOLEAN, queue' \in Seq(Messages), now' \in 1 .. MaxTime + 1,
             posting' \in [Posters -> {"idle", "exchange", "post"}],
             state' \in [Operations -> {"unused", "pending", "completed", "saved", "done"}],
             MessagesInv'
      PROVE  TypeInv'
  BY <1>1, <1>2 DEF TypeInv, TypeOK, timeVars, Messages
<1>3. /\ incoming \in Seq(Tasks) /\ runTime \in [Tasks -> 0 .. MaxTime]
      /\ status \in [Tasks -> {"unused", "new", "queued", "running", "ran"}]
      /\ haveWork \in BOOLEAN /\ queue \in Seq(Messages) /\ now \in 1 .. MaxTime + 1
      /\ posting \in [Posters -> {"idle", "exchange", "post"}]
      /\ state \in [Operations -> {"unused", "pending", "completed", "saved", "done"}]
      /\ MessagesInv
  BY DEF TypeInv, TypeOK
<1>4. UNCHANGED <<queue, state>> => MessagesInv'
  BY <1>1, <1>3 DEF MessagesInv
<1>5. CASE Clock
  BY <1>2, <1>3, <1>4, <1>5, WinMessageLoopAssumption DEF Clock, Tick, taskVars, scheduleVars, ioVars
<1>6. ASSUME NEW p \in Posters, PosterPushes(p), UNCHANGED ioVars
      PROVE  TypeInv'
  <2>1. PICK t \in Fresh : Push(t)
    BY <1>6 DEF PosterPushes
  <2>2. /\ incoming' \in Seq(Tasks) /\ runTime' \in [Tasks -> 0 .. MaxTime]
        /\ status' \in [Tasks -> {"unused", "new", "queued", "running", "ran"}]
    BY <2>1, PushTypes DEF TypeInv
  <2>3. posting' \in [Posters -> {"idle", "exchange", "post"}]
    BY <1>3, <1>6 DEF PosterPushes
  <2> QED
    BY <1>2, <1>3, <1>4, <1>6, <2>2, <2>3 DEF PosterPushes, scheduleVars, ioVars
<1>7. ASSUME NEW p \in Posters, PosterExchanges(p), UNCHANGED ioVars
      PROVE  TypeInv'
  <2>1. posting' \in [Posters -> {"idle", "exchange", "post"}]
    BY <1>3, <1>7 DEF PosterExchanges
  <2> QED
    BY <1>2, <1>3, <1>4, <1>7, <2>1 DEF PosterExchanges, taskVars, ioVars
<1>8. ASSUME NEW p \in Posters, PosterPosts(p), UNCHANGED ioVars
      PROVE  TypeInv'
  <2>1. posting' \in [Posters -> {"idle", "exchange", "post"}]
    BY <1>3, <1>8 DEF PosterPosts
  <2>2. \A S : HaveWork \in S => \A s \in Seq(S) : Append(s, HaveWork) \in Seq(S)
    OBVIOUS
  <2>3. queue' = Append(queue, HaveWork)
    BY <1>8 DEF PosterPosts
  <2>4. queue' \in Seq(Messages)
    BY <1>3, <2>2, <2>3 DEF Messages
  <2>5. pump = "IO" => queue' \in Seq({HaveWork} \cup Operations)
    BY <1>3, <2>2, <2>3 DEF MessagesInv
  <2>6. pump # "IO" => queue' \in Seq({HaveWork, Input})
    BY <1>3, <2>2, <2>3 DEF MessagesInv
  <2>7. MessagesInv'
    BY <1>1, <1>3, <1>8, <2>5, <2>6 DEF MessagesInv, ioVars
  <2> QED
    BY <1>2, <1>3, <1>8, <2>1, <2>4, <2>7 DEF PosterPosts, taskVars, ioVars
<1>9. ASSUME NEW o \in Operations, CompleteIO(o)
      PROVE  TypeInv'
  <2>1. state' \in [Operations -> {"unused", "pending", "completed", "saved", "done"}]
    BY <1>3, <1>9 DEF CompleteIO
  <2>2. pump = "IO"
    BY <1>3, <1>9 DEF CompleteIO, MessagesInv
  <2>3. \A S : o \in S => \A s \in Seq(S) : Append(s, o) \in Seq(S)
    OBVIOUS
  <2>4. queue' = Append(queue, o)
    BY <1>9 DEF CompleteIO
  <2>5. queue' \in Seq(Messages)
    BY <1>3, <2>3, <2>4 DEF Messages
  <2>6. queue' \in Seq({HaveWork} \cup Operations)
    BY <1>3, <2>2, <2>3, <2>4 DEF MessagesInv
  <2>7. MessagesInv'
    BY <1>1, <1>3, <2>2, <2>6 DEF MessagesInv
  <2> QED
    BY <1>2, <1>3, <1>9, <2>1, <2>5, <2>7 DEF CompleteIO, taskVars
<1> QED
  BY <1>5, <1>6, <1>7, <1>8, <1>9 DEF PosterStep, Post, Completion

LEMMA NextTypes ==
    ASSUME TypeInv, StackInv, Next
    PROVE  TypeInv'
BY LoopTypes, WindowTypes, IOTypes, ProgramTypes, OthersTypes DEF Next, ThreadStep

-----------------------------------------------------------------------------
(* The invariant: types, the stack, and the flag.                          *)
PumpsInv == TypeInv /\ StackInv /\ AllowInv /\ HaveWorkInv

LEMMA InitPumps ==
    ASSUME Init
    PROVE  PumpsInv
<1>1. PICK program \in Programs :
        /\ pump = program.pump
        /\ status = [t \in Tasks |-> IF t \in program.tasks THEN "new" ELSE "unused"]
        /\ state = [o \in Operations |-> IF o \in program.operations THEN "pending" ELSE "unused"]
        /\ handler = [h \in Handlers |-> IF h \in program.leaving THEN "leaving" ELSE "staying"]
        /\ clicks = program.clicks
  BY DEF Init
<1>2. /\ incoming = <<>> /\ work = <<>> /\ delayed = <<>> /\ runTime = [t \in Tasks |-> Null]
      /\ nestableAllowed = TRUE /\ haveWork = FALSE /\ queue = <<>>
      /\ delayedWorkTime = Null /\ wmTimer = Null /\ now = 1
      /\ posting = [p \in Posters |-> "idle"] /\ started = (pump = "Embed")
      /\ frames = (IF pump = "Embed" THEN <<ModalFrame>> ELSE <<>>)
      /\ completedIo = <<>> /\ completions = <<>> /\ deliveries = <<>>
  BY DEF Init, EmbedInit, IOInit
<1>3. /\ program.pump \in {"UI", "IO", "Embed"} /\ program.clicks \in Nat
      /\ program.pump = "IO" => program.clicks = 0
      /\ program.operations # {} => program.pump = "IO"
  BY <1>1, ProgramsAssumption
<1>4. \A S : <<>> \in Seq(S)
  OBVIOUS
<1>5. TypeInv
  <2>1. /\ runTime \in [Tasks -> 0 .. MaxTime] /\ delayedWorkTime \in 0 .. MaxTime
        /\ wmTimer \in 0 .. MaxTime + 2 /\ now \in 1 .. MaxTime + 1
    BY <1>2, WinMessageLoopAssumption DEF Null
  <2>2. /\ status \in [Tasks -> {"unused", "new", "queued", "running", "ran"}]
        /\ state \in [Operations -> {"unused", "pending", "completed", "saved", "done"}]
        /\ handler \in [Handlers -> {"staying", "leaving", "gone"}]
        /\ posting \in [Posters -> {"idle", "exchange", "post"}]
    BY <1>1, <1>2
  <2>3. MessagesInv
    BY <1>1, <1>2, <1>3, <1>4 DEF MessagesInv
  <2>4. started \in BOOLEAN
    BY <1>2
  <2> QED
    BY <1>1, <1>2, <1>3, <1>4, <2>1, <2>2, <2>3, <2>4 DEF TypeInv, TypeOK
<1>6. /\ ModalFrame \in FrameSet /\ ModalFrame.fn = "Modal" /\ ModalFrame.pc = "Modal"
      /\ ModalFrame.restore /\ (pump \in {"UI", "Embed"} => WellFormed(pump, ModalFrame))
  <2>1. ModalFrame \in FrameSet /\ (pump \in {"UI", "Embed"} => WellFormed(pump, ModalFrame))
    BY PumpFrames DEF ModalFrame
  <2> QED
    BY <2>1 DEF ModalFrame, Frame
<1>7. StackInv /\ AllowInv /\ ~MustReset(frames)
  <2>1. CASE frames = <<>>
    BY <1>2, <2>1 DEF StackInv, Stack, AllowInv, Allowed, MustReset
  <2>2. CASE frames # <<>>
    <3> DEFINE m == ModalFrame
    <3>1. pump = "Embed" /\ frames = <<m>>
      BY <1>2, <2>2
    <3>2. m \in FrameSet /\ m.fn = "Modal" /\ m.pc = "Modal" /\ m.restore /\ WellFormed(pump, m)
      BY <1>6, <3>1
    <3> HIDE DEF m
    <3>3. /\ frames \in Seq(FrameSet) /\ Len(frames) = 1 /\ frames[1] = m
      BY <3>1, <3>2
    <3>4. StackInv
      BY <3>2, <3>3 DEF StackInv, Stack
    <3>5. AllowInv
      BY <1>2, <3>2, <3>3 DEF AllowInv, Allowed
    <3>6. ~MustReset(frames)
      BY <3>2, <3>3 DEF MustReset, Last, ResetPcs
    <3> QED
      BY <3>4, <3>5, <3>6
  <2> QED
    BY <2>1, <2>2
<1>8. HaveWorkInv
  <2>1. DOMAIN queue = {} /\ \A p \in Posters : posting[p] # "post"
    BY <1>2
  <2> QED
    BY <1>2, <1>7, <2>1 DEF HaveWorkInv, OnceIn, QueuedIn, Posted
<1> QED
  BY <1>5, <1>7, <1>8 DEF PumpsInv

(* So every step is of the kinds there are.                                *)
LEMMA PumpsTypes ==
    ASSUME PumpsInv
    PROVE  /\ TasksOK /\ MessagesOK /\ NoSecondMessage
           /\ nestableAllowed \in BOOLEAN /\ queue \in Seq(Messages)
           /\ posting \in [Posters -> {"idle", "exchange", "post"}]
<1>1. /\ TasksOK /\ MessagesOK /\ nestableAllowed \in BOOLEAN /\ queue \in Seq(Messages)
      /\ posting \in [Posters -> {"idle", "exchange", "post"}]
  <2>1. runTime \in [Tasks -> Nat]
    BY WinMessageLoopAssumption DEF PumpsInv, TypeInv, TypeOK
  <2> QED
    BY <2>1 DEF PumpsInv, TypeInv, TypeOK, MessagesInv, TasksOK, MessagesOK
<1>2. NoSecondMessage
  <2>1. ASSUME At("PeekReplacement")
        PROVE  ~QueuedIn(queue)
    BY <2>1 DEF PumpsInv, HaveWorkInv, MustReset, At, Top, ResetPcs
  <2>2. ASSUME queue # <<>>, Head(queue) = HaveWork
        PROVE  QueuedIn(queue)
    BY <1>1, <2>2, MessageTaken
  <2> QED
    BY <2>1, <2>2, PeekedHaveWork DEF NoSecondMessage
<1> QED
  BY <1>1, <1>2

LEMMA PumpsMove ==
    ASSUME PumpsInv, Next
    PROVE  StackMoves /\ UNCHANGED pump
BY PumpsTypes, NextMoves DEF PumpsInv

LEMMA NextPumps ==
    ASSUME PumpsInv, [Next]_vars
    PROVE  PumpsInv'
<1>1. CASE UNCHANGED vars
  BY <1>1 DEF vars, taskVars, scheduleVars, timeVars, ioVars, PumpsInv, TypeInv, TypeOK, MessagesInv,
     StackInv, AllowInv, HaveWorkInv, Posted
<1>2. CASE Next
  <2>1. FlagMoves
    BY <1>2, PumpsTypes, NextFlagMoves DEF PumpsInv
  <2>2. StackInv' /\ AllowInv'
    BY <1>2, PumpsMove, MovesKeepStack DEF PumpsInv
  <2>3. HaveWorkInv'
    BY <2>1, PumpsTypes, MovesKeepFlag DEF PumpsInv
  <2>4. TypeInv'
    BY <1>2, NextTypes DEF PumpsInv
  <2> QED
    BY <2>2, <2>3, <2>4 DEF PumpsInv
<1> QED
  BY <1>1, <1>2

(* At most one message stands for the flag, wherever it is counted.        *)
LEMMA AtMostOne ==
    ASSUME NEW S, \A x, y \in S : x = y
    PROVE  Cardinality(S) = IF S = {} THEN 0 ELSE 1
<1>1. CASE S = {}
  BY <1>1, FS_EmptySet
<1>2. CASE S # {}
  <2>1. PICK x : x \in S
    BY <1>2
  <2>2. S = {x}
    BY <2>1
  <2>3. Cardinality({x}) = 1
    BY FS_Singleton
  <2> QED
    BY <1>2, <2>2, <2>3
<1> QED
  BY <1>1, <1>2

LEMMA PumpsAccountFlag ==
    ASSUME PumpsInv
    PROVE  HaveWorkAccounted
<1> DEFINE Q == {i \in DOMAIN queue : queue[i] = HaveWork}
<1>1. Cardinality(Q) = IF QueuedIn(queue) THEN 1 ELSE 0
  <2>1. \A x, y \in Q : x = y
    BY DEF PumpsInv, HaveWorkInv, OnceIn
  <2>2. Q = {} <=> ~QueuedIn(queue)
    BY DEF QueuedIn
  <2> HIDE DEF Q
  <2> QED
    BY <2>1, <2>2, AtMostOne
<1>2. Cardinality(InFlight) = IF Posted THEN 1 ELSE 0
  <2>1. \A x, y \in InFlight : x = y
    BY DEF PumpsInv, HaveWorkInv, InFlight
  <2>2. InFlight = {} <=> ~Posted
    BY DEF InFlight, Posted
  <2> QED
    BY <2>1, <2>2, AtMostOne
<1>3. Cardinality(Resetting) = IF MustReset(frames) THEN 1 ELSE 0
  <2>1. frames \in Seq(FrameSet) /\ DOMAIN frames = 1 .. Len(frames) /\ Len(frames) \in Nat
    BY DEF PumpsInv, StackInv, Stack
  <2>2. ASSUME NEW i \in DOMAIN frames, i # Len(frames)
        PROVE  frames[i].pc \notin ResetPcs
    <3>1. /\ \A k \in 1 .. Len(frames) : WellFormed(pump, frames[k])
          /\ \A k \in 1 .. Len(frames) : k # Len(frames) => Waits(frames[k])
      BY DEF PumpsInv, StackInv, Stack
    <3>2. Waits(frames[i]) /\ WellFormed(pump, frames[i])
      BY <2>1, <2>2, <3>1, Zenon
    <3>3. frames[i] \in FrameSet
      BY <2>1
    <3> QED
      BY <3>2, <3>3 DEF WellFormed, Waits, FrameSet, Fns, ResetPcs, UIStages, IOStages
  <2>3. Resetting = {i \in DOMAIN frames : frames[i].pc \in ResetPcs /\ ~frames[i].done}
    BY DEF Resetting, ResetPcs
  <2>4. \A x, y \in Resetting : x = y
    BY <2>2, <2>3
  <2>5. Resetting = {} <=> ~MustReset(frames)
    <3>1. ASSUME MustReset(frames)
          PROVE  Len(frames) \in Resetting
      <4>1. frames # <<>> /\ Last(frames) = frames[Len(frames)]
        BY <3>1 DEF MustReset, Last
      <4>2. Len(frames) \in DOMAIN frames
        BY <2>1, <4>1
      <4> QED
        BY <2>3, <3>1, <4>1, <4>2 DEF MustReset
    <3>2. ASSUME NEW i \in Resetting
          PROVE  MustReset(frames)
      <4>1. i = Len(frames) /\ i \in DOMAIN frames
        BY <2>2, <2>3, <3>2
      <4>2. frames # <<>> /\ Last(frames) = frames[i]
        BY <2>1, <4>1 DEF Last
      <4> QED
        BY <2>3, <3>2, <4>2 DEF MustReset
    <3> QED
      BY <3>1, <3>2
  <2> QED
    BY <2>4, <2>5, AtMostOne
<1>4. ~At("Spurious")
  <2>1. ASSUME frames # <<>>
        PROVE  Top \in FrameSet
    BY <2>1, TopFrame DEF PumpsInv
  <2> QED
    BY <2>1 DEF At, FrameSet, Pcs, UIStages, IOStages, ResetPcs, DispatchPcs
<1>5. Cardinality(Q) + Cardinality(InFlight) + Cardinality(Resetting) = IF haveWork THEN 1 ELSE 0
  <2>1. /\ ~(QueuedIn(queue) /\ Posted) /\ ~(QueuedIn(queue) /\ MustReset(frames))
        /\ ~(Posted /\ MustReset(frames))
        /\ haveWork <=> QueuedIn(queue) \/ Posted \/ MustReset(frames)
    BY DEF PumpsInv, HaveWorkInv
  <2> HIDE DEF Q
  <2> QED
    BY <1>1, <1>2, <1>3, <2>1
<1> QED
  BY <1>4, <1>5 DEF HaveWorkAccounted

(* Every task, time, message and operation has its type, whichever pump    *)
(* the thread has.                                                         *)
THEOREM PumpsTypeCorrect == Spec => []TypeOK
<1>1. PumpsInv => TypeOK
  BY DEF PumpsInv, TypeInv
<1> QED
  BY <1>1, InitPumps, NextPumps, PTL DEF Spec

(* have_work_ is set exactly while one message stands for it: the two      *)
(* DCHECKs of message_pump_win.cc and the one of message_pump_embed_win.cc *)
(* hold, and ScheduleWork never relies on a message that is not there.     *)
THEOREM HaveWorkAccountedCorrect == Spec => []HaveWorkAccounted
BY InitPumps, NextPumps, PumpsAccountFlag, PTL DEF Spec

-----------------------------------------------------------------------------
(* What becomes of tasks: steps of the loop, a post, and the end of a task *)
(* are all there is.                                                       *)
PostStep == \E t \in Fresh : Push(t) /\ UNCHANGED <<work, delayed>>
LEMMA TaskSteps ==
    ASSUME Next
    PROVE  UNCHANGED taskVars \/ DoWorkTakesTask \/ DoDelayedWorkTakesTask \/ PostStep \/ Finish
<1>1. CASE LoopStep
  BY <1>1 DEF LoopStep, DoWorkFindsNothing, DoIdleWork, DoDelayedWorkFindsNothing
<1>2. CASE WindowStep
  BY <1>2 DEF WindowStep, EmbedDispatch, EmbedWorkMessage, PeekNext, PeekReplacement,
     ExchangeHaveWork, DispatchReplacement, UIStageDone, UIWaitReturns, UIDispatch,
     DispatchInModal, WorkMessageOutsideRun, WorkMessageEnds, TimerMessageEnds
<1>3. CASE IOStep
  BY <1>3 DEF IOStep, TakeSavedItem, GetIOItem, NoIOItem, ProcessInternalIOItem, IOStageDone,
     WaitForIOEnds
<1>4. CASE Returns \/ Closes
  BY <1>4 DEF Returns, Closes, CloseModal
<1>5. CASE Program
  BY <1>5 DEF Program, OwnThreadPost, Quit, UIRun, UIRunNested, OpenModal, EnterNested, UserInput,
     EmbedQuit, IORun, WaitForIOCompletion, HandlerGone, PostStep
<1>6. CASE Clock \/ \E o \in Operations : Completion(o)
  BY <1>6 DEF Clock, Tick, Completion, CompleteIO
<1>7. CASE \E p \in Posters : PosterStep(p) \/ Post(p)
  BY <1>7 DEF PosterStep, Post, PosterExchanges, PosterPosts, PosterPushes, PostStep
<1> QED
  BY <1>1, <1>2, <1>3, <1>4, <1>5, <1>6, <1>7 DEF Next, ThreadStep

(* A task that waits in one of the queues is not posted again.             *)
Held == ToSet(incoming) \cup ToSet(work) \cup ToSet(delayed)
HeldOld == \A u \in Held : status[u] # "new"

LEMMA ListedTask ==
    ASSUME NEW s \in Seq(Tasks)
    PROVE  /\ ToSet(s) \subseteq Tasks
           /\ \A t \in Tasks : ToSet(Append(s, t)) = ToSet(s) \cup {t}
           /\ s # <<>> => Head(s) \in ToSet(s) /\ ToSet(Tail(s)) \subseteq ToSet(s)
           /\ ToSet(<<>>) = {}
<1>1. ToSet(s) \subseteq Tasks /\ ToSet(<<>>) = {}
  BY DEF ToSet
<1>2. ASSUME NEW t \in Tasks
      PROVE  ToSet(Append(s, t)) = ToSet(s) \cup {t}
  BY PushedOnto
<1>3. ASSUME s # <<>>
      PROVE  Head(s) \in ToSet(s) /\ ToSet(Tail(s)) \subseteq ToSet(s)
  <2> DEFINE r == Tail(s)
  <2>1. /\ Len(s) \in Nat \ {0} /\ DOMAIN s = 1 .. Len(s) /\ DOMAIN r = 1 .. Len(s) - 1
        /\ Head(s) = s[1] /\ \A i \in 1 .. Len(s) - 1 : r[i] = s[i + 1]
    BY <1>3
  <2> HIDE DEF r
  <2>2. Head(s) \in ToSet(s)
    BY <2>1 DEF ToSet
  <2>3. ASSUME NEW i \in DOMAIN r
        PROVE  r[i] \in ToSet(s)
    <3>1. i + 1 \in DOMAIN s /\ r[i] = s[i + 1]
      BY <2>1
    <3> QED
      BY <3>1 DEF ToSet
  <2>4. ToSet(r) \subseteq ToSet(s)
    BY <2>3 DEF ToSet
  <2> QED
    BY <2>2, <2>4 DEF r
<1> QED
  BY <1>1, <1>2, <1>3

LEMMA HeldStep ==
    ASSUME TypeOK, StackInv, HeldOld, Next
    PROVE  HeldOld' /\ \A u \in Tasks : status'[u] = "new" => status[u] = "new"
<1>1. ASSUME Held' \subseteq Held, \A u \in Tasks : status'[u] = "new" => status[u] = "new"
      PROVE  HeldOld'
  <2>1. Held \subseteq Tasks
    BY ListedTask DEF TypeOK, Held
  <2> QED
    BY <1>1, <2>1 DEF HeldOld
<1>2. CASE UNCHANGED taskVars
  BY <1>1, <1>2 DEF taskVars, Held
<1>3. CASE Finish
  <2>1. \A u \in Tasks : status'[u] = "new" => status[u] = "new"
    BY <1>3 DEF Finish, TypeOK
  <2>2. Held' = Held
    BY <1>3 DEF Finish, Held
  <2> QED
    BY <1>1, <2>1, <2>2
<1>4. CASE PostStep
  <2>1. PICK t \in Fresh : Push(t) /\ UNCHANGED <<work, delayed>>
    BY <1>4 DEF PostStep
  <2>2. t \in Tasks
    BY DEF Fresh
  <2>3. status'[t] = "queued" /\ \A u \in Tasks : u # t => status'[u] = status[u]
    BY <2>1, <2>2 DEF Push, TypeOK
  <2>4. ToSet(incoming') = ToSet(incoming) \cup {t}
    BY <2>1, <2>2, ListedTask DEF Push, TypeOK
  <2>5. Held \subseteq Tasks /\ Held' \subseteq Held \cup {t}
    BY <2>1, <2>4, ListedTask DEF TypeOK, Held
  <2>6. \A u \in Held' : status'[u] # "new"
    BY <2>2, <2>3, <2>5 DEF HeldOld
  <2> QED
    BY <2>3, <2>6 DEF HeldOld
<1>5. CASE DoWorkTakesTask
  <2> DEFINE r == Reloaded.work
             t == Head(r)
  <2>1. /\ r \in Seq(Tasks) /\ Reloaded.incoming \in Seq(Tasks)
        /\ ToSet(r) \cup ToSet(Reloaded.incoming) \subseteq ToSet(work) \cup ToSet(incoming)
    BY ListedTask DEF Reloaded, TypeOK
  <2>2. r # <<>> /\ work' = Tail(r) /\ incoming' = Reloaded.incoming
    BY <1>5 DEF DoWorkTakesTask
  <2>3. /\ \/ RunTask(t) /\ UNCHANGED <<delayed, timeVars>>
           \/ delayed' = Append(delayed, t) /\ UNCHANGED <<nestableAllowed, status, frames>>
    BY <1>5 DEF DoWorkTakesTask
  <2> HIDE DEF r
  <2>4. t \in ToSet(r) /\ ToSet(work') \subseteq ToSet(r) /\ t \in Tasks
    BY <2>1, <2>2, ListedTask
  <2>5. ToSet(delayed') \subseteq ToSet(delayed) \cup {t}
    <3>1. ToSet(Append(delayed, t)) = ToSet(delayed) \cup {t}
      BY <2>4, ListedTask DEF TypeOK
    <3> QED
      BY <2>3, <3>1
  <2>6. Held' \subseteq Held
    BY <2>1, <2>2, <2>4, <2>5 DEF Held
  <2>7. \A u \in Tasks : status'[u] = "new" => status[u] = "new"
    BY <2>3, <2>4 DEF RunTask, TypeOK
  <2> QED
    BY <1>1, <2>6, <2>7
<1>6. CASE DoDelayedWorkTakesTask
  <2>1. delayed \in Seq(Tasks) /\ delayed # <<>> /\ UNCHANGED <<incoming, work>>
        /\ delayed' = RemoveAt(delayed, EarliestIndex(delayed)) /\ RunTask(Earliest(delayed))
    BY <1>6 DEF DoDelayedWorkTakesTask, TypeOK
  <2>2. Earliest(delayed) \in Tasks /\ EarliestIndex(delayed) \in DOMAIN delayed
    BY <2>1, DelayedTypes
  <2>3. Held' \subseteq Held
    BY <2>1, <2>2, RemovedAt DEF Held
  <2>4. \A u \in Tasks : status'[u] = "new" => status[u] = "new"
    BY <2>1, <2>2 DEF RunTask, TypeOK
  <2> QED
    BY <1>1, <2>3, <2>4
<1>7. \A u \in Tasks : status'[u] = "new" => status[u] = "new"
  <2>1. CASE UNCHANGED taskVars
    BY <2>1 DEF taskVars
  <2>2. CASE Finish
    BY <2>2 DEF Finish, TypeOK
  <2>3. CASE PostStep
    BY <2>3 DEF PostStep, Push, Fresh, TypeOK
  <2>4. CASE DoWorkTakesTask
    BY <2>4 DEF DoWorkTakesTask, RunTask, TypeOK
  <2>5. CASE DoDelayedWorkTakesTask
    BY <2>5 DEF DoDelayedWorkTakesTask, RunTask, TypeOK
  <2> QED
    BY <2>1, <2>2, <2>3, <2>4, <2>5, TaskSteps
<1> QED
  BY <1>2, <1>3, <1>4, <1>5, <1>6, <1>7, TaskSteps

(* A Run that is to quit starts no task, but in the turn of the IO pump    *)
(* that follows a sleep.                                                   *)
LEMMA QuitStops ==
    ASSUME TypeOK, StackInv, Next, StartsTask, Top.fn = "Run", Top.quit
    PROVE  pump = "IO" /\ At("DoWork")
<1>1. PICK t \in Tasks : status[t] = "queued" /\ status'[t] = "running"
  BY DEF StartsTask
<1>2. ~UNCHANGED taskVars
  BY <1>1 DEF taskVars
<1>3. ~Finish
  BY <1>1 DEF Finish, TypeOK
<1>4. ~PostStep
  <2>1. ASSUME NEW u \in Fresh, Push(u)
        PROVE  FALSE
    BY <1>1, <2>1 DEF Push, TypeOK
  <2> QED
    BY <2>1 DEF PostStep
<1>5. CASE At("DoWork") \/ At("DoDelayedWork")
  <2>1. frames # <<>> /\ ~Top.done
    BY <1>5 DEF At
  <2>2. WellFormed(pump, Top)
    BY <2>1, TopFrame
  <2>3. pump = "IO" /\ Top.pc = "DoWork"
    BY <2>1, <2>2 DEF WellFormed
  <2> QED
    BY <2>1, <2>3 DEF At
<1> QED
  BY <1>2, <1>3, <1>4, <1>5, TaskSteps DEF DoWorkTakesTask, DoDelayedWorkTakesTask

-----------------------------------------------------------------------------
(* Sleeping.  A Run on top, other than one that forbids nestable tasks,    *)
(* rests when it comes to its wait without another turn: no stage of the   *)
(* turn found work.  What each stage established then still holds,         *)
(* whatever other threads have done since.                                 *)
Rests(s) == s # <<>> /\ Opens(Last(s)) /\ ~Comes(Last(s))
PastPoll(f) == f.pc \in {"DoDelayedWork", "DoIdleWork", "WaitIO"} \/ (f.pc = "PollIO" /\ f.done)
PastDelayed(f) == f.pc \in {"DoIdleWork", "Wait", "WaitIO"} \/ (f.pc = "DoDelayedWork" /\ f.done)
WakesInTime == \A u \in ToSet(delayed) : delayedWorkTime # Null /\ delayedWorkTime <= runTime[u]
Noticed == incoming # <<>> => haveWork \/ \E p \in Posters : posting[p] = "exchange"

NoneSaved == pump # "IO" => completedIo = <<>>
RestInv ==
    Rests(frames) =>
        /\ work = <<>> /\ Noticed
        /\ pump = "IO" /\ PastPoll(Top) => completedIo = <<>>
        /\ PastDelayed(Top) => WakesInTime

(* The frame that is left when the one on top ends goes on, or it was no   *)
(* Run; so does a Run that is entered.                                     *)
LEMMA EndedComes ==
    ASSUME StackInv, frames # <<>>, frames' = Front(frames)
    PROVE  ~Rests(frames')
<1>1. Front(frames) # <<>> => Waits(Last(Front(frames)))
  BY TopFrame
<1> QED
  BY <1>1 DEF Rests, Opens, Waits

LEMMA RestsAfter ==
    ASSUME StackInv, StackMoves, Rests(frames')
    PROVE  frames # <<>> /\ Opens(Top) /\ Top \in FrameSet /\ WellFormed(pump, Top)
<1>1. frames \in Seq(FrameSet)
  BY DEF StackInv, Stack
<1>2. frames # <<>> => Front(frames) \in Seq(FrameSet) /\ Top \in FrameSet /\ WellFormed(pump, Top)
  BY TopFrame
<1>3. \A s \in Seq(FrameSet), f, g \in FrameSet : Append(s, f) \in Seq(FrameSet) /\ Last(Append(s, g)) = g
  BY PushedFrame, PushedTop
<1>4. CASE Keeps
  BY <1>2, <1>4 DEF Keeps, Rests, Opens, Top
<1>5. CASE Turns
  <2>1. PICK f \in FrameSet : frames' = Append(Front(frames), f) /\ SameCall(f, Top)
    BY <1>5 DEF Turns
  <2>2. Last(frames') = f /\ frames # <<>>
    BY <1>2, <1>3, <1>5, <2>1 DEF Turns
  <2> QED
    BY <1>2, <2>1, <2>2 DEF Rests, Opens, Forbids, SameCall
<1>6. CASE Calls
  <2>1. PICK f, g \in FrameSet : frames' = Append(Append(Front(frames), f), g) /\ Enters(g)
    BY <1>6 DEF Calls
  <2>2. Append(Front(frames), f) \in Seq(FrameSet)
    BY <1>2, <1>3, <1>6 DEF Calls
  <2>3. Last(frames') = g
    BY <1>3, <2>1, <2>2
  <2> QED
    BY <2>1, <2>3 DEF Rests, Opens, Enters
<1>7. CASE CallsTwo
  <2>1. PICK f, g \in FrameSet : /\ frames' = Append(Append(frames, f), g)
                                 /\ {f.fn, g.fn} \cap {"Run", "Task", "Modal"} = {}
    BY <1>7 DEF CallsTwo
  <2>2. Append(frames, f) \in Seq(FrameSet)
    BY <1>1, <1>3
  <2>3. Last(frames') = g
    BY <1>3, <2>1, <2>2
  <2> QED
    BY <2>1, <2>3 DEF Rests, Opens
<1>8. CASE Begins
  <2>1. PICK g \in FrameSet : frames' = Append(frames, g) /\ (g.fn = "Run" => Comes(g))
    BY <1>8 DEF Begins
  <2>2. Last(frames') = g
    BY <1>1, <1>3, <2>1
  <2> QED
    BY <2>1, <2>2 DEF Rests, Opens
<1>9. CASE Ends
  BY <1>9, EndedComes DEF Ends
<1>10. CASE Replaces
  <2>1. PICK f, g \in FrameSet : /\ frames' = Append(Append(Front(Front(frames)), f), g)
                                 /\ g.fn \notin {"Run", "Task", "Modal"}
    BY <1>10 DEF Replaces
  <2>2. Front(Front(frames)) \in Seq(FrameSet)
    BY <1>2, <1>10, PoppedFrame DEF Replaces
  <2>3. Append(Front(Front(frames)), f) \in Seq(FrameSet)
    BY <1>3, <2>2
  <2>4. Last(frames') = g
    BY <1>3, <2>1, <2>3
  <2> QED
    BY <2>1, <2>4 DEF Rests, Opens
<1>11. CASE Flags
  <2>1. PICK i \in DOMAIN frames, f \in FrameSet : /\ i # Len(frames)
                                                   /\ frames' = [frames EXCEPT ![i] = f]
    BY <1>11 DEF Flags
  <2>2. /\ frames # <<>> /\ Len(frames') = Len(frames) /\ Len(frames) \in DOMAIN frames
        /\ frames'[Len(frames)] = frames[Len(frames)]
    BY <1>1, <2>1
  <2>3. Last(frames') = Top
    BY <2>2 DEF Last, Top
  <2> QED
    BY <1>2, <2>2, <2>3 DEF Rests, Opens
<1> QED
  BY <1>4, <1>5, <1>6, <1>7, <1>8, <1>9, <1>10, <1>11 DEF StackMoves

(* Nestable tasks are allowed when a Run is on top, unless it forbids      *)
(* them.                                                                   *)
LEMMA RunAllows ==
    ASSUME StackInv, AllowInv, frames # <<>>, Opens(Top)
    PROVE  nestableAllowed
<1>1. Len(frames) \in Nat \ {0} /\ Top = frames[Len(frames)]
  BY TopFrame
<1>2. Clear(frames, Len(frames), Len(frames))
  BY <1>1 DEF Clear
<1>3. Free(frames, Len(frames))
  BY <1>1, <1>2 DEF Free
<1> QED
  BY <1>3 DEF AllowInv, Allowed

(* What a step on the loop's thread has to show when it leaves f on top.   *)
LEMMA RestsOn ==
    ASSUME NEW f, Last(frames') = f, work' = <<>>, Noticed',
           pump' = "IO" /\ PastPoll(f) => completedIo' = <<>>, PastDelayed(f) => WakesInTime'
    PROVE  RestInv'
<1>1. Top' = f
  BY DEF Top
<1>2. (pump = "IO" /\ PastPoll(Top) => completedIo = <<>>)'
  BY <1>1
<1>3. (PastDelayed(Top) => WakesInTime)'
  BY <1>1
<1> QED
  BY <1>2, <1>3 DEF RestInv

LEMMA LoopSleeps ==
    ASSUME TypeOK, StackInv, AllowInv, RestInv, LoopStep, Rests(frames'),
           frames # <<>>, Opens(Top)
    PROVE  RestInv'
<1>1. nestableAllowed /\ Top \in FrameSet /\ WellFormed(pump, Top) /\ Front(frames) \in Seq(FrameSet)
  BY RunAllows, TopFrame
<1>2. UNCHANGED <<pump, completedIo, haveWork, posting, runTime>>
  BY DEF LoopStep, DoWorkFindsNothing, DoWorkTakesTask, DoIdleWork, DoDelayedWorkFindsNothing,
         DoDelayedWorkTakesTask, ioVars, scheduleVars, taskVars
<1>3. TasksOK
  BY WinMessageLoopAssumption DEF TypeOK, TasksOK
<1>4. CASE DoWorkFindsNothing
  <2>1. Top.pc = "DoWork" /\ Return(FALSE) /\ UNCHANGED nestableAllowed
    BY <1>4 DEF DoWorkFindsNothing, At
  <2>2. Top.pc \in StagePcs
    BY <2>1 DEF StagePcs
  <2>3. Last(frames') = After(FALSE)
    BY <2>1, <2>2, ReturnTurns, Zenon
  <2>4. After(FALSE).pc = "DoWork"
    BY <2>1, <2>2, StageReturns
  <2>5. work = <<>> /\ incoming = <<>> /\ UNCHANGED <<work, incoming>>
    BY <1>1, <1>4 DEF DoWorkFindsNothing, Reloaded, taskVars
  <2>6. Noticed' /\ work' = <<>>
    BY <2>5 DEF Noticed
  <2> QED
    BY <2>3, <2>4, <2>6, RestsOn DEF PastPoll, PastDelayed
<1>5. CASE DoWorkTakesTask
  <2>1. Top.pc = "DoWork" /\ ~Top.done /\ Top.pc \in StagePcs
    BY <1>5 DEF DoWorkTakesTask, At, StagePcs
  <2>2. Head(Reloaded.work) \in Tasks
    BY <1>3, <1>5, ReloadedTasks DEF DoWorkTakesTask
  <2>3. ~RunTask(Head(Reloaded.work))
    BY <2>1, <2>2, TaskStarts DEF Rests, Opens
  <2>4. UNCHANGED frames
    BY <1>5, <2>3 DEF DoWorkTakesTask
  <2> QED
    BY <2>1, <2>4 DEF Rests, Opens, Comes, Top
<1>6. CASE DoIdleWork
  <2> DEFINE f == [After(FALSE) EXCEPT !.quit = @ \/ Top.quitReceived]
  <2>1. Top.pc = "DoIdleWork" /\ SetTop(f)
    BY <1>6 DEF DoIdleWork, At
  <2>2. f \in FrameSet /\ f.pc = "DoIdleWork" /\ f.more = Top.more /\ f.fn = "Run"
    BY <1>1, <2>1 DEF After, FrameSet, Opens
  <2> HIDE DEF f
  <2>3. Last(frames') = f
    BY <1>1, <2>1, <2>2, PushedTop DEF SetTop
  <2>4. Rests(frames)
    BY <2>1, <2>2, <2>3 DEF Rests, Opens, Comes, Top
  <2>5. UNCHANGED <<work, incoming, delayed, delayedWorkTime>>
    BY <1>6 DEF DoIdleWork, taskVars, timeVars
  <2>6. work = <<>> /\ Noticed /\ WakesInTime /\ (pump = "IO" => completedIo = <<>>)
    BY <2>1, <2>4 DEF RestInv, PastPoll, PastDelayed
  <2>7. Noticed' /\ WakesInTime'
    BY <1>2, <2>5, <2>6 DEF Noticed, WakesInTime
  <2> QED
    BY <1>2, <2>3, <2>5, <2>6, <2>7, RestsOn
<1>7. CASE DoDelayedWorkFindsNothing
  <2>1. Top.pc = "DoDelayedWork" /\ Return(FALSE) /\ UNCHANGED nestableAllowed
    BY <1>7 DEF DoDelayedWorkFindsNothing, At
  <2>2. Top.pc \in StagePcs
    BY <2>1 DEF StagePcs
  <2>3. Last(frames') = After(FALSE)
    BY <2>1, <2>2, ReturnTurns, Zenon
  <2>4. After(FALSE).pc = "DoDelayedWork" /\ After(FALSE).more = Top.more
    BY <1>1, <2>1, <2>2, StageReturns DEF FrameSet
  <2>5. Rests(frames)
    BY <2>1, <2>3, <2>4 DEF Rests, Opens, Comes, Top
  <2>6. UNCHANGED <<work, incoming, delayed>>
    BY <1>7 DEF DoDelayedWorkFindsNothing, taskVars
  <2>7. work = <<>> /\ Noticed /\ (pump = "IO" => completedIo = <<>>)
    BY <2>1, <2>5 DEF RestInv, PastPoll
  <2>8. Noticed'
    BY <1>2, <2>6, <2>7 DEF Noticed
  <2>9. WakesInTime'
    <3>1. CASE delayed = <<>>
      <4>1. ToSet(delayed') = {}
        BY <2>6, <3>1 DEF ToSet
      <4> QED
        BY <4>1 DEF WakesInTime
    <3>2. CASE delayed # <<>>
      <4>1. /\ delayedWorkTime' = runTime[Earliest(delayed)]
            /\ runTime[Earliest(delayed)] > now
        BY <1>1, <1>7, <3>2 DEF DoDelayedWorkFindsNothing
      <4>2. \A u \in ToSet(delayed) : runTime[Earliest(delayed)] <= runTime[u]
        BY <1>3, <3>2, EarliestIsFirst DEF TasksOK
      <4>3. now \in 1 .. MaxTime + 1 /\ runTime[Earliest(delayed)] \in 0 .. MaxTime /\ MaxTime \in Nat
        BY <1>3, <3>2, DelayedTypes, WinMessageLoopAssumption DEF TypeOK
      <4>4. delayedWorkTime' # Null
        BY <4>1, <4>3 DEF Null
      <4> QED
        BY <1>2, <2>6, <4>1, <4>2, <4>4 DEF WakesInTime
    <3> QED
      BY <3>1, <3>2
  <2> QED
    BY <1>2, <2>3, <2>6, <2>7, <2>8, <2>9, RestsOn
<1>8. CASE DoDelayedWorkTakesTask
  <2>1. Top.pc \in StagePcs /\ RunTask(Earliest(delayed)) /\ delayed # <<>>
    BY <1>8 DEF DoDelayedWorkTakesTask, At, StagePcs
  <2>2. Earliest(delayed) \in Tasks
    BY <1>3, <2>1, EarliestIsFirst DEF TasksOK
  <2> QED
    BY <2>1, <2>2, TaskStarts DEF Rests, Opens
<1> QED
  BY <1>4, <1>5, <1>6, <1>7, <1>8 DEF LoopStep

(* A peeked message leaves a Run on top only to go on with its turn.       *)
LEMMA PeekSleeps ==
    ASSUME StackInv, PeekNext
    PROVE  ~Rests(frames')
<1> DEFINE b == Peeked \notin {None, HaveWork}
           f == After(b)
           h == IF Peeked = HaveWork THEN <<Frame("Replacement", "PeekReplacement")>>
                                     ELSE HandlerOf(Peeked, TRUE)
<1>1. frames # <<>> /\ Top.pc = "Peek" /\ Top.pc \in StagePcs
  BY DEF PeekNext, At, StagePcs
<1>2. b \in BOOLEAN
  OBVIOUS
<1>3. frames' = Append(Front(frames), f) \o h
  BY DEF PeekNext
<1> HIDE DEF b
<1>4. f \in FrameSet /\ f.pc = "Peek"
  BY <1>1, <1>2, StageReturns
<1> HIDE DEF f
<1> DEFINE r == Append(Front(frames), f)
<1>5. r \in Seq(FrameSet) /\ Last(r) = f
  BY <1>1, <1>4, TopFrame, PushedFrame
<1>6. h \in {<<Frame("Replacement", "PeekReplacement")>>, <<Frame("Handler", "Program")>>,
             <<Frame("Timer", "DoDelayedWork")>>, <<>>}
  BY DEF HandlerOf
<1> HIDE DEF h, r
<1>7. frames' = r \o h
  BY <1>3 DEF r
<1>8. ASSUME NEW g \in FrameSet, g.fn # "Run", h = <<g>>
      PROVE  ~Rests(frames')
  <2>1. frames' = Append(r, g) /\ Last(Append(r, g)) = g
    BY <1>5, <1>7, <1>8, AppendIsConcat, PushedTop
  <2> QED
    BY <1>8, <2>1 DEF Rests, Opens
<1>9. CASE h = <<>>
  <2>1. frames' = r
    BY <1>5, <1>7, <1>9, ConcatEmptySeq
  <2> QED
    BY <1>4, <1>5, <2>1 DEF Rests, Opens, Comes
<1>10. /\ Frame("Replacement", "PeekReplacement").fn # "Run"
       /\ Frame("Handler", "Program").fn # "Run" /\ Frame("Timer", "DoDelayedWork").fn # "Run"
  BY DEF Frame
<1> QED
  BY <1>6, <1>8, <1>9, <1>10, PumpFrames

(* The Run goes on with its next stage.                                    *)
LEMMA StageSleeps ==
    ASSUME RestInv, Rests(frames), NEW f, Last(frames') = f,
           pump = "IO" => (PastPoll(f) => PastPoll(Top)), PastDelayed(f) => PastDelayed(Top),
           UNCHANGED <<pump, work, incoming, haveWork, posting, delayed, delayedWorkTime, runTime,
                       completedIo>>
    PROVE  RestInv'
<1>1. /\ work = <<>> /\ Noticed
      /\ pump = "IO" /\ PastPoll(Top) => completedIo = <<>>
      /\ PastDelayed(Top) => WakesInTime
  BY DEF RestInv
<1>2. work' = <<>> /\ Noticed' /\ (WakesInTime => WakesInTime')
  BY <1>1 DEF Noticed, WakesInTime
<1> QED
  BY <1>1, <1>2, RestsOn

LEMMA UIStageSleeps ==
    ASSUME StackInv, RestInv, UIStageDone \/ UIWaitReturns, Rests(frames'),
           Opens(Top), UNCHANGED <<pump, ioVars>>
    PROVE  RestInv'
<1>1. CASE UIWaitReturns
  <2> DEFINE f == [Top EXCEPT !.pc = "Peek"]
  <2>1. frames # <<>> /\ SetTop(f)
    BY <1>1 DEF UIWaitReturns, At
  <2>2. Top \in FrameSet /\ Front(frames) \in Seq(FrameSet)
    BY <2>1, TopFrame
  <2>3. f \in FrameSet /\ f.pc = "Peek"
    BY <2>2 DEF FrameSet, Pcs, UIStages
  <2> HIDE DEF f
  <2>4. Last(frames') = f
    BY <2>1, <2>2, <2>3, PushedTop DEF SetTop
  <2> QED
    BY <2>3, <2>4 DEF Rests, Opens, Comes
<1>2. CASE UIStageDone /\ RunBreaks
  BY <1>2, EndedComes DEF RunBreaks, Returned
<1>3. CASE UIStageDone /\ RunGoesOn(NextUIStage, "Peek")
  <2> DEFINE x == NextUIStage
             f == [Top EXCEPT !.pc = x, !.done = FALSE, !.more = @ /\ x # "Peek"]
  <2>1. frames # <<>> /\ Top.fn = "Run" /\ Top.done /\ pump = "UI"
    BY <1>3 DEF UIStageDone, RunGoesOn, Returned
  <2>2. Top \in FrameSet /\ WellFormed(pump, Top)
    BY <2>1, TopFrame
  <2>3. Top.pc \in {"Peek", "DoWork", "DoDelayedWork", "DoIdleWork"}
    BY <2>1, <2>2 DEF WellFormed, UIStages
  <2>4. /\ x \in UIStages
        /\ Top.pc = "Peek" => x = "DoWork"
        /\ x = "DoDelayedWork" => Top.pc = "DoWork"
        /\ x = "DoIdleWork" => Top.pc = "DoDelayedWork"
        /\ x = "Wait" => Top.pc = "DoIdleWork"
    BY <2>3 DEF NextUIStage, UIStages
  <2>5. f.pc = x /\ ~f.done
    BY <2>2 DEF FrameSet
  <2>6. RunGoesOn(x, "Peek")
    BY <1>3
  <2> HIDE DEF x
  <2>7. x = "Peek" => Comes(f)
    BY <2>5 DEF Comes
  <2>8. PastDelayed(f) => PastDelayed(Top)
    BY <2>1, <2>4, <2>5 DEF PastDelayed, UIStages
  <2>9. UNCHANGED <<work, incoming, haveWork, posting, delayed, delayedWorkTime, runTime, completedIo>>
    BY <1>3 DEF UIStageDone, taskVars, scheduleVars, ioVars
  <2>10. frames' = Append(Front(frames), f)
    BY <2>6 DEF RunGoesOn, SetTop
  <2>11. f \in FrameSet /\ f.fn = "Run" /\ f.more = (Top.more /\ x # "Peek")
    <3>1. x \in Pcs /\ (Top.more /\ x # "Peek") \in BOOLEAN
      BY <2>4 DEF Pcs
    <3> QED
      BY <2>1, <2>2, <3>1 DEF FrameSet
  <2> HIDE DEF f
  <2>12. Last(frames') = f
    BY <2>1, <2>10, <2>11, PushedTop, TopFrame
  <2>13. x # "Peek" /\ ~f.more /\ ~(x = "DoWork")
    BY <2>5, <2>7, <2>12 DEF Rests, Opens, Comes
  <2>14. ~Top.more /\ Top.pc \notin {"Peek", "WaitIO"}
    BY <2>3, <2>4, <2>11, <2>13
  <2>15. Rests(frames)
    BY <2>1, <2>14 DEF Rests, Opens, Comes, Top
  <2> QED
    BY <2>1, <2>8, <2>9, <2>12, <2>15, StageSleeps
<1> QED
  BY <1>1, <1>2, <1>3 DEF UIStageDone

LEMMA IOStageSleeps ==
    ASSUME StackInv, RestInv, IOStageDone, Rests(frames'), Opens(Top), UNCHANGED pump
    PROVE  RestInv'
<1>1. CASE RunBreaks
  BY <1>1, EndedComes DEF RunBreaks, Returned
<1>2. ASSUME NEW b \in BOOLEAN, frames # <<>>, SetTop([Top EXCEPT !.pc = "DoWork", !.done = FALSE, !.more = b])
      PROVE  FALSE
  <2> DEFINE f == [Top EXCEPT !.pc = "DoWork", !.done = FALSE, !.more = b]
  <2>1. Top \in FrameSet /\ Front(frames) \in Seq(FrameSet)
    BY <1>2, TopFrame
  <2>2. f \in FrameSet /\ f.pc = "DoWork" /\ ~f.done
    BY <2>1 DEF FrameSet, Pcs, UIStages
  <2>3. frames' = Append(Front(frames), f)
    BY <1>2 DEF SetTop
  <2> HIDE DEF f
  <2>4. Last(frames') = f
    BY <2>1, <2>2, <2>3, PushedTop
  <2> QED
    BY <2>2, <2>4 DEF Rests, Opens, Comes
<1>3. CASE RunGoesOn(NextIOStage, "DoWork")
  <2> DEFINE x == NextIOStage
             f == [Top EXCEPT !.pc = x, !.done = FALSE, !.more = @ /\ x # "DoWork"]
  <2>1. frames # <<>> /\ Top.fn = "Run" /\ Top.done /\ pump = "IO"
    BY <1>3 DEF IOStageDone, RunGoesOn, Returned
  <2>2. Top \in FrameSet /\ WellFormed(pump, Top)
    BY <2>1, TopFrame
  <2>3. Top.pc \in IOStages
    BY <2>1, <2>2 DEF WellFormed
  <2>4. /\ x \in IOStages
        /\ x = "PollIO" => Top.pc = "DoWork"
        /\ x = "DoDelayedWork" => Top.pc = "PollIO"
        /\ x = "DoIdleWork" => Top.pc = "DoDelayedWork"
        /\ x = "WaitIO" => Top.pc = "DoIdleWork"
    BY <2>3 DEF NextIOStage, IOStages
  <2>5. f.pc = x /\ ~f.done
    BY <2>2 DEF FrameSet
  <2>6. RunGoesOn(x, "DoWork")
    BY <1>3
  <2> HIDE DEF x
  <2>7. x = "DoWork" => Comes(f)
    BY <2>5 DEF Comes
  <2>8. (PastDelayed(f) => PastDelayed(Top)) /\ (PastPoll(f) => PastPoll(Top))
    BY <2>1, <2>4, <2>5 DEF PastDelayed, PastPoll, IOStages
  <2>9. UNCHANGED <<work, incoming, haveWork, posting, delayed, delayedWorkTime, runTime, completedIo>>
    BY DEF IOStageDone, taskVars, scheduleVars, timeVars, ioVars
  <2>10. frames' = Append(Front(frames), f)
    BY <2>6 DEF RunGoesOn, SetTop
  <2>11. f \in FrameSet /\ f.fn = "Run" /\ f.more = (Top.more /\ x # "DoWork")
    <3>1. x \in Pcs /\ (Top.more /\ x # "DoWork") \in BOOLEAN
      BY <2>4 DEF Pcs
    <3> QED
      BY <2>1, <2>2, <3>1 DEF FrameSet
  <2> HIDE DEF f
  <2>12. Last(frames') = f
    BY <2>1, <2>10, <2>11, PushedTop, TopFrame
  <2>13. x # "DoWork" /\ ~f.more
    BY <2>7, <2>12 DEF Rests, Opens, Comes
  <2>14. Top.pc \notin {"Peek", "WaitIO"}
    BY <2>4, <2>13 DEF IOStages
  <2>15. Rests(frames)
    BY <2>1, <2>11, <2>13, <2>14 DEF Rests, Opens, Comes, Top
  <2> QED
    BY <2>8, <2>9, <2>12, <2>15, StageSleeps
<1>4. CASE Returned("Run") /\ SetTop([Top EXCEPT !.pc = "DoWork", !.done = FALSE, !.more = FALSE])
  BY <1>2, <1>4 DEF Returned
<1> QED
  BY <1>1, <1>3, <1>4 DEF IOStageDone

(* An item that is handled is work done; only a poll that finds nothing    *)
(* leaves a Run at rest, and then nothing is saved.                        *)
LEMMA CalledAbove ==
    ASSUME StackInv, frames # <<>>, Top.pc \in StagePcs, NEW g \in FrameSet, g.fn # "Run",
           Call(TRUE, g)
    PROVE  ~Rests(frames')
<1> DEFINE r == Append(Front(frames), After(TRUE))
<1>1. After(TRUE) \in FrameSet /\ Front(frames) \in Seq(FrameSet)
  BY StageReturns, TopFrame, Zenon
<1>2. Front(frames) \o <<After(TRUE)>> = r /\ r \in Seq(FrameSet)
  BY <1>1, AppendIsConcat, PushedFrame
<1>3. frames' = Append(r, g)
  BY <1>2 DEF Call
<1> HIDE DEF r
<1>4. Last(frames') = g
  BY <1>2, <1>3, PushedTop
<1> QED
  BY <1>4 DEF Rests, Opens

LEMMA HandledComes ==
    ASSUME StackInv, frames # <<>>, Top.pc \in {"PollIO", "WaitIO"}, UNCHANGED nestableAllowed,
           NEW o, NEW saved, NEW filter, HandleItem(o, saved, filter)
    PROVE  ~Rests(frames')
<1>1. Top.pc \in StagePcs
  BY DEF StagePcs
<1>2. CASE Return(TRUE)
  <2>1. Last(frames') = After(TRUE)
    BY <1>1, <1>2, ReturnTurns, Zenon
  <2>2. After(TRUE).more
    BY <1>1, StageReturns, Zenon
  <2> QED
    BY <2>1, <2>2 DEF Rests, Opens, Comes
<1>3. CASE Call(TRUE, Frame("Handler", "Program"))
  <2>1. Frame("Handler", "Program") \in FrameSet /\ Frame("Handler", "Program").fn # "Run"
    BY PumpFrames DEF Frame
  <2> QED
    BY <1>1, <1>3, <2>1, CalledAbove
<1> QED
  BY <1>2, <1>3 DEF HandleItem

LEMMA ItemSleeps ==
    ASSUME TypeOK, StackInv, RestInv, TakeSavedItem \/ GetIOItem \/ NoIOItem, Rests(frames'),
           Opens(Top), UNCHANGED pump
    PROVE  RestInv'
<1>1. frames # <<>> /\ Top.pc \in {"PollIO", "WaitIO"} /\ ~Top.done /\ UNCHANGED nestableAllowed
  BY DEF TakeSavedItem, GetIOItem, NoIOItem, InWaitForIO, At
<1>2. Top.pc \in StagePcs
  BY <1>1 DEF StagePcs
<1>3. CASE TakeSavedItem
  BY <1>1, <1>3, HandledComes DEF TakeSavedItem
<1>4. CASE GetIOItem
  <2>1. ~Call(TRUE, Frame("Internal", "Internal"))
    <3>1. Frame("Internal", "Internal") \in FrameSet /\ Frame("Internal", "Internal").fn # "Run"
      BY PumpFrames DEF Frame
    <3> QED
      BY <1>1, <1>2, <3>1, CalledAbove
  <2> QED
    BY <1>1, <1>4, <2>1, HandledComes DEF GetIOItem
<1>5. CASE NoIOItem
  <2>1. Return(FALSE) /\ UNCHANGED <<work, incoming, haveWork, posting, delayed, delayedWorkTime, runTime, completedIo>>
    BY <1>5 DEF NoIOItem, taskVars, scheduleVars, timeVars, ioVars
  <2>2. Last(frames') = After(FALSE)
    BY <1>1, <1>2, <2>1, ReturnTurns, Zenon
  <2>3. Top \in FrameSet /\ WellFormed(pump, Top)
    BY <1>1, TopFrame
  <2>4. /\ After(FALSE).pc = Top.pc /\ After(FALSE).more = Top.more /\ After(FALSE).done
    BY <1>1, <1>2, <2>3, StageReturns DEF FrameSet
  <2>5. Top.pc = "PollIO" /\ ~Top.more
    BY <1>1, <2>2, <2>4 DEF Rests, Opens, Comes
  <2>6. Rests(frames)
    BY <1>1, <2>5 DEF Rests, Opens, Comes, Top
  <2>7. completedIo = <<>>
    <3>1. Top.filter = NoHandler
      BY <2>3 DEF WellFormed, Opens
    <3>2. Matches(NoHandler) = {}
      BY <1>5, <3>1 DEF NoIOItem
    <3>3. DOMAIN completedIo = {}
      BY <3>2 DEF Matches
    <3> QED
      BY <3>3 DEF TypeOK
  <2>8. work = <<>> /\ Noticed
    BY <2>6 DEF RestInv
  <2>9. work' = <<>> /\ Noticed' /\ completedIo' = <<>>
    BY <2>1, <2>7, <2>8 DEF Noticed
  <2> QED
    BY <2>2, <2>4, <2>5, <2>9, RestsOn DEF PastDelayed
<1> QED
  BY <1>3, <1>4, <1>5


(* What others do: they notice the loop of what they post, and what they   *)
(* post is due no earlier than what was there is.                          *)
LEMMA OthersSleep ==
    ASSUME TypeOK, StackInv, HeldOld, RestInv, UNCHANGED <<pump, frames>>,
           Clock \/ (\E p \in Posters : PosterStep(p) \/ Post(p))
                 \/ (\E o \in Operations : Completion(o)) \/ (UserInput /\ UNCHANGED ioVars)
    PROVE  RestInv'
<1> SUFFICES ASSUME Rests(frames)
             PROVE  RestInv'
  BY DEF RestInv
<1>1. Last(frames') = Top
  BY DEF Top
<1>2. /\ work = <<>> /\ Noticed
      /\ pump = "IO" /\ PastPoll(Top) => completedIo = <<>>
      /\ PastDelayed(Top) => WakesInTime
  BY DEF RestInv
<1>3. /\ UNCHANGED <<work, delayed, delayedWorkTime, completedIo>>
  BY DEF Clock, Tick, PosterStep, Post, PosterExchanges, PosterPosts, PosterPushes, Completion,
         CompleteIO, UserInput, taskVars, timeVars, ioVars
<1>4. CASE Clock \/ (\E o \in Operations : Completion(o)) \/ UserInput
  <2>1. UNCHANGED <<incoming, haveWork, posting, runTime>>
    BY <1>4 DEF Clock, Tick, Completion, CompleteIO, UserInput, taskVars, scheduleVars
  <2> QED
    BY <1>1, <1>3, <2>1, StageSleeps
<1>5. ASSUME NEW p \in Posters, PosterExchanges(p)
      PROVE  RestInv'
  <2>1. haveWork' /\ UNCHANGED runTime
    BY <1>5 DEF PosterExchanges, taskVars
  <2>2. Noticed' /\ (WakesInTime => WakesInTime')
    BY <1>3, <2>1 DEF Noticed, WakesInTime
  <2> QED
    BY <1>1, <1>2, <1>3, <2>2, RestsOn
<1>6. ASSUME NEW p \in Posters, PosterPosts(p)
      PROVE  RestInv'
  <2>1. /\ posting[p] = "post" /\ posting' = [posting EXCEPT ![p] = "idle"]
        /\ UNCHANGED <<incoming, haveWork, runTime>>
    BY <1>6 DEF PosterPosts, taskVars
  <2>2. \A r \in Posters : posting[r] = "exchange" => posting'[r] = "exchange"
    BY <2>1 DEF TypeOK
  <2>3. Noticed'
    BY <1>2, <2>1, <2>2 DEF Noticed
  <2>4. WakesInTime => WakesInTime'
    BY <1>3, <2>1 DEF WakesInTime
  <2> QED
    BY <1>1, <1>2, <1>3, <2>3, <2>4, RestsOn
<1>7. ASSUME NEW p \in Posters, PosterPushes(p)
      PROVE  RestInv'
  <2>1. PICK t \in Fresh : Push(t)
    BY <1>7 DEF PosterPushes
  <2>2. /\ posting[p] = "idle" /\ UNCHANGED haveWork
        /\ posting' = [posting EXCEPT ![p] = IF incoming = <<>> THEN "exchange" ELSE "idle"]
    BY <1>7 DEF PosterPushes, scheduleVars
  <2>3. Noticed'
    <3>1. CASE incoming = <<>>
      <4>1. posting'[p] = "exchange"
        BY <2>2, <3>1 DEF TypeOK
      <4> QED
        BY <4>1 DEF Noticed
    <3>2. CASE incoming # <<>>
      <4>1. haveWork \/ \E r \in Posters : posting[r] = "exchange"
        BY <1>2, <3>2 DEF Noticed
      <4>2. \A r \in Posters : posting[r] = "exchange" => posting'[r] = "exchange"
        BY <2>2, <3>2 DEF TypeOK
      <4> QED
        BY <2>2, <4>1, <4>2 DEF Noticed
    <3> QED
      BY <3>1, <3>2
  <2>4. WakesInTime => WakesInTime'
    <3>1. ToSet(delayed) \subseteq Tasks /\ t \notin ToSet(delayed)
      BY <2>1, ListedTask DEF HeldOld, Held, Fresh, TypeOK
    <3>2. \A u \in ToSet(delayed) : runTime'[u] = runTime[u]
      BY <2>1, <3>1 DEF Push, TypeOK
    <3> QED
      BY <1>3, <3>2 DEF WakesInTime
  <2> QED
    BY <1>1, <1>2, <1>3, <2>3, <2>4, RestsOn
<1> QED
  BY <1>4, <1>5, <1>6, <1>7 DEF PosterStep, Post

LEMMA NextSleeps ==
    ASSUME TypeInv, StackInv, AllowInv, HeldOld, RestInv, NoneSaved, Next,
           StackMoves, UNCHANGED pump
    PROVE  RestInv' /\ NoneSaved'
<1>1. NoneSaved'
  <2>1. CASE TakeSavedItem \/ GetIOItem
    <3>1. pump = "IO"
      BY <2>1, WaitForIOPump DEF TakeSavedItem, GetIOItem
    <3> QED
      BY <3>1 DEF NoneSaved
  <2>2. CASE ~(TakeSavedItem \/ GetIOItem)
    <3>1. UNCHANGED completedIo
      BY <2>2 DEF Next, ThreadStep, LoopStep, WindowStep, IOStep, Returns, Closes, Program, Clock,
           PosterStep, Post, Completion, CompleteIO, NoIOItem, ProcessInternalIOItem,
           IOStageDone, WaitForIOEnds, IORun, WaitForIOCompletion, HandlerGone, ioVars
    <3> QED
      BY <3>1 DEF NoneSaved
  <2> QED
    BY <2>1, <2>2
<1>2. ASSUME Rests(frames')
      PROVE  RestInv'
  <2>1. /\ frames # <<>> /\ Opens(Top) /\ Top.fn = "Run"
        /\ Top \in FrameSet /\ WellFormed(pump, Top)
    BY <1>2, RestsAfter DEF Opens
  <2>2. Top.pc \notin ResetPcs \cup DispatchPcs \cup {"Program", "Modal"}
    BY <2>1 DEF WellFormed, ResetPcs, DispatchPcs, UIStages, IOStages
  <2>3. CASE LoopStep
    BY <1>2, <2>1, <2>3, LoopSleeps DEF TypeInv
  <2>4. CASE WindowStep
    <3>1. CASE PeekNext
      BY <1>2, <3>1, PeekSleeps
    <3>2. CASE UIStageDone \/ UIWaitReturns
      <4>1. UNCHANGED ioVars
        BY <2>4 DEF WindowStep
      <4> QED
        BY <1>2, <2>1, <3>2, <4>1, UIStageSleeps
    <3> QED
      BY <2>1, <2>2, <2>4, <3>1, <3>2 DEF WindowStep, PeekReplacement, ExchangeHaveWork,
         DispatchReplacement, UIDispatch, EmbedDispatch, DispatchInModal, WorkMessageOutsideRun,
         EmbedWorkMessage, WorkMessageEnds, TimerMessageEnds, At, Returned, ResetPcs, DispatchPcs
  <2>5. CASE IOStep
    <3>1. CASE TakeSavedItem \/ GetIOItem \/ NoIOItem
      BY <1>2, <2>1, <3>1, ItemSleeps DEF TypeInv
    <3>2. CASE IOStageDone
      BY <1>2, <2>1, <3>2, IOStageSleeps
    <3> QED
      BY <2>1, <2>2, <2>5, <3>1, <3>2 DEF IOStep, ProcessInternalIOItem, WaitForIOEnds, At, Returned,
         ResetPcs
  <2>6. CASE UserInput /\ UNCHANGED ioVars
    <3>1. UNCHANGED frames
      BY <2>6 DEF UserInput
    <3> QED
      BY <2>6, <3>1, OthersSleep DEF TypeInv
  <2>7. CASE Clock \/ (\E p \in Posters : PosterStep(p) \/ Post(p)) \/ (\E o \in Operations : Completion(o))
    <3>1. UNCHANGED frames
      BY <2>7 DEF Clock, Tick, PosterStep, Post, PosterExchanges, PosterPosts, PosterPushes,
         Completion, CompleteIO
    <3> QED
      BY <2>7, <3>1, OthersSleep DEF TypeInv
  <2>8. CASE Returns \/ Closes
    BY <2>1, <2>2, <2>8 DEF Returns, Closes, Finish, CloseModal, InProgram, At
  <2>9. CASE \/ OwnThreadPost \/ Quit \/ UIRun \/ UIRunNested \/ OpenModal \/ EmbedQuit \/ IORun
             \/ WaitForIOCompletion \/ \E h \in Handlers : HandlerGone(h)
    BY <2>1, <2>2, <2>9 DEF OwnThreadPost, Quit, UIRun, UIRunNested, OpenModal, EnterNested,
       EmbedQuit, IORun, WaitForIOCompletion, HandlerGone, InProgram, At
  <2> QED
    BY <2>3, <2>4, <2>5, <2>6, <2>7, <2>8, <2>9 DEF Next, ThreadStep, Program
<1>3. ~Rests(frames') => RestInv'
  BY DEF RestInv
<1> QED
  BY <1>1, <1>2, <1>3

(* The invariant of sleeping, on top of the others.                        *)
SleepInv == PumpsInv /\ HeldOld /\ RestInv /\ NoneSaved

LEMMA InitSleep ==
    ASSUME Init
    PROVE  SleepInv
<1>1. PumpsInv
  BY InitPumps
<1>2. incoming = <<>> /\ work = <<>> /\ delayed = <<>> /\ completedIo = <<>>
  BY DEF Init, IOInit
<1>3. HeldOld
  BY <1>2 DEF HeldOld, Held, ToSet
<1>4. ~Rests(frames)
  <2> DEFINE m == ModalFrame
  <2>1. m.fn = "Modal" /\ m \in FrameSet
    BY PumpFrames DEF ModalFrame, Frame
  <2>2. frames = <<m>> \/ frames = <<>>
    BY DEF Init, EmbedInit
  <2> HIDE DEF m
  <2>3. Last(<<m>>) = m
    BY <2>1 DEF Last
  <2> QED
    BY <2>1, <2>2, <2>3 DEF Rests, Opens
<1> QED
  BY <1>1, <1>2, <1>3, <1>4 DEF SleepInv, RestInv, NoneSaved

LEMMA NextSleep ==
    ASSUME SleepInv, [Next]_vars
    PROVE  SleepInv'
<1>1. PumpsInv'
  BY NextPumps DEF SleepInv
<1>2. CASE UNCHANGED vars
  BY <1>1, <1>2 DEF vars, taskVars, scheduleVars, timeVars, ioVars, SleepInv, HeldOld, Held, RestInv,
     NoneSaved, Noticed, WakesInTime, Top
<1>3. CASE Next
  <2>1. StackMoves /\ UNCHANGED pump
    BY <1>3, PumpsMove DEF SleepInv
  <2>2. RestInv' /\ NoneSaved'
    BY <1>3, <2>1, NextSleeps DEF SleepInv, PumpsInv
  <2>3. HeldOld'
    BY <1>3, HeldStep DEF SleepInv, PumpsInv, TypeInv
  <2> QED
    BY <1>1, <2>2, <2>3 DEF SleepInv
<1> QED
  BY <1>2, <1>3

LEMMA SleepsSafely ==
    ASSUME SleepInv
    PROVE  SleepsOnNothing
<1> SUFFICES ASSUME Asleep
             PROVE  /\ incoming = <<>> /\ work = <<>> /\ completedIo = <<>>
                    /\ delayed # <<>> => /\ delayedWorkTime # Null
                                         /\ delayedWorkTime <= runTime[Earliest(delayed)]
  BY DEF SleepsOnNothing
<1>1. frames # <<>> /\ ~Top.done /\ Top.pc \in {"Wait", "WaitIO"} /\ (Top.pc = "WaitIO" => Top.fn = "Run")
  BY DEF Asleep, At
<1>2. Top \in FrameSet /\ WellFormed(pump, Top)
  BY <1>1, TopFrame DEF SleepInv, PumpsInv
<1>3. Top.fn = "Run" /\ ~Top.more
  <2>1. Top.fn = "Run"
    BY <1>1, <1>2 DEF WellFormed, FrameSet, Fns, ResetPcs, DispatchPcs
  <2> QED
    BY <1>1, <1>2, <2>1 DEF WellFormed
<1>4. Rests(frames)
  BY <1>1, <1>3 DEF Rests, Opens, Comes, Top, Asleep
<1>5. work = <<>> /\ Noticed /\ WakesInTime
  BY <1>1, <1>4 DEF SleepInv, RestInv, PastDelayed
<1>6. completedIo = <<>>
  <2>1. CASE pump = "IO"
    <3>1. Top.pc = "WaitIO"
      BY <1>1, <1>2, <1>3, <2>1 DEF WellFormed, IOStages
    <3> QED
      BY <1>4, <2>1, <3>1 DEF SleepInv, RestInv, PastPoll
  <2> QED
    BY <2>1 DEF SleepInv, NoneSaved
<1>7. ~haveWork
  <2>1. queue = <<>> /\ \A p \in Posters : posting[p] = "idle"
    BY DEF Asleep, Settled
  <2>2. ~QueuedIn(queue) /\ ~Posted
    BY <2>1 DEF QueuedIn, Posted
  <2>3. ~MustReset(frames)
    BY <1>1 DEF MustReset, Top, ResetPcs
  <2> QED
    BY <2>2, <2>3 DEF SleepInv, PumpsInv, HaveWorkInv
<1>8. incoming = <<>>
  BY <1>5, <1>7 DEF Noticed, Asleep, Settled
<1>9. ASSUME delayed # <<>>
      PROVE  delayedWorkTime # Null /\ delayedWorkTime <= runTime[Earliest(delayed)]
  <2>1. delayed \in Seq(Tasks) /\ runTime \in [Tasks -> Nat]
    BY WinMessageLoopAssumption DEF SleepInv, PumpsInv, TypeInv, TypeOK
  <2>2. Earliest(delayed) \in ToSet(delayed)
    BY <1>9, <2>1, EarliestIsFirst
  <2> QED
    BY <1>5, <2>2 DEF WakesInTime
<1> QED
  BY <1>5, <1>6, <1>8, <1>9

(* A Run that sleeps, of either pump, has no task and no completion left   *)
(* to handle, and wakes up in time for the first delayed task: the         *)
(* exchange of have_work_ loses no post, whenever it comes, and no         *)
(* set-aside completion is forgotten.  This holds of every Run that does   *)
(* not forbid nestable tasks, whatever loops, native or not and with an    *)
(* allower or without, were nested in it and have ended.                   *)
THEOREM SleepsOnNothingCorrect == Spec => []SleepsOnNothing
BY InitSleep, NextSleep, SleepsSafely, PTL DEF Spec

(* "No further work is done once the quit flag is set" (message_pump.h):   *)
(* true of every Run but in the one turn of the IO pump that QuitStopsRun  *)
(* leaves open.                                                            *)
THEOREM QuitStopsRunCorrect == Spec => QuitStopsRun
<1>1. ASSUME PumpsInv, [Next]_vars
      PROVE  [StartsTask /\ Top.fn = "Run" /\ Top.quit => pump = "IO" /\ At("DoWork")]_vars
  BY <1>1, QuitStops DEF PumpsInv, TypeInv
<1> QED
  BY <1>1, InitPumps, NextPumps, PTL DEF Spec, QuitStopsRun

-----------------------------------------------------------------------------
(* The order of completions.  Whatever is still to be handled lies in the  *)
(* order of completion, first what is set aside, then what is on the port; *)
(* what is done was delivered, but for handlers that are gone.             *)
Sorted(c, s) == \A i, j \in DOMAIN s :
    i < j /\ s[i] \in Operations /\ s[j] \in Operations => Precedes(c, s[i], s[j])
LiesIn(s, st) == \A o \in Operations : o \in ToSet(s) <=> state[o] = st
Reported == completions \in Seq(Operations) /\ IsInjective(completions)
            /\ \A o \in Operations : o \in ToSet(completions)
                                       <=> state[o] \in {"completed", "saved", "done"}
SavedFirst == \A o, q \in Operations :
    state[o] = "saved" /\ state[q] = "completed" => Precedes(completions, o, q)
Delivered == /\ deliveries \in Seq(Operations) /\ IsInjective(deliveries)
             /\ \A o \in ToSet(deliveries) : state[o] = "done"
             /\ \A o \in Operations : state[o] = "done" /\ ~Gone(o) => o \in ToSet(deliveries)
             /\ \A o, q \in Operations :
                  HandlerOfIO[o] = HandlerOfIO[q] /\ ~Gone(o) /\ Precedes(completions, o, q)
                    /\ q \in ToSet(deliveries) => Precedes(deliveries, o, q)
Ordered == /\ Reported /\ SavedFirst /\ Delivered
           /\ Sorted(completions, queue) /\ LiesIn(queue, "completed")
           /\ Sorted(completions, completedIo) /\ LiesIn(completedIo, "saved")
OrderInv == /\ pump = "IO" => Ordered
            /\ pump # "IO" => completions = <<>> /\ deliveries = <<>>

LEMMA PrecedesOn ==
    ASSUME NEW S, NEW s \in Seq(S), NEW x
    PROVE  /\ \A o, q : Precedes(s, o, q) => o \in ToSet(s) /\ q \in ToSet(s)
           /\ \A o, q : Precedes(s, o, q) => Precedes(Append(s, x), o, q)
           /\ \A o \in ToSet(s) : Precedes(Append(s, x), o, x)
           /\ \A o, q : Precedes(Append(s, x), o, q) => Precedes(s, o, q) \/ q = x
<1> DEFINE r == Append(s, x)
<1>1. /\ Len(s) \in Nat /\ DOMAIN s = 1 .. Len(s) /\ DOMAIN r = 1 .. Len(s) + 1
      /\ r[Len(s) + 1] = x /\ \A i \in 1 .. Len(s) : r[i] = s[i]
  OBVIOUS
<1> HIDE DEF r
<1>2. \A o, q : Precedes(s, o, q) => o \in ToSet(s) /\ q \in ToSet(s)
  BY DEF Precedes, ToSet
<1>3. ASSUME NEW o, NEW q, Precedes(s, o, q)
      PROVE  Precedes(r, o, q)
  <2>1. PICK i \in DOMAIN s, j \in DOMAIN s : i < j /\ s[i] = o /\ s[j] = q
    BY <1>3 DEF Precedes
  <2>2. i \in DOMAIN r /\ j \in DOMAIN r /\ r[i] = o /\ r[j] = q
    BY <1>1, <2>1
  <2> QED
    BY <2>1, <2>2 DEF Precedes
<1>4. ASSUME NEW o \in ToSet(s)
      PROVE  Precedes(r, o, x)
  <2>1. PICK i \in DOMAIN s : s[i] = o
    BY DEF ToSet
  <2>2. i \in DOMAIN r /\ Len(s) + 1 \in DOMAIN r /\ i < Len(s) + 1 /\ r[i] = o
    BY <1>1, <2>1
  <2> QED
    BY <1>1, <2>2 DEF Precedes
<1>5. ASSUME NEW o, NEW q, Precedes(r, o, q)
      PROVE  Precedes(s, o, q) \/ q = x
  <2>1. PICK i \in DOMAIN r, j \in DOMAIN r : i < j /\ r[i] = o /\ r[j] = q
    BY <1>5 DEF Precedes
  <2>2. CASE j = Len(s) + 1
    BY <1>1, <2>1, <2>2
  <2>3. CASE j # Len(s) + 1
    <3>1. i \in DOMAIN s /\ j \in DOMAIN s /\ s[i] = o /\ s[j] = q
      BY <1>1, <2>1, <2>3
    <3> QED
      BY <2>1, <3>1 DEF Precedes
  <2> QED
    BY <2>2, <2>3
<1> QED
  BY <1>2, <1>3, <1>4, <1>5 DEF r

LEMMA PrecedesOnce ==
    ASSUME NEW S, NEW s \in Seq(S), IsInjective(s), NEW o, NEW q, Precedes(s, o, q)
    PROVE  o # q /\ ~Precedes(s, q, o)
BY DEF Precedes, IsInjective

(* What putting an element last, taking the first one and taking one out   *)
(* do to a sorted sequence.                                                *)
LEMMA SortedOn ==
    ASSUME NEW S, NEW s \in Seq(S), NEW x, NEW c, Sorted(c, s),
           x \in Operations => \A o \in ToSet(s) : o \in Operations => Precedes(c, o, x)
    PROVE  Sorted(c, Append(s, x))
<1> DEFINE r == Append(s, x)
<1>1. /\ Len(s) \in Nat /\ DOMAIN s = 1 .. Len(s) /\ DOMAIN r = 1 .. Len(s) + 1
      /\ r[Len(s) + 1] = x /\ \A i \in 1 .. Len(s) : r[i] = s[i]
  OBVIOUS
<1> HIDE DEF r
<1>2. ASSUME NEW i \in DOMAIN r, NEW j \in DOMAIN r, i < j, r[i] \in Operations, r[j] \in Operations
      PROVE  Precedes(c, r[i], r[j])
  <2>1. i \in DOMAIN s /\ r[i] = s[i]
    BY <1>1, <1>2
  <2>2. CASE j = Len(s) + 1
    <3>1. r[i] \in ToSet(s) /\ r[j] = x
      BY <1>1, <2>1, <2>2 DEF ToSet
    <3> QED
      BY <1>2, <3>1
  <2>3. CASE j # Len(s) + 1
    <3>1. j \in DOMAIN s /\ r[j] = s[j]
      BY <1>1, <2>3
    <3> QED
      BY <1>2, <2>1, <3>1 DEF Sorted
  <2> QED
    BY <2>2, <2>3
<1> QED
  BY <1>2 DEF Sorted, r

LEMMA SortedOff ==
    ASSUME NEW S, NEW s \in Seq(S), s # <<>>, NEW c, Sorted(c, s), Head(s) \in Operations
    PROVE  \A o \in ToSet(Tail(s)) : o \in Operations => Precedes(c, Head(s), o)
<1> DEFINE r == Tail(s)
<1>1. /\ Len(s) \in Nat \ {0} /\ DOMAIN s = 1 .. Len(s) /\ Head(s) = s[1]
      /\ DOMAIN r = 1 .. Len(s) - 1 /\ \A i \in 1 .. Len(s) - 1 : r[i] = s[i + 1]
  OBVIOUS
<1> HIDE DEF r
<1>2. ASSUME NEW i \in DOMAIN r, r[i] \in Operations
      PROVE  Precedes(c, Head(s), r[i])
  <2>1. 1 \in DOMAIN s /\ i + 1 \in DOMAIN s /\ 1 < i + 1 /\ r[i] = s[i + 1]
    BY <1>1
  <2> QED
    BY <1>1, <1>2, <2>1 DEF Sorted
<1> QED
  BY <1>2 DEF ToSet, r

LEMMA SortedTail ==
    ASSUME NEW S, NEW s \in Seq(S), s # <<>>, NEW c, Sorted(c, s)
    PROVE  Sorted(c, Tail(s))
<1> DEFINE r == Tail(s)
<1>1. /\ Len(s) \in Nat \ {0} /\ DOMAIN s = 1 .. Len(s)
      /\ DOMAIN r = 1 .. Len(s) - 1 /\ \A i \in 1 .. Len(s) - 1 : r[i] = s[i + 1]
  OBVIOUS
<1> HIDE DEF r
<1>2. ASSUME NEW i \in DOMAIN r, NEW j \in DOMAIN r, i < j, r[i] \in Operations, r[j] \in Operations
      PROVE  Precedes(c, r[i], r[j])
  <2>1. /\ i + 1 \in DOMAIN s /\ j + 1 \in DOMAIN s /\ i + 1 < j + 1
        /\ r[i] = s[i + 1] /\ r[j] = s[j + 1]
    BY <1>1, <1>2
  <2> QED
    BY <1>2, <2>1 DEF Sorted
<1> QED
  BY <1>2 DEF Sorted, r

LEMMA SortedOut ==
    ASSUME NEW S, NEW s \in Seq(S), NEW c, Sorted(c, s), NEW k \in DOMAIN s
    PROVE  Sorted(c, RemoveAt(s, k))
<1> DEFINE r == RemoveAt(s, k)
           from == [l \in 1 .. Len(s) - 1 |-> IF l < k THEN l ELSE l + 1]
<1>1. Len(s) \in Nat /\ DOMAIN s = 1 .. Len(s) /\ k \in 1 .. Len(s)
  OBVIOUS
<1>2. /\ r \in Seq(S) /\ Len(r) = Len(s) - 1
      /\ \A l \in 1 .. Len(s) - 1 : r[l] = IF l < k THEN s[l] ELSE s[l + 1]
  BY RemovedAt
<1> HIDE DEF r
<1>3. DOMAIN r = 1 .. Len(s) - 1
  BY <1>2
<1>4. ASSUME NEW l \in 1 .. Len(s) - 1
      PROVE  from[l] \in DOMAIN s /\ r[l] = s[from[l]]
  <2>1. CASE l < k
    BY <1>1, <1>2, <2>1
  <2>2. CASE ~(l < k)
    BY <1>1, <1>2, <2>2
  <2> QED
    BY <2>1, <2>2
<1>5. \A l, m \in 1 .. Len(s) - 1 : l < m => from[l] < from[m]
  BY <1>1
<1> HIDE DEF from
<1>6. ASSUME NEW i \in DOMAIN r, NEW j \in DOMAIN r, i < j, r[i] \in Operations, r[j] \in Operations
      PROVE  Precedes(c, r[i], r[j])
  BY <1>3, <1>4, <1>5, <1>6 DEF Sorted
<1> QED
  BY <1>6 DEF Sorted, r

LEMMA SortedOnce ==
    ASSUME NEW s \in Seq(Operations), NEW c \in Seq(Operations), IsInjective(c), Sorted(c, s)
    PROVE  IsInjective(s)
<1>1. \A i, j \in DOMAIN s : i < j => s[i] # s[j]
  <2>1. ASSUME NEW i \in DOMAIN s, NEW j \in DOMAIN s, i < j
        PROVE  s[i] # s[j]
    <3>1. Precedes(c, s[i], s[j])
      BY <2>1 DEF Sorted
    <3> QED
      BY <3>1, PrecedesOnce
  <2> QED
    BY <2>1
<1>2. \A i, j \in DOMAIN s : i < j \/ j < i \/ i = j
  OBVIOUS
<1> QED
  BY <1>1, <1>2 DEF IsInjective

(* An item is taken and handled, set aside or cleaned up.                  *)
Takes(o, saved, filter) ==
    /\ HandleItem(o, saved, filter) /\ UNCHANGED <<handler, completions>>
    /\ state[o] \in {"completed", "saved"} /\ saved \in Seq(Operations)
    /\ Sorted(completions, queue') /\ Sorted(completions, saved)
    /\ \A x \in Operations : x \in ToSet(queue') <=> (state[x] = "completed" /\ x # o)
    /\ \A x \in Operations : x \in ToSet(saved) <=> (state[x] = "saved" /\ x # o)
    /\ \A x \in Operations : state[x] = "completed" /\ x # o => Precedes(completions, o, x)
    /\ Wanted(o, filter) => \A x \in Operations :
         state[x] = "saved" /\ HandlerOfIO[x] = HandlerOfIO[o] /\ x # o => Precedes(completions, o, x)
    /\ ~Wanted(o, filter) => \A x \in Operations :
         state[x] = "saved" => Precedes(completions, x, o)
Items == [Operations -> {"unused", "pending", "completed", "saved", "done"}]

LEMMA TakenDelivered ==
    ASSUME Ordered, NEW o \in Operations, NEW saved, NEW filter, Takes(o, saved, filter),
           state \in Items
    PROVE  Delivered'
<1>1. /\ UNCHANGED <<handler, completions>> /\ state[o] \in {"completed", "saved"}
      /\ HandleItem(o, saved, filter)
  BY DEF Takes
<1>2. /\ deliveries \in Seq(Operations) /\ IsInjective(deliveries)
      /\ \A x \in ToSet(deliveries) : state[x] = "done"
      /\ \A x \in Operations : state[x] = "done" /\ ~Gone(x) => x \in ToSet(deliveries)
      /\ \A x, y \in Operations :
           HandlerOfIO[x] = HandlerOfIO[y] /\ ~Gone(x) /\ Precedes(completions, x, y)
             /\ y \in ToSet(deliveries) => Precedes(deliveries, x, y)
  BY DEF Ordered, Delivered
<1>3. ToSet(deliveries) \subseteq Operations
  BY <1>2 DEF ToSet
<1>4. \A x : Gone(x)' <=> Gone(x)
  BY <1>1 DEF Gone
<1>5. o \notin ToSet(deliveries)
  BY <1>1, <1>2
<1>6. CASE UNCHANGED deliveries
  <2>1. \/ state' = [state EXCEPT ![o] = "done"] /\ Gone(o)
        \/ state' = [state EXCEPT ![o] = "saved"]
    <3>1. ~ (deliveries' = Append(deliveries, o))
      BY <1>2, <1>6
    <3> QED
      BY <1>1, <3>1 DEF HandleItem
  <2>2. \A x \in Operations : x # o => state'[x] = state[x]
    BY <2>1 DEF Items
  <2>3. state'[o] = "done" => Gone(o)
    BY <2>1 DEF Items
  <2>4. \A x \in ToSet(deliveries) : state'[x] = "done"
    BY <1>2, <1>3, <1>5, <2>2
  <2>5. \A x \in Operations : state'[x] = "done" /\ ~Gone(x) => x \in ToSet(deliveries)
    BY <1>2, <2>2, <2>3
  <2> QED
    BY <1>1, <1>2, <1>4, <1>6, <2>4, <2>5 DEF Delivered
<1>7. CASE ~ UNCHANGED deliveries
  <2>1. /\ ~Gone(o) /\ Wanted(o, filter) /\ state' = [state EXCEPT ![o] = "done"]
        /\ deliveries' = Append(deliveries, o)
    BY <1>1, <1>7 DEF HandleItem
  <2>2. \A x \in Operations : state'[x] = IF x = o THEN "done" ELSE state[x]
    BY <2>1 DEF Items
  <2>3. /\ deliveries' \in Seq(Operations) /\ IsInjective(deliveries')
        /\ ToSet(deliveries') = ToSet(deliveries) \cup {o}
    BY <1>2, <1>5, <2>1, PushedOnto
  <2>4. \A x \in ToSet(deliveries') : state'[x] = "done"
    BY <1>2, <1>3, <2>2, <2>3
  <2>5. \A x \in Operations : state'[x] = "done" /\ ~Gone(x) => x \in ToSet(deliveries')
    BY <1>2, <2>2, <2>3
  <2>6. ASSUME NEW x \in Operations, NEW y \in Operations, HandlerOfIO[x] = HandlerOfIO[y], ~Gone(x),
               Precedes(completions, x, y), y \in ToSet(deliveries')
        PROVE  Precedes(deliveries', x, y)
    <3>1. CASE y # o
      <4>1. Precedes(deliveries, x, y)
        BY <1>2, <2>3, <2>6, <3>1
      <4> QED
        BY <1>2, <2>1, <4>1, PrecedesOn
    <3>2. CASE y = o
      <4>1. completions \in Seq(Operations) /\ IsInjective(completions)
        BY DEF Ordered, Reported
      <4>2. x # o /\ ~Precedes(completions, o, x)
        BY <2>6, <3>2, <4>1, PrecedesOnce
      <4>3. state[x] # "completed" /\ state[x] # "saved"
        BY <2>1, <2>6, <3>2, <4>2 DEF Takes
      <4>4. x \in ToSet(completions)
        BY <2>6, <4>1, PrecedesOn
      <4>5. state[x] = "done"
        BY <4>3, <4>4 DEF Ordered, Reported
      <4>6. x \in ToSet(deliveries)
        BY <1>2, <2>6, <4>5
      <4> QED
        BY <1>2, <2>1, <3>2, <4>6, PrecedesOn
    <3> QED
      BY <3>1, <3>2
  <2>7. \A x, y \in Operations :
           HandlerOfIO[x] = HandlerOfIO[y] /\ ~Gone(x) /\ Precedes(completions, x, y)
             /\ y \in ToSet(deliveries') => Precedes(deliveries', x, y)
    BY <2>6
  <2> QED
    BY <1>1, <1>4, <2>3, <2>4, <2>5, <2>7 DEF Delivered
<1> QED
  BY <1>6, <1>7

LEMMA TakenOrdered ==
    ASSUME Ordered, NEW o \in Operations, NEW saved, NEW filter, Takes(o, saved, filter),
           state \in Items
    PROVE  Ordered'
<1>1. /\ UNCHANGED <<handler, completions>> /\ state[o] \in {"completed", "saved"}
      /\ HandleItem(o, saved, filter) /\ saved \in Seq(Operations)
      /\ Sorted(completions, queue') /\ Sorted(completions, saved)
  BY DEF Takes
<1>2. /\ \A x \in Operations : x \in ToSet(queue') <=> (state[x] = "completed" /\ x # o)
      /\ \A x \in Operations : x \in ToSet(saved) <=> (state[x] = "saved" /\ x # o)
  BY DEF Takes
<1>3. \/ state' = [state EXCEPT ![o] = "done"] /\ completedIo' = saved
      \/ state' = [state EXCEPT ![o] = "saved"] /\ completedIo' = Append(saved, o) /\ ~Wanted(o, filter)
  BY <1>1 DEF HandleItem
<1>4. \A x \in Operations : x # o => state'[x] = state[x]
  BY <1>3 DEF Items
<1>5. state'[o] \in {"saved", "done"}
  BY <1>3 DEF Items
<1>6. Reported'
  <2>1. \A x \in Operations : state'[x] \in {"completed", "saved", "done"}
                                <=> state[x] \in {"completed", "saved", "done"}
    BY <1>1, <1>4, <1>5
  <2> QED
    BY <1>1, <2>1 DEF Ordered, Reported
<1>7. LiesIn(queue, "completed")'
  BY <1>2, <1>4, <1>5 DEF LiesIn
<1>8. SavedFirst'
  <2>1. ASSUME NEW x \in Operations, NEW y \in Operations, state'[x] = "saved", state'[y] = "completed"
        PROVE  Precedes(completions, x, y)
    <3>1. y # o /\ state[y] = "completed"
      BY <1>4, <1>5, <2>1
    <3>2. CASE x = o
      BY <3>1, <3>2 DEF Takes
    <3>3. CASE x # o
      BY <1>4, <2>1, <3>1, <3>3 DEF Ordered, SavedFirst
    <3> QED
      BY <3>2, <3>3
  <2> QED
    BY <1>1, <2>1 DEF SavedFirst
<1>9. Delivered'
  BY TakenDelivered
<1>10. Sorted(completions, completedIo)' /\ LiesIn(completedIo, "saved")'
  <2>1. CASE state' = [state EXCEPT ![o] = "done"] /\ completedIo' = saved
    <3>1. state'[o] = "done"
      BY <2>1 DEF Items
    <3> QED
      BY <1>1, <1>2, <1>4, <2>1, <3>1 DEF LiesIn, Sorted
  <2>2. CASE state' = [state EXCEPT ![o] = "saved"] /\ completedIo' = Append(saved, o) /\ ~Wanted(o, filter)
    <3>1. \A x \in ToSet(saved) : x \in Operations => Precedes(completions, x, o)
      BY <1>2, <2>2 DEF Takes
    <3>2. Sorted(completions, Append(saved, o))
      BY <1>1, <3>1, SortedOn
    <3>3. ToSet(Append(saved, o)) = ToSet(saved) \cup {o}
      BY <1>1, PushedOnto
    <3>4. state'[o] = "saved"
      BY <2>2 DEF Items
    <3>5. LiesIn(completedIo, "saved")'
      BY <1>2, <1>4, <2>2, <3>3, <3>4 DEF LiesIn
    <3> QED
      BY <1>1, <2>2, <3>2, <3>5 DEF Sorted
  <2> QED
    BY <1>3, <2>1, <2>2
<1>11. Sorted(completions, queue)'
  BY <1>1 DEF Sorted
<1> QED
  BY <1>6, <1>7, <1>8, <1>9, <1>10, <1>11 DEF Ordered

(* Steps of the IO pump that take nothing from the port but its own        *)
(* packet, and complete and handle nothing.                                *)
ioHistory == <<completedIo, state, handler, completions, deliveries>>
OwnPacket == \/ UNCHANGED queue
             \/ queue' = Append(queue, HaveWork)
             \/ queue # <<>> /\ Head(queue) = HaveWork /\ queue' = Tail(queue)

LEMMA QuietOrdered ==
    ASSUME TypeInv, pump = "IO", Ordered, UNCHANGED ioHistory, OwnPacket
    PROVE  Ordered'
<1>1. queue \in Seq(Messages) /\ HaveWork \notin Operations /\ HaveWork \in Messages
  BY IOAssumption DEF TypeInv, TypeOK, Messages
<1>2. UNCHANGED <<completedIo, state, handler, completions, deliveries>>
  BY DEF ioHistory
<1>3. Sorted(completions, queue) /\ LiesIn(queue, "completed")
  BY DEF Ordered
<1>4. Sorted(completions, queue') /\ \A o \in Operations : o \in ToSet(queue') <=> o \in ToSet(queue)
  <2>1. CASE UNCHANGED queue
    BY <1>3, <2>1
  <2>2. CASE queue' = Append(queue, HaveWork)
    <3>1. ToSet(Append(queue, HaveWork)) = ToSet(queue) \cup {HaveWork}
      BY <1>1, PushedOnto
    <3>2. Sorted(completions, Append(queue, HaveWork))
      BY <1>1, <1>3, SortedOn
    <3> QED
      BY <1>1, <2>2, <3>1, <3>2
  <2>3. CASE queue # <<>> /\ Head(queue) = HaveWork /\ queue' = Tail(queue)
    <3>1. ToSet(queue) = {HaveWork} \cup ToSet(Tail(queue))
      BY <1>1, <2>3, TakenOff
    <3>2. Sorted(completions, Tail(queue))
      BY <1>1, <1>3, <2>3, SortedTail
    <3> QED
      BY <1>1, <2>3, <3>1, <3>2
  <2> QED
    BY <2>1, <2>2, <2>3 DEF OwnPacket
<1>5. Sorted(completions, queue)' /\ LiesIn(queue, "completed")'
  BY <1>2, <1>3, <1>4 DEF Sorted, LiesIn
<1>6. Reported' /\ SavedFirst' /\ Delivered' /\ Sorted(completions, completedIo)'
      /\ LiesIn(completedIo, "saved")'
  BY <1>2 DEF Ordered, Reported, SavedFirst, Delivered, Gone, Sorted, LiesIn
<1> QED
  BY <1>5, <1>6 DEF Ordered

LEMMA CompletedOrdered ==
    ASSUME TypeInv, pump = "IO", Ordered, NEW o \in Operations, CompleteIO(o)
    PROVE  Ordered'
<1>1. /\ state[o] = "pending" /\ state' = [state EXCEPT ![o] = "completed"]
      /\ queue' = Append(queue, o) /\ completions' = Append(completions, o)
      /\ UNCHANGED <<completedIo, handler, deliveries>>
  BY DEF CompleteIO
<1>2. /\ queue \in Seq(Messages) /\ state \in Items /\ completedIo \in Seq(Operations)
  BY DEF TypeInv, TypeOK, Items
<1>3. /\ completions \in Seq(Operations) /\ IsInjective(completions)
      /\ \A x \in Operations : x \in ToSet(completions) <=> state[x] \in {"completed", "saved", "done"}
      /\ Sorted(completions, queue) /\ LiesIn(queue, "completed")
      /\ Sorted(completions, completedIo) /\ LiesIn(completedIo, "saved")
  BY DEF Ordered, Reported
<1>4. \A x \in Operations : state'[x] = IF x = o THEN "completed" ELSE state[x]
  BY <1>1, <1>2 DEF Items
<1>5. o \notin ToSet(completions)
  BY <1>1, <1>3
<1>6. /\ completions' \in Seq(Operations) /\ IsInjective(completions')
      /\ ToSet(completions') = ToSet(completions) \cup {o}
  BY <1>1, <1>3, <1>5, PushedOnto
<1>7. Reported'
  <2>1. \A x \in Operations : x \in ToSet(completions') <=> state'[x] \in {"completed", "saved", "done"}
    BY <1>3, <1>4, <1>6
  <2> QED
    BY <1>6, <2>1 DEF Reported
<1>8. \A x, y : Precedes(completions, x, y) => Precedes(completions', x, y)
  BY <1>1, <1>3, PrecedesOn
<1>9. \A x \in ToSet(completions) : Precedes(completions', x, o)
  BY <1>1, <1>3, PrecedesOn
<1>10. Sorted(completions', queue) /\ Sorted(completions', completedIo)
  BY <1>3, <1>8 DEF Sorted
<1>11. Sorted(completions', queue')
  <2>1. \A x \in ToSet(queue) : x \in Operations => Precedes(completions', x, o)
    BY <1>3, <1>9 DEF LiesIn
  <2>2. Sorted(completions', Append(queue, o))
    BY <1>2, <1>10, <2>1, SortedOn
  <2> QED
    BY <1>1, <2>2
<1>12. LiesIn(queue, "completed")'
  <2>1. ToSet(queue') = ToSet(queue) \cup {o}
    BY <1>1, <1>2, PushedOnto DEF Messages
  <2> QED
    BY <1>3, <1>4, <2>1 DEF LiesIn
<1>13. LiesIn(completedIo, "saved")'
  BY <1>1, <1>3, <1>4 DEF LiesIn
<1>14. SavedFirst'
  <2>1. ASSUME NEW x \in Operations, NEW y \in Operations, state'[x] = "saved", state'[y] = "completed"
        PROVE  Precedes(completions', x, y)
    <3>1. state[x] = "saved" /\ x \in ToSet(completions)
      BY <1>3, <1>4, <2>1
    <3>2. CASE y = o
      BY <1>9, <3>1, <3>2
    <3>3. CASE y # o
      BY <1>4, <1>8, <2>1, <3>1, <3>3 DEF Ordered, SavedFirst
    <3> QED
      BY <3>2, <3>3
  <2> QED
    BY <2>1 DEF SavedFirst
<1>15. Delivered'
  <2>1. /\ deliveries \in Seq(Operations) /\ IsInjective(deliveries)
        /\ \A x \in ToSet(deliveries) : state[x] = "done"
        /\ \A x \in Operations : state[x] = "done" /\ ~Gone(x) => x \in ToSet(deliveries)
        /\ \A x, y \in Operations :
             HandlerOfIO[x] = HandlerOfIO[y] /\ ~Gone(x) /\ Precedes(completions, x, y)
               /\ y \in ToSet(deliveries) => Precedes(deliveries, x, y)
    BY DEF Ordered, Delivered
  <2>2. ToSet(deliveries) \subseteq Operations
    BY <2>1 DEF ToSet
  <2>3. o \notin ToSet(deliveries)
    BY <1>1, <2>1
  <2>4. \A x, y : Precedes(completions', x, y) /\ y # o => Precedes(completions, x, y)
    BY <1>1, <1>3, PrecedesOn
  <2>5. \A x : Gone(x)' <=> Gone(x)
    BY <1>1 DEF Gone
  <2>6. \A x \in ToSet(deliveries) : state'[x] = "done"
    BY <1>4, <2>1, <2>2, <2>3
  <2>7. \A x \in Operations : state'[x] = "done" /\ ~Gone(x) => x \in ToSet(deliveries)
    BY <1>4, <2>1
  <2>8. \A x, y \in Operations :
           HandlerOfIO[x] = HandlerOfIO[y] /\ ~Gone(x) /\ Precedes(completions', x, y)
             /\ y \in ToSet(deliveries) => Precedes(deliveries, x, y)
    BY <2>1, <2>3, <2>4
  <2> QED
    BY <1>1, <2>1, <2>5, <2>6, <2>7, <2>8 DEF Delivered
<1> QED
  BY <1>1, <1>7, <1>10, <1>11, <1>12, <1>13, <1>14, <1>15 DEF Ordered, Sorted

LEMMA GoneOrdered ==
    ASSUME TypeInv, Ordered, NEW h \in Handlers, HandlerGone(h)
    PROVE  Ordered'
<1>1. /\ handler' = [handler EXCEPT ![h] = "gone"]
      /\ UNCHANGED <<queue, completedIo, state, completions, deliveries>>
  BY DEF HandlerGone, scheduleVars
<1>2. \A o \in Operations : Gone(o) => Gone(o)'
  BY <1>1, IOAssumption DEF Gone, TypeInv, TypeOK
<1>3. Delivered'
  BY <1>1, <1>2 DEF Ordered, Delivered
<1> QED
  BY <1>1, <1>3 DEF Ordered, Reported, SavedFirst, Sorted, LiesIn

LEMMA SavedTaken ==
    ASSUME TypeInv, Ordered, TakeSavedItem
    PROVE  Ordered'
<1> DEFINE i == FirstMatch(Top.filter)
           o == completedIo[i]
           saved == RemoveAt(completedIo, i)
<1>1. /\ completedIo \in Seq(Operations) /\ state \in Items /\ HandlerOfIO \in [Operations -> Handlers]
  BY IOAssumption DEF TypeInv, TypeOK, Items
<1>2. /\ HandleItem(o, saved, Top.filter) /\ Matches(Top.filter) # {}
      /\ UNCHANGED <<queue, handler, completions>>
  BY DEF TakeSavedItem, scheduleVars
<1>3. /\ completions \in Seq(Operations) /\ IsInjective(completions)
      /\ Sorted(completions, completedIo) /\ LiesIn(completedIo, "saved")
      /\ Sorted(completions, queue) /\ LiesIn(queue, "completed")
  BY DEF Ordered, Reported
<1>4. /\ i \in DOMAIN completedIo
      /\ Top.filter = NoHandler \/ HandlerOfIO[o] = Top.filter
      /\ \A j \in DOMAIN completedIo :
           Top.filter = NoHandler \/ HandlerOfIO[completedIo[j]] = Top.filter => i <= j
  BY <1>1, <1>2, FirstMatchIsFirst
<1> HIDE DEF i
<1>5. o \in Operations /\ o \in ToSet(completedIo)
  BY <1>1, <1>4 DEF ToSet
<1>6. state[o] = "saved"
  BY <1>3, <1>5 DEF LiesIn
<1>7. IsInjective(completedIo)
  BY <1>1, <1>3, SortedOnce
<1>8. /\ saved \in Seq(Operations) /\ ToSet(saved) = ToSet(completedIo) \ {o}
  BY <1>1, <1>4, <1>7, TakenOut
<1>9. Sorted(completions, saved)
  BY <1>1, <1>3, <1>4, SortedOut
<1>10. Wanted(o, Top.filter)
  BY <1>4 DEF Wanted
<1>11. ASSUME NEW x \in Operations, state[x] = "saved", HandlerOfIO[x] = HandlerOfIO[o], x # o
       PROVE  Precedes(completions, o, x)
  <2>1. x \in ToSet(completedIo)
    BY <1>3, <1>11 DEF LiesIn
  <2>2. PICK j \in DOMAIN completedIo : completedIo[j] = x
    BY <2>1 DEF ToSet
  <2>3. i <= j /\ i # j
    BY <1>4, <1>11, <2>2
  <2>4. i < j
    BY <1>1, <1>4, <2>3
  <2> QED
    BY <1>3, <1>4, <1>5, <2>2, <2>4 DEF Sorted
<1>12. \A x \in Operations : state[x] = "completed" => Precedes(completions, o, x)
  BY <1>5, <1>6 DEF Ordered, SavedFirst
<1>13. \A x \in Operations : x \in ToSet(queue') <=> (state[x] = "completed" /\ x # o)
  BY <1>2, <1>3, <1>6 DEF LiesIn
<1>14. \A x \in Operations : x \in ToSet(saved) <=> (state[x] = "saved" /\ x # o)
  BY <1>3, <1>8 DEF LiesIn
<1> HIDE DEF o, saved
<1>15. Takes(o, saved, Top.filter)
  BY <1>2, <1>3, <1>6, <1>8, <1>9, <1>10, <1>11, <1>12, <1>13, <1>14 DEF Takes
<1> QED
  BY <1>1, <1>5, <1>15, TakenOrdered

LEMMA ItemTaken ==
    ASSUME TypeInv, pump = "IO", Ordered, GetIOItem, Head(queue) # HaveWork
    PROVE  Ordered'
<1> DEFINE o == Head(queue)
<1>1. /\ completedIo \in Seq(Operations) /\ state \in Items
      /\ queue \in Seq({HaveWork} \cup Operations) /\ HaveWork \notin Operations
  BY IOAssumption DEF TypeInv, TypeOK, Items, MessagesInv
<1>2. /\ queue # <<>> /\ queue' = Tail(queue) /\ Matches(Top.filter) = {}
      /\ HandleItem(o, completedIo, Top.filter) /\ UNCHANGED <<handler, completions>>
  BY DEF GetIOItem
<1>3. /\ completions \in Seq(Operations) /\ IsInjective(completions)
      /\ Sorted(completions, completedIo) /\ LiesIn(completedIo, "saved")
      /\ Sorted(completions, queue) /\ LiesIn(queue, "completed")
  BY DEF Ordered, Reported
<1>4. o \in Operations
  BY <1>1, <1>2
<1>5. ToSet(queue) = {o} \cup ToSet(Tail(queue))
  BY <1>1, <1>2, TakenOff
<1>6. Sorted(completions, Tail(queue))
  BY <1>1, <1>2, <1>3, SortedTail
<1>7. \A x \in ToSet(Tail(queue)) : x \in Operations => Precedes(completions, o, x)
  BY <1>1, <1>2, <1>3, <1>4, SortedOff
<1>8. o \notin ToSet(Tail(queue))
  BY <1>3, <1>4, <1>7, PrecedesOnce
<1>9. state[o] = "completed"
  BY <1>3, <1>4, <1>5 DEF LiesIn
<1> HIDE DEF o
<1>10. \A x \in Operations : x \in ToSet(queue') <=> (state[x] = "completed" /\ x # o)
  BY <1>2, <1>3, <1>5, <1>8 DEF LiesIn
<1>11. \A x \in Operations : x \in ToSet(completedIo) <=> (state[x] = "saved" /\ x # o)
  BY <1>3, <1>9 DEF LiesIn
<1>12. \A x \in Operations : state[x] = "completed" /\ x # o => Precedes(completions, o, x)
  BY <1>2, <1>7, <1>10
<1>13. ASSUME Wanted(o, Top.filter), NEW x \in Operations, state[x] = "saved",
              HandlerOfIO[x] = HandlerOfIO[o]
       PROVE  FALSE
  <2>1. x \in ToSet(completedIo)
    BY <1>3, <1>13 DEF LiesIn
  <2>2. PICK j \in DOMAIN completedIo : completedIo[j] = x
    BY <2>1 DEF ToSet
  <2>3. Top.filter = NoHandler \/ HandlerOfIO[completedIo[j]] = Top.filter
    BY <1>13, <2>2 DEF Wanted
  <2> QED
    BY <1>2, <2>3 DEF Matches
<1>14. \A x \in Operations : state[x] = "saved" => Precedes(completions, x, o)
  BY <1>4, <1>9 DEF Ordered, SavedFirst
<1>15. Takes(o, completedIo, Top.filter)
  BY <1>1, <1>2, <1>3, <1>6, <1>9, <1>10, <1>11, <1>12, <1>13, <1>14 DEF Takes
<1> QED
  BY <1>1, <1>4, <1>15, TakenOrdered

(* What a step of the IO pump can do to the queue.                         *)
LEMMA OwnPacketAlone ==
    ASSUME TypeInv, StackInv, pump = "IO", Next,
           ~(\E o \in Operations : CompleteIO(o)), ~GetIOItem
    PROVE  OwnPacket
<1>1. ScheduleWork => OwnPacket
  BY DEF ScheduleWork, OwnPacket
<1>2. UNCHANGED queue => OwnPacket
  BY DEF OwnPacket
<1>3. ~PeekNext /\ ~PeekReplacement /\ ~UIDispatch /\ ~EmbedDispatch
  <2>1. ~UIDispatch /\ ~EmbedDispatch
    BY DEF UIDispatch, EmbedDispatch
  <2>2. frames # <<>> => Top \in FrameSet /\ WellFormed(pump, Top)
    BY TopFrame
  <2>3. ~PeekNext
    BY <2>2 DEF PeekNext, At, WellFormed, IOStages
  <2>4. ~PeekReplacement
    BY <2>2 DEF PeekReplacement, At, WellFormed, IOStages, FrameSet, Fns
  <2> QED
    BY <2>1, <2>3, <2>4
<1>4. ~UserInput
  BY DEF UserInput, TypeInv, MessagesInv
<1>5. CASE LoopStep
  BY <1>2, <1>5 DEF LoopStep, DoWorkFindsNothing, DoWorkTakesTask, DoIdleWork,
                    DoDelayedWorkFindsNothing, DoDelayedWorkTakesTask, scheduleVars
<1>6. CASE WindowStep
  <2>1. CASE ExchangeHaveWork \/ UIStageDone \/ UIWaitReturns \/ WorkMessageOutsideRun
             \/ TimerMessageEnds \/ EmbedWorkMessage
    BY <1>2, <2>1 DEF ExchangeHaveWork, UIStageDone, UIWaitReturns, WorkMessageOutsideRun,
                      TimerMessageEnds, EmbedWorkMessage, scheduleVars
  <2>2. CASE DispatchReplacement \/ WorkMessageEnds
    <3>1. ScheduleWork \/ UNCHANGED scheduleVars
      BY <2>2 DEF DispatchReplacement, WorkMessageEnds
    <3> QED
      BY <1>1, <1>2, <3>1 DEF scheduleVars
  <2> QED
    BY <1>3, <1>6, <2>1, <2>2 DEF WindowStep
<1>7. CASE IOStep
  BY <1>2, <1>7 DEF IOStep, TakeSavedItem, NoIOItem, ProcessInternalIOItem, IOStageDone,
                    WaitForIOEnds, scheduleVars
<1>8. CASE Returns \/ Closes \/ Clock
  BY <1>2, <1>8 DEF Returns, Closes, Clock, Finish, CloseModal, Tick, scheduleVars
<1>9. CASE Program
  <2>1. CASE OwnThreadPost \/ UIRunNested \/ OpenModal
    <3>1. ScheduleWork \/ UNCHANGED scheduleVars
      BY <2>1 DEF OwnThreadPost, UIRunNested, OpenModal, EnterNested
    <3> QED
      BY <1>1, <1>2, <3>1 DEF scheduleVars
  <2>2. CASE Quit \/ UIRun \/ EmbedQuit \/ IORun \/ WaitForIOCompletion
             \/ \E h \in Handlers : HandlerGone(h)
    BY <1>2, <2>2 DEF Quit, UIRun, EmbedQuit, IORun, WaitForIOCompletion, HandlerGone, scheduleVars
  <2> QED
    BY <1>4, <1>9, <2>1, <2>2 DEF Program
<1>10. ASSUME NEW p \in Posters, PosterStep(p) \/ Post(p)
       PROVE  OwnPacket
  BY <1>10 DEF PosterStep, Post, PosterExchanges, PosterPosts, PosterPushes, scheduleVars, OwnPacket
<1> QED
  BY <1>5, <1>6, <1>7, <1>8, <1>9, <1>10 DEF Next, ThreadStep, Completion

LEMMA NextOrdered ==
    ASSUME TypeInv, StackInv, OrderInv, Next, UNCHANGED pump
    PROVE  OrderInv'
<1>1. \/ UNCHANGED ioHistory
      \/ TakeSavedItem \/ GetIOItem \/ (\E o \in Operations : CompleteIO(o))
      \/ \E h \in Handlers : HandlerGone(h)
  BY DEF Next, ThreadStep, LoopStep, WindowStep, IOStep, Returns, Closes, Program, Clock,
         PosterStep, Post, Completion, NoIOItem, ProcessInternalIOItem, IOStageDone, WaitForIOEnds,
         IORun, WaitForIOCompletion, ioVars, ioHistory
<1>2. CASE pump = "IO"
  <2> SUFFICES Ordered'
    BY <1>2 DEF OrderInv
  <2>1. Ordered
    BY <1>2 DEF OrderInv
  <2>2. CASE TakeSavedItem
    BY <2>1, <2>2, SavedTaken
  <2>3. CASE GetIOItem /\ Head(queue) # HaveWork
    BY <1>2, <2>1, <2>3, ItemTaken
  <2>4. CASE GetIOItem /\ Head(queue) = HaveWork
    <3>1. UNCHANGED ioHistory /\ OwnPacket
      BY <2>4 DEF GetIOItem, ioHistory, OwnPacket
    <3> QED
      BY <1>2, <2>1, <3>1, QuietOrdered
  <2>5. CASE \E o \in Operations : CompleteIO(o)
    BY <1>2, <2>1, <2>5, CompletedOrdered
  <2>6. CASE \E h \in Handlers : HandlerGone(h)
    BY <2>1, <2>6, GoneOrdered
  <2>7. CASE UNCHANGED ioHistory /\ ~GetIOItem /\ ~(\E o \in Operations : CompleteIO(o))
    BY <1>2, <2>1, <2>7, OwnPacketAlone, QuietOrdered
  <2> QED
    BY <1>1, <2>2, <2>3, <2>4, <2>5, <2>6, <2>7
<1>3. CASE pump # "IO"
  <2>1. UNCHANGED <<completions, deliveries>>
    <3>1. ~TakeSavedItem /\ ~GetIOItem
      BY <1>3, WaitForIOPump DEF TakeSavedItem, GetIOItem
    <3>2. ~(\E o \in Operations : CompleteIO(o))
      BY <1>3 DEF CompleteIO, TypeInv, MessagesInv
    <3> QED
      BY <1>1, <3>1, <3>2 DEF ioHistory, HandlerGone
  <2> QED
    BY <1>3, <2>1 DEF OrderInv
<1> QED
  BY <1>2, <1>3

(* The invariant of the order of completions, on top of the pumps'.        *)
IOInv == PumpsInv /\ OrderInv

LEMMA InitOrdered ==
    ASSUME Init
    PROVE  IOInv
<1>1. /\ queue = <<>> /\ completedIo = <<>> /\ completions = <<>> /\ deliveries = <<>>
      /\ \A o \in Operations : state[o] \in {"pending", "unused"}
  BY DEF Init, IOInit
<1>2. /\ ToSet(<<>>) = {} /\ <<>> \in Seq(Operations) /\ IsInjective(<<>>)
      /\ \A c : Sorted(c, <<>>)
  BY DEF ToSet, IsInjective, Sorted
<1>3. \A x, y : ~Precedes(<<>>, x, y)
  BY DEF Precedes
<1>4. Reported /\ SavedFirst /\ Delivered
  BY <1>1, <1>2, <1>3 DEF Reported, SavedFirst, Delivered
<1>5. /\ Sorted(completions, queue) /\ LiesIn(queue, "completed")
      /\ Sorted(completions, completedIo) /\ LiesIn(completedIo, "saved")
  BY <1>1, <1>2 DEF LiesIn
<1> QED
  BY <1>1, <1>4, <1>5, InitPumps DEF IOInv, OrderInv, Ordered

LEMMA NextIO ==
    ASSUME IOInv, [Next]_vars
    PROVE  IOInv'
<1>1. PumpsInv'
  BY NextPumps DEF IOInv
<1>2. CASE UNCHANGED vars
  BY <1>1, <1>2 DEF vars, scheduleVars, ioVars, IOInv, OrderInv, Ordered, Reported, SavedFirst,
     Delivered, Gone, Sorted, LiesIn
<1>3. CASE Next
  <2>1. UNCHANGED pump
    BY <1>3, PumpsMove DEF IOInv
  <2> QED
    BY <1>1, <1>3, <2>1, NextOrdered DEF IOInv, PumpsInv
<1> QED
  BY <1>2, <1>3

LEMMA OrderedCompletions ==
    ASSUME IOInv
    PROVE  CompletionOrder
<1>1. CASE pump = "IO"
  <2>1. Reported /\ Delivered
    BY <1>1 DEF IOInv, OrderInv, Ordered
  <2>2. ToSet(deliveries) \subseteq Operations
    BY <2>1 DEF Delivered, ToSet
  <2>3. ToSet(deliveries) \subseteq ToSet(completions)
    BY <2>1, <2>2 DEF Delivered, Reported
  <2> QED
    BY <2>1, <2>3 DEF Delivered, CompletionOrder, Gone
<1>2. CASE pump # "IO"
  <2>1. completions = <<>> /\ deliveries = <<>>
    BY <1>2 DEF IOInv, OrderInv
  <2>2. ToSet(<<>>) = {} /\ IsInjective(<<>>)
    BY DEF ToSet, IsInjective
  <2> QED
    BY <2>1, <2>2 DEF CompletionOrder
<1> QED
  BY <1>1, <1>2

(* A completion is handled once, after it was reported, and those of one   *)
(* handler in the order in which they were reported, whatever nested waits *)
(* for other handlers set aside and take back in between.                  *)
THEOREM CompletionOrderCorrect == Spec => []CompletionOrder
BY InitOrdered, NextIO, OrderedCompletions, PTL DEF Spec

=============================================================================
