--------------------------- MODULE SequenceLemmas ----------------------------
(***************************************************************************)
(* What the operations that the lists and stacks of this code use do to the *)
(* elements of a sequence.                                                  *)
(***************************************************************************)
EXTENDS Integers, SequencesExt, SequenceTheorems, TLAPS

(* What it does to a stack to push and to pop.                              *)
LEMMA PushedOnto ==
    ASSUME NEW S, NEW s \in Seq(S), NEW i \in S
    PROVE  /\ Append(s, i) \in Seq(S)
           /\ ToSet(Append(s, i)) = ToSet(s) \union {i}
           /\ IsInjective(s) /\ i \notin ToSet(s) => IsInjective(Append(s, i))
<1>1. /\ Append(s, i) \in Seq(S) /\ DOMAIN Append(s, i) = 1 .. Len(s) + 1 /\ DOMAIN s = 1 .. Len(s)
      /\ Append(s, i)[Len(s) + 1] = i /\ \A k \in 1 .. Len(s) : Append(s, i)[k] = s[k]
      /\ Len(s) \in Nat
  OBVIOUS
<1>2. ToSet(Append(s, i)) = ToSet(s) \union {i}
  <2>1. \A x : x \in ToSet(Append(s, i)) => x \in ToSet(s) \union {i}
    BY <1>1 DEF ToSet
  <2>2. \A x \in ToSet(s) : x \in ToSet(Append(s, i))
    BY <1>1 DEF ToSet
  <2>3. i \in ToSet(Append(s, i))
    BY <1>1 DEF ToSet
  <2> QED
    BY <2>1, <2>2, <2>3
<1>3. IsInjective(s) /\ i \notin ToSet(s) => IsInjective(Append(s, i))
  BY <1>1 DEF IsInjective, ToSet
<1> QED
  BY <1>1, <1>2, <1>3

LEMMA PoppedFrom ==
    ASSUME NEW S, NEW s \in Seq(S), s # <<>>, IsInjective(s)
    PROVE  /\ Last(s) \in S /\ Last(s) \in ToSet(s)
           /\ Front(s) \in Seq(S) /\ Len(Front(s)) = Len(s) - 1 /\ Len(s) \in Nat \ {0}
           /\ DOMAIN Front(s) = 1 .. Len(s) - 1
           /\ \A k \in 1 .. Len(s) - 1 : Front(s)[k] = s[k]
           /\ ToSet(Front(s)) = ToSet(s) \ {Last(s)}
           /\ IsInjective(Front(s))
<1>1. Len(s) \in Nat \ {0} /\ DOMAIN s = 1 .. Len(s)
  OBVIOUS
<1>2. /\ Front(s) \in Seq(S) /\ Len(Front(s)) = Len(s) - 1 /\ DOMAIN Front(s) = 1 .. Len(s) - 1
      /\ \A k \in 1 .. Len(s) - 1 : Front(s)[k] = s[k]
  BY <1>1 DEF Front
<1>3. Last(s) \in S /\ Last(s) \in ToSet(s)
  BY <1>1 DEF Last, ToSet
<1>4. IsInjective(Front(s))
  BY <1>1, <1>2 DEF IsInjective
<1>5. ToSet(Front(s)) = ToSet(s) \ {Last(s)}
  <2>1. \A x \in ToSet(Front(s)) : x \in ToSet(s) /\ x # Last(s)
    BY <1>1, <1>2 DEF ToSet, Last, IsInjective
  <2>2. \A x \in ToSet(s) : x # Last(s) => x \in ToSet(Front(s))
    BY <1>1, <1>2 DEF ToSet, Last
  <2> QED
    BY <2>1, <2>2
<1> QED
  BY <1>1, <1>2, <1>3, <1>4, <1>5

(* The first element is taken off.                                          *)
LEMMA TakenOff ==
    ASSUME NEW S, NEW s \in Seq(S), s # <<>>
    PROVE  /\ Head(s) \in S /\ Tail(s) \in Seq(S) /\ Len(Tail(s)) = Len(s) - 1
           /\ Len(s) \in Nat \ {0}
           /\ ToSet(s) = {Head(s)} \union ToSet(Tail(s))
           /\ IsInjective(s) => IsInjective(Tail(s)) /\ Head(s) \notin ToSet(Tail(s))
<1>1. /\ Len(s) \in Nat \ {0} /\ DOMAIN s = 1 .. Len(s) /\ Head(s) = s[1] /\ Head(s) \in S
      /\ Tail(s) \in Seq(S) /\ Len(Tail(s)) = Len(s) - 1 /\ DOMAIN Tail(s) = 1 .. Len(s) - 1
      /\ \A k \in 1 .. Len(s) - 1 : Tail(s)[k] = s[k + 1]
  OBVIOUS
<1>2. ToSet(s) = {Head(s)} \union ToSet(Tail(s))
  <2>1. \A x \in ToSet(s) : x = Head(s) \/ x \in ToSet(Tail(s))
    <3>1. ASSUME NEW k \in 1 .. Len(s), k # 1
          PROVE  s[k] \in ToSet(Tail(s))
      <4>1. k - 1 \in 1 .. Len(s) - 1 /\ s[k] = Tail(s)[k - 1]
        BY <1>1, <3>1
      <4> QED
        BY <1>1, <4>1 DEF ToSet
    <3> QED
      BY <1>1, <3>1 DEF ToSet
  <2>2. \A x \in ToSet(Tail(s)) : x \in ToSet(s)
    BY <1>1 DEF ToSet
  <2>3. Head(s) \in ToSet(s)
    BY <1>1 DEF ToSet
  <2> QED
    BY <2>1, <2>2, <2>3
<1>3. IsInjective(s) => IsInjective(Tail(s)) /\ Head(s) \notin ToSet(Tail(s))
  BY <1>1 DEF IsInjective, ToSet
<1> QED
  BY <1>1, <1>2, <1>3

(* An element is taken out, wherever it is.                                 *)
LEMMA TakenOut ==
    ASSUME NEW S, NEW s \in Seq(S), IsInjective(s), NEW k \in DOMAIN s
    PROVE  /\ RemoveAt(s, k) \in Seq(S)
           /\ ToSet(RemoveAt(s, k)) = ToSet(s) \ {s[k]}
           /\ IsInjective(RemoveAt(s, k))
<1> DEFINE left == SubSeq(s, 1, k - 1)
           right == SubSeq(s, k + 1, Len(s))
           r == left \o right
           from == [l \in 1 .. Len(s) - 1 |-> IF l < k THEN l ELSE l + 1]
<1>1. Len(s) \in Nat /\ DOMAIN s = 1 .. Len(s) /\ k \in 1 .. Len(s)
  OBVIOUS
<1>2. left \in Seq(S) /\ Len(left) = k - 1 /\ \A l \in 1 .. k - 1 : left[l] = s[l]
  BY <1>1
<1>3. right \in Seq(S) /\ Len(right) = Len(s) - k /\ \A l \in 1 .. Len(s) - k : right[l] = s[k + l]
  BY <1>1
<1> HIDE DEF left, right
<1>4. /\ r \in Seq(S) /\ Len(r) = Len(s) - 1
      /\ \A l \in 1 .. Len(s) - 1 : r[l] = IF l <= k - 1 THEN left[l] ELSE right[l - (k - 1)]
  <2>1. /\ left \o right \in Seq(S) /\ Len(left \o right) = Len(left) + Len(right)
        /\ \A l \in 1 .. Len(left) + Len(right) :
             (left \o right)[l] = IF l <= Len(left) THEN left[l] ELSE right[l - Len(left)]
    BY <1>2, <1>3, ConcatProperties, ZenonT(30)
  <2>2. Len(left) + Len(right) = Len(s) - 1 /\ Len(left) = k - 1
    BY <1>1, <1>2, <1>3
  <2> HIDE DEF r
  <2>3. r = left \o right
    BY DEF r
  <2> QED
    BY <2>1, <2>2, <2>3, Zenon
<1>5. \A l \in 1 .. Len(s) - 1 : r[l] = s[from[l]] /\ from[l] \in 1 .. Len(s) \ {k}
  <2> HIDE DEF r
  <2>1. ASSUME NEW l \in 1 .. Len(s) - 1, l < k
        PROVE  r[l] = s[l]
    <3>1. l \in 1 .. k - 1 /\ l <= k - 1
      BY <1>1, <2>1
    <3>2. r[l] = left[l]
      BY <1>4, <3>1
    <3> QED
      BY <1>2, <3>1, <3>2
  <2>2. ASSUME NEW l \in 1 .. Len(s) - 1, ~ (l < k)
        PROVE  r[l] = s[l + 1]
    <3>1. l - (k - 1) \in 1 .. Len(s) - k /\ k + (l - (k - 1)) = l + 1 /\ ~ (l <= k - 1)
      BY <1>1, <2>2
    <3>2. r[l] = right[l - (k - 1)]
      BY <1>4, <3>1
    <3> QED
      BY <1>3, <3>1, <3>2
  <2>3. ASSUME NEW l \in 1 .. Len(s) - 1
        PROVE  from[l] \in 1 .. Len(s) \ {k} /\ from[l] = IF l < k THEN l ELSE l + 1
    BY <1>1
  <2> HIDE DEF from
  <2> QED
    BY <2>1, <2>2, <2>3
<1>6. IsInjective(r)
  <2>1. \A l, m \in 1 .. Len(s) - 1 : from[l] = from[m] => l = m
    BY <1>1
  <2> HIDE DEF r, from
  <2>2. ASSUME NEW l \in 1 .. Len(s) - 1, NEW m \in 1 .. Len(s) - 1, r[l] = r[m]
        PROVE  l = m
    <3>1. from[l] = from[m]
      BY <1>1, <1>5, <2>2 DEF IsInjective
    <3> QED
      BY <2>1, <3>1
  <2> QED
    BY <1>4, <2>2 DEF IsInjective
<1>7. ToSet(r) = ToSet(s) \ {s[k]}
  <2>1. \A x \in ToSet(r) : x \in ToSet(s) /\ x # s[k]
    <3> HIDE DEF from, r
    <3> QED
      BY <1>1, <1>4, <1>5 DEF ToSet, IsInjective
  <2>2. ASSUME NEW l \in 1 .. Len(s), l # k
        PROVE  \E m \in 1 .. Len(s) - 1 : from[m] = l
    <3>1. CASE l < k
      BY <1>1, <3>1
    <3>2. CASE l > k
      <4>1. l - 1 \in 1 .. Len(s) - 1 /\ from[l - 1] = l
        BY <1>1, <3>2
      <4> QED
        BY <4>1
    <3> QED
      BY <1>1, <2>2, <3>1, <3>2
  <2>3. \A m \in 1 .. Len(s) - 1 : s[from[m]] \in ToSet(r)
    <3> HIDE DEF from, r
    <3> QED
      BY <1>4, <1>5 DEF ToSet
  <2> HIDE DEF from, r
  <2>4. \A x \in ToSet(s) : x # s[k] => x \in ToSet(r)
    BY <1>1, <2>2, <2>3 DEF ToSet
  <2> QED
    BY <2>1, <2>4
<1> QED
  BY <1>4, <1>6, <1>7 DEF RemoveAt, left, right
=============================================================================
