--------------------------- MODULE SequenceLemmas ---------------------------
(***************************************************************************)
(* What the proofs need of sequences.  For the refinements of the dynamic  *)
(* buffers: when one sequence is another with a part appended, and when it *)
(* is another without its first elements.  For the loops over sequences of *)
(* buffers: that the places where they are cut ascend.                     *)
(***************************************************************************)
EXTENDS Integers, Sequences, SequenceTheorems, BufferSequence, TLAPS

(* The part of a sequence between two of its elements.                     *)
LEMMA PartOf ==
  ASSUME NEW S, NEW s \in Seq(S),
         NEW a \in Nat \ {0}, NEW b \in 0..Len(s), a <= b + 1
  PROVE  /\ SubSeq(s, a, b) \in Seq(S)
         /\ Len(SubSeq(s, a, b)) = b - a + 1
         /\ \A i \in 1..(b - a + 1) : SubSeq(s, a, b)[i] = s[a + i - 1]
<1>1. Len(s) \in Nat /\ s \in [1..Len(s) -> S]
  BY LenProperties
<1>2. a \in Int /\ b \in Int /\ (\A i \in a..b : s[i] \in S)
  BY <1>1
<1>3. /\ SubSeq(s, a, b) \in Seq(S)
      /\ Len(SubSeq(s, a, b)) = IF a <= b THEN b - a + 1 ELSE 0
      /\ \A i \in 1..(b - a + 1) : SubSeq(s, a, b)[i] = s[a + i - 1]
  BY <1>2, SubSeqProperties
<1> QED
  BY <1>1, <1>3

(* A sequence without its first k elements, also if it has fewer.          *)
LEMMA Dropped ==
  ASSUME NEW S, NEW s \in Seq(S), NEW k \in Nat
  PROVE  /\ SubSeq(s, k + 1, Len(s)) \in Seq(S)
         /\ k >= Len(s) => SubSeq(s, k + 1, Len(s)) = <<>>
<1>1. Len(s) \in Nat /\ s \in [1..Len(s) -> S]
  BY LenProperties
<1>2. k + 1 \in Int /\ Len(s) \in Int /\ (\A i \in k + 1..Len(s) : s[i] \in S)
  BY <1>1
<1>3. /\ SubSeq(s, k + 1, Len(s)) \in Seq(S)
      /\ Len(SubSeq(s, k + 1, Len(s))) =
           IF k + 1 <= Len(s) THEN Len(s) - (k + 1) + 1 ELSE 0
  BY <1>2, SubSeqProperties
<1> QED
  BY <1>1, <1>3, EmptySeq

(* A sequence that begins like s and goes on like t.                       *)
LEMMA PrefixAppended ==
  ASSUME NEW S, NEW s \in Seq(S), NEW t \in Seq(S), NEW u \in Seq(S),
         NEW m \in 0..Len(t), Len(u) = Len(s) + m,
         \A i \in 1..Len(s) : u[i] = s[i],
         \A i \in 1..m : u[Len(s) + i] = t[i]
  PROVE  u = s \o SubSeq(t, 1, m)
<1> DEFINE p == SubSeq(t, 1, m)
<1>1. /\ Len(s) \in Nat /\ Len(t) \in Nat
      /\ t \in [1..Len(t) -> S]
  BY LenProperties
<1>2. /\ p \in Seq(S)
      /\ Len(p) = m
      /\ \A i \in 1..m : p[i] = t[i]
  <2> DEFINE a == 1
  <2>1. m \in 0..Len(t) /\ a \in Nat \ {0} /\ a <= m + 1
    BY <1>1
  <2> HIDE DEF a
  <2>2. /\ SubSeq(t, a, m) \in Seq(S)
        /\ Len(SubSeq(t, a, m)) = m - a + 1
        /\ \A i \in 1..(m - a + 1) : SubSeq(t, a, m)[i] = t[a + i - 1]
    BY <2>1, PartOf, Zenon
  <2>3. /\ p \in Seq(S)
        /\ Len(p) = m - 1 + 1
        /\ \A i \in 1..(m - 1 + 1) : p[i] = t[1 + i - 1]
    BY <2>2 DEF a
  <2> HIDE DEF p
  <2> QED
    BY <1>1, <2>3
<1> HIDE DEF p
<1>3. /\ s \o p \in Seq(S)
      /\ Len(s \o p) = Len(s) + m
      /\ \A i \in 1..(Len(s) + m) :
           (s \o p)[i] = IF i <= Len(s) THEN s[i] ELSE p[i - Len(s)]
  BY <1>2, ConcatProperties
<1>4. \A i \in 1..Len(u) : u[i] = (s \o p)[i]
  <2> SUFFICES ASSUME NEW i \in 1..(Len(s) + m) PROVE u[i] = (s \o p)[i]
    OBVIOUS
  <2>1. CASE i <= Len(s)
    BY <1>1, <1>3, <2>1
  <2>2. CASE i > Len(s)
    <3> DEFINE j == i - Len(s)
    <3>1. j \in 1..m /\ Len(s) + j = i
      BY <1>1, <2>2
    <3>2. (s \o p)[i] = p[j]
      BY <1>1, <1>3, <2>2
    <3> HIDE DEF j
    <3>3. u[Len(s) + j] = t[j] /\ p[j] = t[j]
      BY <1>2, <3>1
    <3> QED
      BY <3>1, <3>2, <3>3
  <2> QED
    BY <1>1, <1>2, <2>1, <2>2
<1>5. u = s \o p
  BY <1>3, <1>4, SeqEqual
<1> QED
  BY <1>5 DEF p

(* A sequence whose elements are those of s, k places further on.          *)
LEMMA PrefixDropped ==
  ASSUME NEW S, NEW s \in Seq(S), NEW u \in Seq(S),
         NEW k \in 0..Len(s), Len(u) = Len(s) - k,
         \A i \in 1..Len(u) : u[i] = s[i + k]
  PROVE  u = SubSeq(s, k + 1, Len(s))
<1> DEFINE a == k + 1
           q == SubSeq(s, a, Len(s))
<1>1. /\ Len(s) \in Nat /\ a \in Nat \ {0} /\ a <= Len(s) + 1
      /\ Len(s) \in 0..Len(s)
  BY LenProperties
<1>3. /\ q \in Seq(S)
      /\ Len(q) = Len(s) - a + 1
      /\ \A i \in 1..(Len(s) - a + 1) : q[i] = s[a + i - 1]
  <2> HIDE DEF a
  <2> QED
    BY <1>1, PartOf, Zenon
<1> HIDE DEF q
<1>4. Len(q) = Len(u)
  BY <1>1, <1>3
<1>5. \A i \in 1..Len(u) : u[i] = q[i]
  <2> SUFFICES ASSUME NEW i \in 1..Len(u) PROVE u[i] = q[i]
    OBVIOUS
  <2>1. i \in 1..(Len(s) - a + 1) /\ a + i - 1 = i + k
    BY <1>1
  <2>2. q[i] = s[i + k]
    BY <1>3, <2>1
  <2> QED
    BY <2>2
<1>6. u = q
  BY <1>3, <1>4, <1>5, SeqEqual
<1> QED
  BY <1>6 DEF q

-----------------------------------------------------------------------------
(* Sequences of buffers.                                                   *)

(* A sequence is cut at positions that do not decrease.                    *)
LEMMA CutsAscend ==
  ASSUME NEW m \in Nat, NEW k \in Nat, NEW c \in Cuts(k, m)
  PROVE  /\ c[0] = 0
         /\ \A i \in 0..k : c[i] \in Nat /\ c[i] \in 0..m /\ c[i] <= c[k]
         /\ \A i \in 0..k - 1 : i + 1 \in 0..k /\ c[i] <= c[i + 1]
         /\ \A i, j \in 0..k : i <= j => c[i] <= c[j]
BY DEF Cuts

LEMMA LeastOf ==
  ASSUME NEW a \in Nat, NEW b \in Nat
  PROVE  Least(a, b) \in Nat /\ Least(a, b) <= a /\ Least(a, b) <= b
         /\ (Least(a, b) = a \/ Least(a, b) = b)
BY DEF Least
=============================================================================
