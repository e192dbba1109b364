----------------------------- MODULE SliceProofs -----------------------------
(***************************************************************************)
(* What SliceOf and BufferPair promise, for sequences of any number of     *)
(* buffers that are cut anywhere.                                          *)
(*                                                                         *)
(* Both are shown to be windows: the bytes they show are all those between *)
(* two positions, the operations move one of the two, and how many bytes   *)
(* are on either side of a byte is then a matter of subtraction.           *)
(***************************************************************************)
EXTENDS SliceOf, BufferPair, SequenceLemmas, FiniteSetTheorems

-----------------------------------------------------------------------------
(* Counting.                                                               *)

(* The last element of a set of numbers that holds all numbers below its   *)
(* elements.                                                               *)
LEMMA LastOfInitial ==
  ASSUME NEW m \in Nat, NEW S \in SUBSET (0..m), 0 \in S, m \notin S,
         \A i \in S : \A j \in 0..i : j \in S
  PROVE  \E j \in 0..m - 1 : j \in S /\ j + 1 \notin S
<1> DEFINE c == Cardinality(S)
<1>1. IsFiniteSet(S) /\ c \in Nat
  <2>1. IsFiniteSet(0..m)
    BY FS_Interval
  <2>2. IsFiniteSet(S)
    BY <2>1, FS_Subset
  <2> QED
    BY <2>2, FS_CardinalityType
<1>2. c # 0
  <2>1. S # {}
    OBVIOUS
  <2> QED
    BY <1>1, <2>1, FS_EmptySet
<1>3. c \notin S
  <2> SUFFICES ASSUME c \in S PROVE FALSE
    OBVIOUS
  <2>1. 0..c \in SUBSET S
    BY <1>1
  <2>2. Cardinality(0..c) <= c
    BY <1>1, <2>1, FS_Subset
  <2>3. Cardinality(0..c) = c + 1
    <3> HIDE DEF c
    <3>1. Cardinality(0..c) = IF 0 > c THEN 0 ELSE c - 0 + 1
      BY <1>1, FS_Interval
    <3> QED
      BY <1>1, <3>1
  <2> HIDE DEF c
  <2> QED
    BY <1>1, <2>2, <2>3
<1>4. c - 1 \in S
  <2> SUFFICES ASSUME c - 1 \notin S PROVE FALSE
    OBVIOUS
  <2> HIDE DEF c
  <2>1. S \in SUBSET (0..c - 2)
    <3> SUFFICES ASSUME NEW i \in S PROVE i \in 0..c - 2
      OBVIOUS
    <3>1. i \in Nat
      OBVIOUS
    <3>2. i >= c - 1 => c - 1 \in S
      BY <1>1, <1>2, <3>1
    <3> QED
      BY <1>1, <3>1, <3>2
  <2>2. IsFiniteSet(0..c - 2) /\ Cardinality(0..c - 2) = c - 1
    <3>1. c - 2 \in Int
      BY <1>1
    <3> DEFINE d == c - 2
    <3> HIDE DEF d
    <3>2. IsFiniteSet(0..d) /\ Cardinality(0..d) = IF 0 > d THEN 0 ELSE d - 0 + 1
      BY <3>1, FS_Interval DEF d
    <3> QED
      BY <1>1, <1>2, <3>2 DEF d
  <2>3. Cardinality(S) <= Cardinality(0..c - 2)
    BY <2>1, <2>2, FS_Subset
  <2>4. c <= c - 1
    BY <2>2, <2>3 DEF c
  <2> QED
    BY <1>1, <2>4
<1> HIDE DEF c
<1>5. c - 1 \in 0..m - 1
  BY <1>1, <1>2, <1>4
<1>6. (c - 1) + 1 = c
  BY <1>1
<1> QED
  BY <1>3, <1>4, <1>5, <1>6

(* Which buffer a byte between two cuts is in.                             *)
LEMMA BufferAt ==
  ASSUME NEW m \in Nat, NEW k \in Nat, NEW c \in Cuts(k, m),
         NEW a \in 0..k, NEW b \in 0..k, a <= b,
         NEW x \in Nat, c[a] <= x, x < c[b]
  PROVE  \E j \in 0..b - a - 1 : c[a + j] <= x /\ x < c[a + j + 1]
<1> DEFINE S == {i \in 0..b - a : c[a + i] <= x}
<1>1. /\ \A i \in 0..k : c[i] \in Nat
      /\ \A i, j \in 0..k : i <= j => c[i] <= c[j]
  BY CutsAscend
<1>2. b - a \in Nat /\ S \in SUBSET (0..b - a)
  OBVIOUS
<1>3. 0 \in S /\ b - a \notin S
  BY <1>1
<1>4. \A i \in S : \A j \in 0..i : j \in S
  <2> SUFFICES ASSUME NEW i \in S, NEW j \in 0..i PROVE j \in S
    OBVIOUS
  <2>1. a + i \in 0..k /\ a + j \in 0..k /\ a + j <= a + i /\ j \in 0..b - a
    OBVIOUS
  <2>2. c[a + j] <= c[a + i] /\ c[a + j] \in Nat /\ c[a + i] \in Nat /\ c[a + i] <= x
    BY <1>1, <2>1
  <2> QED
    BY <2>1, <2>2
<1> HIDE DEF S
<1>5. PICK j \in 0..b - a - 1 : j \in S /\ j + 1 \notin S
  BY <1>2, <1>3, <1>4, LastOfInitial
<1>6. a + j + 1 \in 0..k /\ j + 1 \in 0..b - a
  OBVIOUS
<1>7. c[a + j] <= x /\ ~(c[a + (j + 1)] <= x)
  BY <1>5, <1>6 DEF S
<1> QED
  BY <1>1, <1>6, <1>7

(* In a window from l to before u, the bytes on either side of a byte.     *)
LEMMA WindowCounts ==
  ASSUME NEW l \in Nat, NEW u \in Nat, l <= u
  PROVE  /\ Cardinality(l..u - 1) = u - l
         /\ \A x \in l..u - 1 :
              /\ Cardinality({y \in l..u - 1 : y < x}) = x - l
              /\ Cardinality({y \in l..u - 1 : y > x}) = u - 1 - x
<1>1. Cardinality(l..u - 1) = u - l
  <2>1. Cardinality(l..u - 1) = IF l > u - 1 THEN 0 ELSE u - 1 - l + 1
    BY FS_Interval
  <2> QED
    BY <2>1
<1>2. ASSUME NEW x \in l..u - 1
      PROVE  /\ Cardinality({y \in l..u - 1 : y < x}) = x - l
             /\ Cardinality({y \in l..u - 1 : y > x}) = u - 1 - x
  <2>1. {y \in l..u - 1 : y < x} = l..x - 1 /\ {y \in l..u - 1 : y > x} = x + 1..u - 1
    OBVIOUS
  <2>2. Cardinality(l..x - 1) = IF l > x - 1 THEN 0 ELSE x - 1 - l + 1
    BY FS_Interval
  <2>3. Cardinality(x + 1..u - 1) = IF x + 1 > u - 1 THEN 0 ELSE u - 1 - (x + 1) + 1
    BY FS_Interval
  <2>4. Cardinality(l..x - 1) = x - l
    BY <2>2
  <2>5. Cardinality(x + 1..u - 1) = u - 1 - x
    BY <2>3
  <2> QED
    BY <2>1, <2>4, <2>5, Zenon
<1> QED
  BY <1>1, <1>2

(* What ByteWindow's operations make of the window W.                      *)
DropFront(W, k) == {x \in W : Cardinality({y \in W : y < x}) >= k}

KeepFront(W, k) == {x \in W : Cardinality({y \in W : y < x}) < k}

DropBack(W, k) == {x \in W : Cardinality({y \in W : y > x}) >= k}

KeepBack(W, k) == {x \in W : Cardinality({y \in W : y > x}) < k}

(* Dropping or keeping k bytes at one end moves that end.                  *)
LEMMA EndsMove ==
  ASSUME NEW l \in Nat, NEW u \in Nat, l <= u, NEW k \in Nat
  PROVE  /\ DropFront(l..u - 1, k) = l + Least(k, u - l)..u - 1
         /\ KeepFront(l..u - 1, k) = l..(l + Least(k, u - l)) - 1
         /\ DropBack(l..u - 1, k) = l..(u - Least(k, u - l)) - 1
         /\ KeepBack(l..u - 1, k) = u - Least(k, u - l)..u - 1
<1> DEFINE W == l..u - 1
<1>1. ASSUME NEW x \in W
      PROVE  /\ Cardinality({y \in W : y < x}) = x - l
             /\ Cardinality({y \in W : y > x}) = u - 1 - x
  BY WindowCounts
<1>2. /\ {x \in W : Cardinality({y \in W : y < x}) >= k} = {x \in W : x - l >= k}
      /\ {x \in W : Cardinality({y \in W : y < x}) < k} = {x \in W : x - l < k}
      /\ {x \in W : Cardinality({y \in W : y > x}) >= k} = {x \in W : u - 1 - x >= k}
      /\ {x \in W : Cardinality({y \in W : y > x}) < k} = {x \in W : u - 1 - x < k}
  BY <1>1
<1>3. /\ {x \in l..u - 1 : x - l >= k} = l + Least(k, u - l)..u - 1
      /\ {x \in l..u - 1 : x - l < k} = l..(l + Least(k, u - l)) - 1
      /\ {x \in l..u - 1 : u - 1 - x >= k} = l..(u - Least(k, u - l)) - 1
      /\ {x \in l..u - 1 : u - 1 - x < k} = u - Least(k, u - l)..u - 1
  BY DEF Least
<1> QED
  BY <1>2, <1>3 DEF DropFront, KeepFront, DropBack, KeepBack

-----------------------------------------------------------------------------
(* slice_of: the bytes that its iterators show.                            *)

(* The window of a slice that has buffers: from Lo to before Hi.           *)
Lo == cut[begin_] + prefix_

Hi == cut[end_] - suffix_

Shape == TypeOK /\ Consistent /\ IteratorInside

LEMMA Fits ==
  ASSUME Shape
  PROVE  /\ K \in Nat /\ K <= MaxBuffers /\ MaxBuffers \in Nat
         /\ MaxTotal \in Nat /\ cut \in Cuts(K, MaxTotal)
         /\ begin_ \in Nat /\ end_ \in Nat /\ len_ \in Nat
         /\ end_ = begin_ + len_ /\ end_ <= K
         /\ size_ \in Nat /\ size_ <= MaxTotal /\ n \in Nat /\ n <= size_
         /\ prefix_ \in Nat /\ prefix_ <= MaxTotal
         /\ suffix_ \in Nat /\ suffix_ <= MaxTotal
         /\ \A i \in 0..K : cut[i] \in Nat /\ cut[i] <= MaxTotal
         /\ \A i, j \in 0..K : i <= j => cut[i] <= cut[j]
<1>1. /\ K \in Nat /\ K <= MaxBuffers /\ MaxBuffers \in Nat
      /\ MaxTotal \in Nat /\ cut \in Cuts(K, MaxTotal)
      /\ begin_ \in Nat /\ end_ \in Nat /\ len_ \in Nat
      /\ end_ = begin_ + len_ /\ end_ <= K
      /\ size_ \in Nat /\ size_ <= MaxTotal /\ n \in Nat /\ n <= size_
      /\ prefix_ \in Nat /\ prefix_ <= MaxTotal
      /\ suffix_ \in Nat /\ suffix_ <= MaxTotal
  BY SliceAssumption DEF Shape, TypeOK, Consistent
<1>2. /\ \A i \in 0..K : cut[i] \in Nat /\ cut[i] \in 0..MaxTotal
      /\ \A i, j \in 0..K : i <= j => cut[i] <= cut[j]
  BY <1>1, CutsAscend
<1> QED
  BY <1>1, <1>2

LEMMA IntervalIs ==
  ASSUME NEW l \in Nat, NEW u \in Int, u <= MaxTotal
  PROVE  Interval(l, u) = l..u - 1
BY SliceAssumption DEF Interval

(* The element j of an iterator like x, if it is the buffer p of bs_.      *)
Element(x, p, j) ==
  Interval(cut[p] + (IF j = 0 THEN x.prefix ELSE 0),
           cut[p + 1] - (IF j = x.n - 1 THEN x.suffix ELSE 0))

LEMMA ShownIs ==
  ASSUME Shape
  PROVE  \A j \in 0..len_ - 1 : Shown[j] = Element(Begin, begin_ + j, j)
BY Fits DEF Shown, Deref, Begin, Element

LEMMA WindowIs ==
  ASSUME Shape, begin_ # end_
  PROVE  /\ len_ # 0 /\ begin_ \in 0..K /\ end_ \in 0..K
         /\ begin_ + 1 \in 0..K /\ end_ - 1 \in 0..K
         /\ begin_ + 1 <= end_
         /\ Lo \in Nat /\ Hi \in Nat /\ Hi <= MaxTotal
         /\ Lo + size_ = Hi
         /\ Lo <= cut[begin_ + 1] /\ cut[end_ - 1] <= Hi
<1>1. /\ len_ # 0 /\ begin_ \in 0..K /\ end_ \in 0..K
      /\ begin_ + 1 \in 0..K /\ end_ - 1 \in 0..K
      /\ begin_ + 1 <= end_
  BY Fits
<1>2. /\ cut[begin_] \in Nat /\ cut[begin_ + 1] \in Nat
      /\ cut[end_ - 1] \in Nat /\ cut[end_] \in Nat /\ cut[end_] <= MaxTotal
      /\ prefix_ \in Nat /\ suffix_ \in Nat /\ size_ \in Nat
  BY <1>1, Fits
<1>3. end_ - 1 + 1 = end_
  BY Fits
<1>4. /\ prefix_ <= cut[begin_ + 1] - cut[begin_]
      /\ suffix_ <= cut[end_] - cut[end_ - 1]
      /\ cut[begin_] + prefix_ + size_ + suffix_ = cut[end_]
  BY <1>3 DEF Shape, Consistent, BufSize
<1>5. /\ Lo \in Nat /\ Hi \in Nat /\ Hi <= MaxTotal
      /\ Lo + size_ = Hi
      /\ Lo <= cut[begin_ + 1] /\ cut[end_ - 1] <= Hi
  BY <1>2, <1>4, Fits DEF Lo, Hi
<1> QED
  BY <1>1, <1>5

(* The first m elements show the bytes up to a cut, or all.                *)
Reached(m) == IF m = len_ THEN Hi ELSE cut[begin_ + m]

LEMMA FrontIs ==
  ASSUME Shape, begin_ # end_, NEW m \in 1..len_
  PROVE  UNION {Shown[j] : j \in 0..m - 1} = Lo..Reached(m) - 1
<1>1. /\ len_ # 0 /\ len_ \in Nat /\ begin_ \in Nat /\ end_ = begin_ + len_
      /\ end_ <= K /\ K \in Nat
      /\ Lo \in Nat /\ Hi \in Nat /\ Hi <= MaxTotal
      /\ Lo <= cut[begin_ + 1] /\ cut[end_ - 1] <= Hi
      /\ prefix_ \in Nat /\ suffix_ \in Nat /\ MaxTotal \in Nat
      /\ m \in Nat /\ m <= len_ /\ m # 0
  BY Fits, WindowIs
<1>2. /\ \A i \in 0..K : cut[i] \in Nat /\ cut[i] <= MaxTotal
      /\ \A i, j \in 0..K : i <= j => cut[i] <= cut[j]
  BY Fits
<1>3. begin_ + m \in 0..K /\ cut[begin_ + m] \in Nat /\ Reached(m) \in Nat
  BY <1>1, <1>2 DEF Reached
<1>4. ASSUME NEW j \in 0..m - 1
      PROVE  /\ begin_ + j \in 0..K /\ begin_ + j + 1 \in 0..K
             /\ begin_ + j \in Nat /\ j \in Nat
             /\ Shown[j] = {x \in 0..MaxTotal :
                  /\ cut[begin_ + j] + (IF j = 0 THEN prefix_ ELSE 0) <= x
                  /\ x < cut[begin_ + j + 1]
                           - (IF j = len_ - 1 THEN suffix_ ELSE 0)}
  <2>1. j \in 0..len_ - 1
    BY <1>1
  <2>2. Shown[j] = Element(Begin, begin_ + j, j)
    BY <2>1, ShownIs
  <2> QED
    BY <1>1, <2>2 DEF Element, Begin, Interval
<1>5. ASSUME NEW j \in 0..m - 1, NEW x \in Shown[j]
      PROVE  x \in Lo..Reached(m) - 1
  <2>1. /\ x \in Nat /\ begin_ + j \in 0..K /\ begin_ + j + 1 \in 0..K
        /\ cut[begin_ + j] + (IF j = 0 THEN prefix_ ELSE 0) <= x
        /\ x < cut[begin_ + j + 1] - (IF j = len_ - 1 THEN suffix_ ELSE 0)
    BY <1>4, <1>5
  <2>2. cut[begin_ + j] \in Nat /\ cut[begin_ + j + 1] \in Nat
    BY <1>2, <2>1
  <2>3. Lo <= x
    <3>1. CASE j = 0
      <4>1. begin_ + j = begin_
        BY <1>1, <3>1
      <4> QED
        BY <2>1, <3>1, <4>1 DEF Lo
    <3>2. CASE j # 0
      <4>1. begin_ + 1 \in 0..K /\ begin_ + 1 <= begin_ + j
        BY <1>1, <3>2
      <4>2. cut[begin_ + 1] <= cut[begin_ + j] /\ cut[begin_ + 1] \in Nat
        BY <1>2, <2>1, <4>1
      <4> QED
        BY <1>1, <2>1, <2>2, <3>2, <4>2
    <3> QED
      BY <3>1, <3>2
  <2>4. x < Reached(m)
    <3>1. CASE j = len_ - 1
      <4>1. begin_ + j + 1 = end_ /\ m = len_
        BY <1>1, <3>1
      <4> QED
        BY <2>1, <3>1, <4>1 DEF Hi, Reached
    <3>2. CASE j # len_ - 1
      <4>1. x < cut[begin_ + j + 1]
        BY <1>1, <2>1, <2>2, <3>2
      <4>2. CASE m = len_
        <5>1. end_ - 1 \in 0..K /\ begin_ + j + 1 <= end_ - 1
          BY <1>1, <3>2
        <5>2. cut[begin_ + j + 1] <= cut[end_ - 1] /\ cut[end_ - 1] \in Nat
          BY <1>2, <2>1, <5>1
        <5> QED
          BY <1>1, <2>1, <2>2, <4>1, <4>2, <5>2 DEF Reached
      <4>3. CASE m # len_
        <5>1. begin_ + j + 1 <= begin_ + m
          BY <1>1
        <5>2. cut[begin_ + j + 1] <= cut[begin_ + m]
          BY <1>2, <1>3, <2>1, <5>1
        <5> QED
          BY <1>3, <2>1, <2>2, <4>1, <4>3, <5>2 DEF Reached
      <4> QED
        BY <4>2, <4>3
    <3> QED
      BY <3>1, <3>2
  <2> QED
    BY <1>1, <1>3, <2>1, <2>3, <2>4
<1>6. ASSUME NEW x \in Lo..Reached(m) - 1
      PROVE  \E j \in 0..m - 1 : x \in Shown[j]
  <2>1. begin_ \in 0..K /\ end_ \in 0..K /\ begin_ <= begin_ + m /\ x \in Nat
    BY <1>1, <1>3
  <2>2. cut[begin_] \in Nat /\ cut[end_] \in Nat
    BY <1>2, <2>1
  <2>3. x < Reached(m)
    BY <1>3
  <2>4. cut[begin_] <= x /\ x < cut[begin_ + m] /\ x \in 0..MaxTotal
    <3>1. cut[begin_] <= x
      BY <1>1, <2>1, <2>2 DEF Lo
    <3>2. m = len_ => begin_ + m = end_
      BY <1>1
    <3>3. x < cut[begin_ + m]
      BY <1>1, <1>3, <2>1, <2>2, <2>3, <3>2 DEF Reached, Hi
    <3>4. cut[begin_ + m] <= MaxTotal
      BY <1>2, <1>3
    <3> QED
      BY <1>1, <1>3, <2>1, <3>1, <3>3, <3>4
  <2>0. PICK b \in 0..K : b = begin_ + m
    BY <1>3
  <2>5. PICK j \in 0..b - begin_ - 1 :
          cut[begin_ + j] <= x /\ x < cut[begin_ + j + 1]
    <3>1. MaxTotal \in Nat /\ K \in Nat /\ cut \in Cuts(K, MaxTotal)
      BY Fits
    <3>2. begin_ <= b /\ x < cut[b]
      BY <2>1, <2>4, <2>0
    <3> QED
      BY <2>1, <2>4, <3>1, <3>2, BufferAt
  <2>6. j \in 0..m - 1
    BY <1>1, <2>0
  <2>7. j = 0 => cut[begin_ + j] + prefix_ <= x
    <3>1. j = 0 => begin_ + j = begin_
      BY <1>1
    <3> QED
      BY <3>1 DEF Lo
  <2>8. j = len_ - 1 => x < cut[begin_ + j + 1] - suffix_
    <3>1. j = len_ - 1 => begin_ + j + 1 = end_ /\ m = len_
      BY <1>1, <2>6
    <3> QED
      BY <2>3, <3>1 DEF Hi, Reached
  <2>9. cut[begin_ + j] \in Nat /\ cut[begin_ + j + 1] \in Nat
    BY <1>2, <1>4, <2>6
  <2>10. x \in Shown[j]
    BY <1>4, <2>4, <2>5, <2>6, <2>7, <2>8, <2>9
  <2> QED
    BY <2>6, <2>10
<1>7. UNION {Shown[j] : j \in 0..m - 1} \in SUBSET (Lo..Reached(m) - 1)
  BY <1>5
<1>8. Lo..Reached(m) - 1 \in SUBSET UNION {Shown[j] : j \in 0..m - 1}
  BY <1>6
<1> QED
  BY <1>7, <1>8

LEMMA ContentIs ==
  Shape => /\ begin_ = end_ => Content = {}
           /\ begin_ # end_ => Content = Lo..Hi - 1
<1> SUFFICES ASSUME Shape
             PROVE  /\ begin_ = end_ => Content = {}
                    /\ begin_ # end_ => Content = Lo..Hi - 1
  OBVIOUS
<1>1. ASSUME begin_ = end_ PROVE Content = {}
  <2>1. len_ = 0
    BY <1>1, Fits
  <2> QED
    BY <2>1 DEF Content
<1>2. ASSUME begin_ # end_ PROVE Content = Lo..Hi - 1
  <2>1. len_ \in 1..len_ /\ Reached(len_) = Hi
    BY <1>2, Fits DEF Reached
  <2> QED
    BY <1>2, <2>1, FrontIs DEF Content
<1> QED
  BY <1>1, <1>2

LEMMA SizeIs ==
  Shape => ContentSize = IF begin_ = end_ THEN 0 ELSE size_
<1> SUFFICES ASSUME Shape
             PROVE  ContentSize = IF begin_ = end_ THEN 0 ELSE size_
  OBVIOUS
<1>1. CASE begin_ = end_
  BY <1>1, ContentIs, FS_EmptySet DEF ContentSize
<1>2. CASE begin_ # end_
  <2>1. Lo \in Nat /\ Hi \in Nat /\ Lo <= Hi /\ size_ = Hi - Lo /\ size_ \in Nat
    BY <1>2, Fits, WindowIs
  <2>2. Cardinality(Lo..Hi - 1) = Hi - Lo
    BY <2>1, WindowCounts
  <2> QED
    BY <1>2, <2>1, <2>2, ContentIs DEF ContentSize
<1> QED
  BY <1>1, <1>2

(* Where its elements cut what a slice shows.                              *)
ElementEnds == [i \in 0..len_ |-> Cardinality(UNION {Shown[j] : j \in 0..i - 1})]

(* The elements are a sequence of buffers, that has the bytes of the slice. *)
LEMMA ElementsAreCuts ==
  Shape => /\ ElementEnds \in Cuts(len_, MaxTotal)
           /\ ElementEnds[len_] = ContentSize
<1> SUFFICES ASSUME Shape
             PROVE  /\ ElementEnds \in Cuts(len_, MaxTotal)
                    /\ ElementEnds[len_] = ContentSize
  OBVIOUS
<1>1. len_ \in Nat /\ MaxTotal \in Nat /\ len_ \in 0..len_
  BY Fits
<1>2. ElementEnds[0] = 0
  <2>1. UNION {Shown[j] : j \in 0..0 - 1} = {} /\ 0 \in 0..len_
    BY <1>1
  <2> QED
    BY <2>1, FS_EmptySet DEF ElementEnds
<1>3. ASSUME NEW m \in 1..len_
      PROVE  ElementEnds[m] = Reached(m) - Lo /\ Lo \in Nat /\ Reached(m) \in Nat
             /\ Lo <= Reached(m) /\ Reached(m) <= MaxTotal
  <2>1. begin_ # end_ /\ m \in 0..len_
    BY Fits
  <2>2. Lo \in Nat /\ Reached(m) \in Nat /\ Lo <= Reached(m) /\ Reached(m) <= MaxTotal
    <3>1. CASE m = len_
      <4>1. Lo \in Nat /\ Hi \in Nat /\ Hi <= MaxTotal /\ Lo <= Hi
        BY <2>1, WindowIs, Fits
      <4> QED
        BY <3>1, <4>1 DEF Reached
    <3>2. CASE m # len_
      <4>1. /\ begin_ + 1 \in 0..K /\ begin_ + m \in 0..K /\ begin_ + 1 <= begin_ + m
            /\ Lo \in Nat /\ Lo <= cut[begin_ + 1]
        BY <2>1, WindowIs, Fits
      <4>2. /\ cut[begin_ + 1] \in Nat /\ cut[begin_ + m] \in Nat
            /\ cut[begin_ + 1] <= cut[begin_ + m] /\ cut[begin_ + m] <= MaxTotal
        BY <4>1, Fits
      <4> QED
        BY <1>1, <3>2, <4>1, <4>2 DEF Reached
    <3> QED
      BY <3>1, <3>2
  <2>3. UNION {Shown[j] : j \in 0..m - 1} = Lo..Reached(m) - 1
    BY <2>1, FrontIs
  <2>4. Cardinality(Lo..Reached(m) - 1) = Reached(m) - Lo
    BY <2>2, WindowCounts
  <2> QED
    BY <2>1, <2>2, <2>3, <2>4 DEF ElementEnds
<1>4. ASSUME NEW a \in 1..len_, NEW b \in 1..len_, a <= b
      PROVE  Reached(a) <= Reached(b)
  <2>1. /\ begin_ # end_ /\ begin_ + a \in 0..K /\ begin_ + b \in 0..K
        /\ begin_ + a <= begin_ + b /\ end_ = begin_ + len_
    BY <1>4, Fits
  <2>2. cut[begin_ + a] <= cut[begin_ + b] /\ cut[begin_ + a] \in Nat
    BY <2>1, Fits
  <2>3. CASE b # len_
    <3>1. a # len_
      BY <1>1, <1>4, <2>3
    <3> QED
      BY <2>2, <2>3, <3>1 DEF Reached
  <2>4. CASE b = len_ /\ a # len_
    <3>1. begin_ + a <= end_ - 1 /\ end_ - 1 \in 0..K /\ cut[end_ - 1] <= Hi
          /\ Hi \in Nat
      BY <1>1, <2>1, <2>4, WindowIs, Fits
    <3>2. cut[begin_ + a] <= cut[end_ - 1] /\ cut[end_ - 1] \in Nat
      BY <2>1, <3>1, Fits
    <3> QED
      BY <2>2, <2>4, <3>1, <3>2 DEF Reached
  <2>5. CASE b = len_ /\ a = len_
    BY <1>3, <2>5
  <2> QED
    BY <2>3, <2>4, <2>5
<1>5. ASSUME NEW i \in 0..len_ PROVE ElementEnds[i] \in 0..MaxTotal
  <2>1. CASE i = 0
    BY <1>1, <1>2, <2>1
  <2>2. CASE i # 0
    <3>1. i \in 1..len_
      BY <1>1, <2>2
    <3>2. ElementEnds[i] = Reached(i) - Lo /\ Lo \in Nat /\ Reached(i) \in Nat
          /\ Lo <= Reached(i) /\ Reached(i) <= MaxTotal
      BY <1>3, <3>1
    <3> QED
      BY <1>1, <3>2
  <2> QED
    BY <2>1, <2>2
<1>6. ASSUME NEW i \in 0..len_, NEW j \in 0..len_, i <= j
      PROVE  ElementEnds[i] <= ElementEnds[j]
  <2>1. CASE i = 0
    BY <1>1, <1>2, <1>5, <2>1
  <2>2. CASE i # 0
    <3>1. i \in 1..len_ /\ j \in 1..len_
      BY <1>1, <1>6, <2>2
    <3>2. /\ ElementEnds[i] = Reached(i) - Lo /\ ElementEnds[j] = Reached(j) - Lo
          /\ Lo \in Nat /\ Reached(i) \in Nat /\ Reached(j) \in Nat
      BY <1>3, <3>1
    <3>3. Reached(i) <= Reached(j)
      BY <1>4, <1>6, <3>1
    <3> QED
      BY <3>2, <3>3
  <2> QED
    BY <2>1, <2>2
<1>7. ElementEnds \in [0..len_ -> 0..MaxTotal]
  BY <1>5 DEF ElementEnds
<1>8. ElementEnds[len_] = ContentSize
  BY <1>1 DEF ElementEnds, ContentSize, Content
<1> QED
  BY <1>2, <1>6, <1>7, <1>8 DEF Cuts

-----------------------------------------------------------------------------
(* The members of a slice stay consistent, whatever is called.             *)

LEMMA InitShape == Init => Shape
<1> SUFFICES ASSUME Init PROVE Shape
  OBVIOUS
<1>1. /\ K \in Nat /\ MaxTotal \in Nat /\ K <= MaxBuffers
      /\ cut \in Cuts(K, MaxTotal)
  BY SliceAssumption DEF Init
<1>2. /\ cut[0] = 0
      /\ \A i \in 0..K : cut[i] \in Nat /\ cut[i] \in 0..MaxTotal
      /\ \A i \in 0..K - 1 : i + 1 \in 0..K /\ cut[i] <= cut[i + 1]
  BY <1>1, CutsAscend
<1>3. cut[K] \in 0..MaxTotal
  BY <1>1, <1>2
<1>4. TypeOK
  BY <1>1, <1>3, SliceAssumption DEF Init, TypeOK
<1>5. Consistent
  <2>1. K # 0 => BufSize(cut, 0) >= 0 /\ BufSize(cut, K - 1) >= 0
    <3> SUFFICES ASSUME K # 0
                 PROVE  BufSize(cut, 0) >= 0 /\ BufSize(cut, K - 1) >= 0
      OBVIOUS
    <3>1. 0 \in 0..K - 1 /\ K - 1 \in 0..K - 1
      BY <1>1
    <3>2. cut[0 + 1] \in Nat /\ cut[K - 1] \in Nat /\ cut[K - 1 + 1] \in Nat
          /\ cut[0] <= cut[0 + 1] /\ cut[K - 1] <= cut[K - 1 + 1]
      BY <1>1, <1>2, <3>1
    <3> QED
      BY <1>2, <3>2 DEF BufSize
  <2> QED
    BY <1>1, <1>2, <1>3, <2>1 DEF Init, Consistent
<1>6. IteratorInside
  BY <1>1 DEF Init, IteratorInside
<1> QED
  BY <1>4, <1>5, <1>6 DEF Shape

(* The two loops, up to their first turn.                                  *)
LEMMA RemovePrefixShape ==
  ASSUME Shape, pc = "idle", UNCHANGED iter, NEW k \in Nat, RemovePrefixImpl(k)
  PROVE  Shape'
<1>1. /\ n' = Least(k, size_) + prefix_ /\ size_' = size_ + prefix_
      /\ prefix_' = 0 /\ pc' = "remove_prefix" /\ iter' = iter
      /\ K' = K /\ cut' = cut /\ begin_' = begin_ /\ end_' = end_
      /\ len_' = len_ /\ suffix_' = suffix_
  BY DEF RemovePrefixImpl
<1>2. /\ size_ \in Nat /\ prefix_ \in Nat /\ suffix_ \in Nat /\ MaxTotal \in Nat
      /\ Least(k, size_) \in Nat /\ Least(k, size_) <= size_
  BY Fits, LeastOf
<1>3. size_ + prefix_ <= MaxTotal
  <2>1. CASE begin_ = end_
    BY <2>1 DEF Shape, Consistent
  <2>2. CASE begin_ # end_
    <3>1. Hi \in Nat /\ Hi <= MaxTotal /\ Lo + size_ = Hi /\ cut[begin_] \in Nat
      BY <2>2, WindowIs, Fits
    <3> QED
      BY <1>2, <3>1 DEF Lo
  <2> QED
    BY <2>1, <2>2
<1>4. n' \in 0..MaxTotal /\ size_' \in 0..MaxTotal /\ n' <= size_'
  BY <1>1, <1>2, <1>3
<1>5. begin_ # end_ =>
        /\ 0 <= BufSize(cut, begin_)
        /\ suffix_ <= BufSize(cut, end_ - 1)
        /\ cut[begin_] + 0 + (size_ + prefix_) + suffix_ = cut[end_]
  <2> SUFFICES ASSUME begin_ # end_
               PROVE  /\ 0 <= BufSize(cut, begin_)
                      /\ suffix_ <= BufSize(cut, end_ - 1)
                      /\ cut[begin_] + 0 + (size_ + prefix_) + suffix_ = cut[end_]
    OBVIOUS
  <2>1. /\ cut[begin_] \in Nat /\ cut[end_] \in Nat /\ cut[begin_ + 1] \in Nat
        /\ cut[begin_] <= cut[begin_ + 1]
    BY WindowIs, Fits
  <2> QED
    BY <1>2, <2>1 DEF Shape, Consistent, BufSize
<1>6. TypeOK'
  BY <1>1, <1>4, <1>2 DEF Shape, TypeOK
<1>7. Consistent'
  BY <1>1, <1>2, <1>3, <1>4, <1>5 DEF Shape, Consistent, BufSize
<1> QED
  BY <1>1, <1>6, <1>7 DEF Shape, IteratorInside

LEMMA RemoveSuffixShape ==
  ASSUME Shape, pc = "idle", UNCHANGED iter, NEW k \in Nat, RemoveSuffixImpl(k)
  PROVE  Shape'
<1>1. /\ n' = Least(k, size_) + suffix_ /\ size_' = size_ + suffix_
      /\ suffix_' = 0 /\ pc' = "remove_suffix" /\ iter' = iter
      /\ K' = K /\ cut' = cut /\ begin_' = begin_ /\ end_' = end_
      /\ len_' = len_ /\ prefix_' = prefix_ /\ begin_ # end_
  BY DEF RemoveSuffixImpl
<1>2. /\ size_ \in Nat /\ prefix_ \in Nat /\ suffix_ \in Nat /\ MaxTotal \in Nat
      /\ Least(k, size_) \in Nat /\ Least(k, size_) <= size_
  BY Fits, LeastOf
<1>3. /\ cut[begin_] \in Nat /\ cut[end_] \in Nat /\ cut[end_] <= MaxTotal
      /\ cut[end_ - 1] \in Nat /\ cut[end_ - 1] <= cut[end_]
  BY <1>1, WindowIs, Fits
<1>4. /\ prefix_ <= BufSize(cut, begin_)
      /\ 0 <= BufSize(cut, end_ - 1)
      /\ cut[begin_] + prefix_ + (size_ + suffix_) + 0 = cut[end_]
  <2>1. end_ - 1 + 1 = end_
    BY Fits
  <2> QED
    BY <1>1, <1>2, <1>3, <2>1 DEF Shape, Consistent, BufSize
<1>5. n' \in 0..MaxTotal /\ size_' \in 0..MaxTotal /\ n' <= size_'
  BY <1>1, <1>2, <1>3, <1>4
<1>6. TypeOK'
  BY <1>1, <1>5, <1>2 DEF Shape, TypeOK
<1>7. Consistent'
  BY <1>1, <1>2, <1>4, <1>5 DEF Shape, Consistent, BufSize
<1> QED
  BY <1>1, <1>6, <1>7 DEF Shape, IteratorInside

LEMMA KeepPrefixShape ==
  ASSUME Shape, pc = "idle", UNCHANGED iter, NEW k \in Nat, KeepPrefixImpl(k)
  PROVE  Shape'
<1>1. CASE UNCHANGED sliceVars
  BY <1>1 DEF sliceVars, Shape, TypeOK, Consistent, IteratorInside, BufSize
<1>2. CASE KeepNothing
  <2>1. 0 \in 0..MaxTotal /\ begin_ \in begin_..K /\ 0 \in 0..K /\ prefix_ <= MaxTotal
    BY Fits
  <2>2. /\ n = 0 /\ begin_ = begin_ + 0 /\ 0 + prefix_ <= MaxTotal
    <3>1. begin_ \in Nat /\ prefix_ \in Nat
      BY Fits
    <3> QED
      BY <2>1, <3>1 DEF Shape, Consistent
  <2>3. TypeOK'
    BY <1>2, <2>1 DEF KeepNothing, Shape, TypeOK
  <2>4. Consistent'
    BY <1>2, <2>2 DEF KeepNothing, Shape, Consistent
  <2> QED
    BY <1>2, <2>3, <2>4 DEF KeepNothing, Shape, IteratorInside
<1>3. ASSUME k < size_, RemoveSuffixImpl(size_ - k)
      PROVE  Shape'
  <2>1. size_ - k \in Nat
    BY <1>3, Fits
  <2> QED
    BY <1>3, <2>1, RemoveSuffixShape
<1>4. CASE RemoveSuffixAsserts
  BY <1>4 DEF RemoveSuffixAsserts, Shape, TypeOK, Consistent, IteratorInside
<1> QED
  BY <1>1, <1>2, <1>3, <1>4 DEF KeepPrefixImpl

(* A turn of the loop at the front.                                        *)
LEMMA PrefixShape ==
  ASSUME Shape, UNCHANGED iter, PrefixDone \/ PrefixPart \/ PrefixWhole
  PROVE  Shape'
<1>1. /\ pc = "remove_prefix" /\ prefix_ = 0 /\ K' = K /\ cut' = cut
      /\ end_' = end_ /\ suffix_' = suffix_ /\ iter' = iter
  BY DEF PrefixDone, PrefixPart, PrefixWhole, Shape, Consistent
<1>2. CASE PrefixDone
  <2>1. 0 \in 0..MaxTotal /\ 0 <= size_
    BY Fits
  <2> QED
    BY <1>1, <1>2, <2>1
    DEF PrefixDone, Shape, TypeOK, Consistent, IteratorInside, BufSize
<1>3. CASE PrefixPart
  <2>1. /\ begin_ # end_ /\ n < BufSize(cut, begin_) /\ prefix_' = n
        /\ size_' = size_ - n /\ n' = 0 /\ pc' = "idle"
        /\ begin_' = begin_ /\ len_' = len_
    BY <1>3 DEF PrefixPart
  <2>2. n \in Nat /\ size_ \in Nat /\ n <= size_ /\ size_ <= MaxTotal /\ MaxTotal \in Nat
    BY Fits
  <2>3. /\ size_' \in 0..MaxTotal /\ 0 \in 0..MaxTotal
    BY <2>1, <2>2
  <2>4. TypeOK'
    BY <1>1, <2>1, <2>2, <2>3 DEF Shape, TypeOK
  <2>5. /\ n <= BufSize(cut, begin_)
        /\ suffix_ <= BufSize(cut, end_ - 1)
        /\ cut[begin_] + n + (size_ - n) + suffix_ = cut[end_]
    <3>1. /\ cut[begin_] \in Nat /\ cut[begin_ + 1] \in Nat /\ suffix_ \in Nat
      BY <2>1, WindowIs, Fits
    <3> QED
      BY <1>1, <2>1, <2>2, <3>1 DEF Shape, Consistent, BufSize
  <2>6. Consistent'
    BY <1>1, <2>1, <2>2, <2>3, <2>5 DEF Shape, Consistent, BufSize
  <2> QED
    BY <1>1, <2>4, <2>6 DEF Shape, IteratorInside
<1>4. CASE PrefixWhole
  <2> DEFINE b == BufSize(cut, begin_)
  <2>1. /\ begin_ # end_ /\ n >= b /\ n' = n - b /\ size_' = size_ - b
        /\ begin_' = begin_ + 1 /\ len_' = len_ - 1 /\ pc' = pc /\ prefix_' = 0
    BY <1>1, <1>4 DEF PrefixWhole
  <2>2. /\ n \in Nat /\ size_ \in Nat /\ n <= size_ /\ size_ <= MaxTotal
        /\ MaxTotal \in Nat /\ begin_ \in Nat /\ len_ \in Nat /\ end_ = begin_ + len_
        /\ end_ <= K /\ len_ # 0 /\ K \in Nat /\ suffix_ \in Nat
    BY <2>1, WindowIs, Fits
  <2>3. /\ cut[begin_] \in Nat /\ cut[begin_ + 1] \in Nat /\ cut[end_] \in Nat
        /\ cut[begin_] <= cut[begin_ + 1] /\ b = cut[begin_ + 1] - cut[begin_]
    BY <2>1, WindowIs, Fits DEF BufSize
  <2>4. suffix_ <= BufSize(cut, end_ - 1) /\ cut[begin_] + size_ + suffix_ = cut[end_]
    BY <1>1, <2>1, <2>2, <2>3 DEF Shape, Consistent
  <2> HIDE DEF b
  <2>5. /\ n' \in 0..MaxTotal /\ size_' \in 0..MaxTotal /\ n' <= size_'
        /\ begin_ + 1 \in 0..K /\ end_ \in begin_ + 1..K /\ len_ - 1 \in 0..K
        /\ end_ = (begin_ + 1) + (len_ - 1)
    BY <2>1, <2>2, <2>3
  <2>6. begin_ + 1 # end_ =>
          /\ 0 <= BufSize(cut, begin_ + 1)
          /\ cut[begin_ + 1] + 0 + (size_ - b) + suffix_ = cut[end_]
    <3> SUFFICES ASSUME begin_ + 1 # end_
                 PROVE  /\ 0 <= BufSize(cut, begin_ + 1)
                        /\ cut[begin_ + 1] + 0 + (size_ - b) + suffix_ = cut[end_]
      OBVIOUS
    <3>1. begin_ + 1 \in 0..K /\ begin_ + 1 + 1 \in 0..K /\ begin_ + 1 <= begin_ + 1 + 1
      BY <2>2
    <3>2. /\ cut[begin_ + 1 + 1] \in Nat /\ cut[begin_ + 1] <= cut[begin_ + 1 + 1]
      BY <3>1, Fits
    <3> QED
      BY <2>2, <2>3, <2>4, <3>2 DEF BufSize
  <2>7. TypeOK'
    BY <1>1, <2>1, <2>2, <2>5 DEF Shape, TypeOK
  <2>8. (size_ - b) + 0 <= MaxTotal
    BY <2>2, <2>3
  <2>9. Consistent'
    BY <1>1, <2>1, <2>4, <2>5, <2>6, <2>8 DEF Consistent, BufSize
  <2> QED
    BY <1>1, <2>7, <2>9 DEF Shape, IteratorInside
<1> QED
  BY <1>2, <1>3, <1>4

(* A turn of the loop at the back.                                         *)
LEMMA SuffixShape ==
  ASSUME Shape, UNCHANGED iter, SuffixPart \/ SuffixWhole \/ SuffixFirst
  PROVE  Shape'
<1>1. /\ pc = "remove_suffix" /\ suffix_ = 0 /\ begin_ # end_
      /\ K' = K /\ cut' = cut /\ begin_' = begin_ /\ prefix_' = prefix_
      /\ iter' = iter
  BY DEF SuffixPart, SuffixWhole, SuffixFirst, Shape, Consistent
<1>2. /\ n \in Nat /\ size_ \in Nat /\ n <= size_ /\ size_ <= MaxTotal
      /\ MaxTotal \in Nat /\ begin_ \in Nat /\ len_ \in Nat /\ end_ = begin_ + len_
      /\ end_ <= K /\ len_ # 0 /\ K \in Nat
      /\ prefix_ \in Nat /\ prefix_ <= MaxTotal
  BY <1>1, WindowIs, Fits
<1>3. /\ cut[begin_] \in Nat /\ cut[end_ - 1] \in Nat /\ cut[end_] \in Nat
      /\ cut[end_ - 1] <= cut[end_] /\ cut[begin_ + 1] <= cut[end_]
      /\ cut[begin_ + 1] \in Nat /\ cut[end_] <= MaxTotal
      /\ BufSize(cut, end_ - 1) = cut[end_] - cut[end_ - 1]
  <2>1. end_ - 1 + 1 = end_
    BY <1>2
  <2> QED
    BY <1>1, <2>1, WindowIs, Fits DEF BufSize
<1>4. /\ prefix_ <= cut[begin_ + 1] - cut[begin_]
      /\ cut[begin_] + prefix_ + size_ = cut[end_]
  BY <1>1, <1>2, <1>3 DEF Shape, Consistent, BufSize
<1>5. CASE SuffixPart
  <2>1. /\ n < BufSize(cut, end_ - 1) /\ suffix_' = n
        /\ size_' = size_ - n /\ n' = 0 /\ pc' = "idle"
        /\ end_' = end_ /\ len_' = len_
    BY <1>5 DEF SuffixPart
  <2>2. size_' \in 0..MaxTotal /\ 0 \in 0..MaxTotal /\ n \in 0..MaxTotal
    BY <1>2, <2>1
  <2>3. TypeOK'
    BY <1>1, <2>1, <2>2 DEF Shape, TypeOK
  <2>4. /\ prefix_ <= BufSize(cut, begin_)
        /\ n <= BufSize(cut, end_ - 1)
        /\ cut[begin_] + prefix_ + (size_ - n) + n = cut[end_]
    BY <1>2, <1>3, <1>4, <2>1 DEF BufSize
  <2>5. Consistent'
    BY <1>1, <1>2, <2>1, <2>2, <2>4 DEF Consistent, BufSize
  <2> QED
    BY <1>1, <2>3, <2>5 DEF Shape, IteratorInside
<1>6. CASE SuffixWhole
  <2> DEFINE b == BufSize(cut, end_ - 1)
  <2>1. /\ end_ - 1 # begin_ /\ n >= b /\ n' = n - b /\ size_' = size_ - b
        /\ end_' = end_ - 1 /\ len_' = len_ - 1 /\ pc' = pc /\ suffix_' = 0
    BY <1>1, <1>6 DEF SuffixWhole
  <2>2. b = cut[end_] - cut[end_ - 1]
    BY <1>3
  <2> HIDE DEF b
  <2>3. /\ end_ - 1 \in begin_..K /\ len_ - 1 \in 0..K
        /\ end_ - 1 = begin_ + (len_ - 1) /\ end_ - 1 # begin_
    BY <1>2, <2>1
  <2>4. /\ begin_ + 1 \in 0..K /\ end_ - 1 \in 0..K /\ begin_ + 1 <= end_ - 1
        /\ end_ - 1 - 1 \in 0..K /\ end_ - 1 - 1 <= end_ - 1
    BY <1>2, <2>1
  <2>5. /\ cut[begin_ + 1] <= cut[end_ - 1]
        /\ cut[end_ - 1 - 1] \in Nat /\ cut[end_ - 1 - 1] <= cut[end_ - 1]
    BY <2>4, Fits
  <2>6. n' \in 0..MaxTotal /\ size_' \in 0..MaxTotal /\ n' <= size_'
    BY <1>2, <1>3, <1>4, <2>1, <2>2, <2>5
  <2>7. /\ prefix_ <= BufSize(cut, begin_)
        /\ 0 <= BufSize(cut, end_ - 1 - 1)
        /\ cut[begin_] + prefix_ + (size_ - b) + 0 = cut[end_ - 1]
    <3>1. end_ - 1 - 1 + 1 = end_ - 1
      BY <1>2
    <3> QED
      BY <1>2, <1>3, <1>4, <2>2, <2>5, <3>1 DEF BufSize
  <2>8. TypeOK'
    BY <1>1, <2>1, <2>3, <2>6, <1>2 DEF Shape, TypeOK
  <2>9. Consistent'
    BY <1>1, <2>1, <2>3, <2>6, <2>7 DEF Consistent, BufSize
  <2> QED
    BY <1>1, <2>8, <2>9 DEF Shape, IteratorInside
<1>7. CASE SuffixFirst
  <2>1. /\ end_ - 1 = begin_ /\ end_ = begin_ + 1 /\ n' = 0 /\ pc' = "idle"
    BY <1>2, <1>7 DEF SuffixFirst
  <2>2. CASE n + prefix_ < BufSize(cut, begin_)
    <3>1. suffix_' = n /\ size_' = size_ - n /\ end_' = end_ /\ len_' = len_
      BY <1>7, <2>2 DEF SuffixFirst
    <3>2. size_' \in 0..MaxTotal /\ 0 \in 0..MaxTotal /\ n \in 0..MaxTotal
      BY <1>2, <3>1
    <3>3. /\ prefix_ <= BufSize(cut, begin_)
          /\ n <= BufSize(cut, end_ - 1)
          /\ cut[begin_] + prefix_ + (size_ - n) + n = cut[end_]
      BY <1>2, <1>3, <1>4, <2>1, <2>2 DEF BufSize
    <3>4. TypeOK'
      BY <1>1, <2>1, <3>1, <3>2 DEF Shape, TypeOK
    <3>5. Consistent'
      BY <1>1, <1>2, <2>1, <3>1, <3>2, <3>3 DEF Consistent, BufSize
    <3> QED
      BY <1>1, <3>4, <3>5 DEF Shape, IteratorInside
  <2>3. CASE ~(n + prefix_ < BufSize(cut, begin_))
    <3>1. suffix_' = 0 /\ size_' = 0 /\ end_' = begin_ /\ len_' = 0
      BY <1>1, <1>7, <2>3 DEF SuffixFirst
    <3>2. /\ 0 \in 0..MaxTotal /\ begin_ \in begin_..K /\ 0 \in 0..K
          /\ begin_ = begin_ + 0 /\ 0 + prefix_ <= MaxTotal /\ begin_ \in 0..K
      BY <1>2
    <3>3. TypeOK'
      BY <1>1, <2>1, <3>1, <3>2 DEF Shape, TypeOK
    <3>4. Consistent'
      BY <1>1, <2>1, <3>1, <3>2 DEF Consistent
    <3> QED
      BY <1>1, <3>3, <3>4 DEF Shape, IteratorInside
  <2> QED
    BY <2>2, <2>3
<1> QED
  BY <1>5, <1>6, <1>7

(* The members of end().                                                   *)
LEMMA EndIs ==
  /\ End.it = end_ /\ End.prefix = prefix_ /\ End.suffix = suffix_
  /\ End.i = len_ /\ End.n = len_
BY DEF Begin, End

(* The two conjuncts of Inv that follow from the shape.                    *)
LEMMA ShapeIsInv == Shape => Inv
<1> SUFFICES ASSUME Shape PROVE Inv
  OBVIOUS
<1>1. SizeIsContent
  <2>1. len_ # 0 => begin_ # end_
    BY Fits
  <2> QED
    BY <2>1, SizeIs DEF SizeIsContent
<1>2. RangeEnds
  <2>1. end_ = begin_ + len_ /\ len_ \in Nat /\ len_ = 0 + len_
    BY Fits
  <2> DEFINE last == [Begin EXCEPT !.it = @ + len_, !.i = @ + len_]
  <2>2. /\ last.it = begin_ + len_ /\ last.prefix = prefix_
        /\ last.suffix = suffix_ /\ last.i = 0 + len_ /\ last.n = len_
    BY DEF Begin
  <2>3. Equal(last, End)
    <3> HIDE DEF last
    <3> QED
      BY <2>1, <2>2, EndIs DEF Equal
  <2> QED
    BY <2>3 DEF RangeEnds
<1> QED
  BY <1>1, <1>2 DEF Inv, Shape

(* The calls, in terms of the two loops.                                   *)
LEMMA CallIs ==
  ASSUME Shape, NEW k \in 0..SizeMax,
         \/ RemovePrefix(k) \/ SansPrefix(k) \/ KeepPrefix(k) \/ Prefix(k)
         \/ KeepSuffix(k) \/ Suffix(k) \/ RemoveSuffix(k) \/ SansSuffix(k)
  PROVE  \E j \in Nat : RemovePrefixImpl(j) \/ KeepPrefixImpl(j)
<1>1. k \in Nat /\ ContentSize \in Nat
  BY SizeIs, SliceAssumption, Fits
<1>2. Least(k, ContentSize) \in Nat /\ Least(k, ContentSize) <= ContentSize
  BY <1>1, LeastOf
<1>3. ContentSize - Least(k, ContentSize) \in Nat
  BY <1>1, <1>2
<1>4. k < ContentSize => ContentSize - k \in Nat
  BY <1>1
<1> QED
  BY <1>1, <1>3, <1>4
  DEF RemovePrefix, SansPrefix, KeepPrefix, Prefix,
      KeepSuffix, Suffix, RemoveSuffix, SansSuffix

LEMMA IteratorFits ==
  Shape => iter.it \in Int /\ iter.i \in Nat /\ iter.n \in Nat
BY Fits DEF Shape, TypeOK

LEMMA NextShape == Shape /\ [Next]_vars => Shape'
<1> SUFFICES ASSUME Shape, [Next]_vars PROVE Shape'
  OBVIOUS
<1>1. CASE Call
  <2>1. pc = "idle" /\ UNCHANGED iter
    BY <1>1 DEF Call
  <2>2. PICK j \in Nat : RemovePrefixImpl(j) \/ KeepPrefixImpl(j)
    BY <1>1, CallIs DEF Call
  <2> QED
    BY <2>1, <2>2, RemovePrefixShape, KeepPrefixShape
<1>2. CASE Loop
  BY <1>2, PrefixShape, SuffixShape DEF Loop
<1>3. CASE MakeIterator
  <2>1. UNCHANGED sliceVars /\ iter' \in {Begin, End}
    BY <1>3 DEF MakeIterator
  <2>2. /\ begin_ \in 0..K /\ end_ \in 0..K /\ 0 \in 0..K /\ len_ \in 0..K
        /\ prefix_ \in 0..MaxTotal /\ suffix_ \in 0..MaxTotal
        /\ 0 <= len_ /\ 0 <= begin_ /\ begin_ + len_ <= K + 0
        /\ len_ <= len_ /\ len_ <= end_ /\ end_ + len_ <= K + len_
    BY Fits
  <2>3. ASSUME iter' = Begin PROVE Shape'
    BY <2>1, <2>2, <2>3
    DEF Begin, sliceVars, Shape, TypeOK, Consistent, IteratorInside, BufSize
  <2>4. End \in [it : 0..K, prefix : 0..MaxTotal, suffix : 0..MaxTotal,
                 i : 0..K, n : 0..K]
    BY <2>2 DEF Begin, End
  <2>5. ASSUME iter' = End PROVE Shape'
    BY <2>1, <2>2, <2>4, <2>5, EndIs
    DEF sliceVars, Shape, TypeOK, Consistent, IteratorInside, BufSize
  <2> QED
    BY <2>1, <2>3, <2>5
<1>4. CASE Increment \/ Decrement
  <2>1. /\ UNCHANGED sliceVars /\ K \in Nat
        /\ iter \in [it : 0..K, prefix : 0..MaxTotal, suffix : 0..MaxTotal,
                     i : 0..K, n : 0..K]
        /\ iter.i <= iter.n /\ iter.i <= iter.it /\ iter.it + iter.n <= K + iter.i
    BY <1>4, Fits DEF Increment, Decrement, Shape, TypeOK, IteratorInside
  <2>2. PICK d \in {-1, 1} :
          /\ iter' = [iter EXCEPT !.it = @ + d, !.i = @ + d]
          /\ d = 1 => iter.i < iter.n
          /\ d = -1 => iter.i > 0
    <3>1. CASE Increment
      BY <2>1, <3>1 DEF Increment, After
    <3>2. CASE Decrement
      <4>1. /\ iter' = [iter EXCEPT !.it = @ - 1, !.i = @ - 1]
            /\ iter.i > 0
        BY <3>2 DEF Decrement, Before
      <4>2. iter.it - 1 = iter.it + (-1) /\ iter.i - 1 = iter.i + (-1)
        BY IteratorFits
      <4>3. iter' = [iter EXCEPT !.it = @ + (-1), !.i = @ + (-1)]
        BY <4>1, <4>2
      <4> QED
        BY <4>1, <4>3
    <3> QED
      BY <1>4, <3>1, <3>2
  <2> DEFINE a == iter.it
             i == iter.i
             l == iter.n
  <2>3. /\ a \in Nat /\ i \in Nat /\ l \in Nat /\ a <= K /\ i <= K /\ l <= K
        /\ i <= l /\ i <= a /\ a + l <= K + i
        /\ d = 1 => i < l
        /\ d = -1 => i > 0
        /\ d = 1 \/ d = -1
    BY <2>1, <2>2
  <2> HIDE DEF a, i, l
  <2>4. /\ a + d \in 0..K /\ i + d \in 0..K
        /\ i + d <= l /\ i + d <= a + d /\ (a + d) + l <= K + (i + d)
    BY <2>1, <2>3
  <2>5. /\ iter' \in [it : 0..K, prefix : 0..MaxTotal, suffix : 0..MaxTotal,
                      i : 0..K, n : 0..K]
        /\ iter'.it = a + d /\ iter'.i = i + d /\ iter'.n = l
    BY <2>1, <2>2, <2>4 DEF a, i, l
  <2> QED
    BY <2>1, <2>4, <2>5
    DEF sliceVars, Shape, TypeOK, Consistent, IteratorInside, BufSize
<1>5. CASE UNCHANGED vars
  BY <1>5 DEF vars, Shape, TypeOK, Consistent, IteratorInside, BufSize
<1> QED
  BY <1>1, <1>2, <1>3, <1>4, <1>5 DEF Next

LEMMA AlwaysShape == Spec => []Shape
BY InitShape, NextShape, PTL DEF Spec

(* size_ is the number of bytes the slice shows (slice.hpp:154, :192), and *)
(* a loop from begin() to end() ends (:327-337): for every sequence and    *)
(* every order of calls.                                                   *)
THEOREM AlwaysInv == Spec => []Inv
BY AlwaysShape, ShapeIsInv, PTL

-----------------------------------------------------------------------------
(* The loops.                                                              *)

Running == pc \in {"remove_prefix", "remove_suffix"}

(* The most turns that a running loop has left.                            *)
Turns == IF Running THEN len_ + 1 ELSE 0

(* While a loop runs, each step is a turn of it, and there are fewer left, *)
(* although a turn over an empty buffer drops no byte (slice.hpp:164,      *)
(* :203): a call takes at most one turn per buffer and one more.           *)
THEOREM LoopsShorten == Spec => [][Running => Turns' \in Nat /\ Turns' < Turns]_vars
<1>1. ASSUME Shape, Shape', Running, Next PROVE Turns' \in Nat /\ Turns' < Turns
  <2>1. len_ \in Nat /\ Turns = len_ + 1
    BY <1>1, Fits DEF Turns
  <2>2. PrefixDone \/ PrefixPart \/ PrefixWhole \/ SuffixPart \/ SuffixWhole \/ SuffixFirst
    BY <1>1 DEF Next, Running, Call, Loop, MakeIterator, Increment, Decrement
  <2>3. CASE PrefixWhole \/ SuffixWhole
    <3>1. len_' = len_ - 1 /\ pc' = pc /\ begin_ # end_
      BY <1>1, <2>3 DEF PrefixWhole, SuffixWhole, Shape, Consistent
    <3>2. len_ # 0
      BY <1>1, <3>1, Fits
    <3> QED
      BY <1>1, <2>1, <3>1, <3>2 DEF Turns, Running
  <2>4. CASE PrefixDone \/ PrefixPart \/ SuffixPart \/ SuffixFirst
    <3>1. pc' = "idle"
      BY <2>4 DEF PrefixDone, PrefixPart, SuffixPart, SuffixFirst
    <3> QED
      BY <2>1, <3>1 DEF Turns, Running
  <2> QED
    BY <2>2, <2>3, <2>4
<1>2. Shape /\ [Next]_vars => Shape'
  BY NextShape
<1>3. Shape /\ [Next]_vars => [Running => Turns' \in Nat /\ Turns' < Turns]_vars
  BY <1>1, <1>2
<1> QED
  BY <1>3, AlwaysShape, PTL DEF Spec

-----------------------------------------------------------------------------
(* An iterator shows the slice it was made of, whatever is called later.   *)

ViewInv ==
  /\ DOMAIN view = 0..iter.n - 1
  /\ \A j \in 0..iter.n - 1 : view[j] = Element(iter, iter.it - iter.i + j, j)

LEMMA NextViewInv == Shape /\ ViewInv /\ [Next]_vars => ViewInv'
<1> SUFFICES ASSUME Shape, ViewInv, [Next]_vars PROVE ViewInv'
  OBVIOUS
<1>1. cut' = cut
  BY DEF Next, Call, Loop, RemovePrefix, KeepPrefix, KeepSuffix, RemoveSuffix,
         SansPrefix, Prefix, Suffix, SansSuffix, RemovePrefixImpl, KeepPrefixImpl,
         RemoveSuffixImpl, RemoveSuffixAsserts, KeepNothing, sliceVars,
         PrefixDone, PrefixPart, PrefixWhole, SuffixPart, SuffixWhole,
         SuffixFirst, MakeIterator, Increment, Decrement, vars
<1>2. ASSUME NEW x, NEW p, NEW j
      PROVE  Element(x, p, j)' = Element(x, p, j)
  BY <1>1 DEF Element
<1>3. CASE MakeIterator
  <2>1. /\ view' = Shown /\ iter' \in {Begin, End}
        /\ len_ \in Nat /\ begin_ \in Nat /\ end_ = begin_ + len_
    BY <1>3, Fits DEF MakeIterator
  <2>2. DOMAIN view' = 0..len_ - 1
    BY <2>1 DEF Shown
  <2>3. end_ - len_ = begin_ /\ begin_ - 0 = begin_
    BY <2>1
  <2>4. /\ iter'.n = len_ /\ iter'.prefix = prefix_ /\ iter'.suffix = suffix_
        /\ iter'.it - iter'.i = begin_
    BY <2>1, <2>3, EndIs DEF Begin
  <2>5. ASSUME NEW j \in 0..len_ - 1
        PROVE  view'[j] = Element(iter', iter'.it - iter'.i + j, j)
    <3>1. view'[j] = Element(Begin, begin_ + j, j)
      BY <2>1, ShownIs
    <3>2. Begin.prefix = prefix_ /\ Begin.suffix = suffix_ /\ Begin.n = len_
      BY DEF Begin
    <3> QED
      BY <2>4, <3>1, <3>2 DEF Element
  <2> QED
    BY <1>1, <2>2, <2>4, <2>5 DEF ViewInv, Element
<1>4. CASE Increment \/ Decrement
  <2>1. PICK d \in {-1, 1} :
          /\ iter' = [iter EXCEPT !.it = @ + d, !.i = @ + d]
          /\ view' = view
    <3>1. CASE Increment
      BY <3>1 DEF Increment, After
    <3>2. CASE Decrement
      <4>1. iter' = [iter EXCEPT !.it = @ - 1, !.i = @ - 1] /\ view' = view
        BY <3>2 DEF Decrement, Before
      <4>2. iter.it - 1 = iter.it + (-1) /\ iter.i - 1 = iter.i + (-1)
        BY IteratorFits
      <4> QED
        BY <4>1, <4>2
    <3> QED
      BY <1>4, <3>1, <3>2
  <2>2. /\ iter \in [it : 0..K, prefix : 0..MaxTotal, suffix : 0..MaxTotal,
                     i : 0..K, n : 0..K]
    BY DEF Shape, TypeOK
  <2>3. /\ iter'.it = iter.it + d /\ iter'.i = iter.i + d /\ iter'.n = iter.n
        /\ iter'.prefix = iter.prefix /\ iter'.suffix = iter.suffix
    BY <2>1, <2>2
  <2>4. iter'.it - iter'.i = iter.it - iter.i
    BY <2>3, IteratorFits
  <2> QED
    BY <1>1, <2>1, <2>3, <2>4 DEF ViewInv, Element
<1>5. CASE UNCHANGED <<iter, view>>
  BY <1>1, <1>5 DEF ViewInv, Element
<1> QED
  BY <1>3, <1>4, <1>5 DEF Next, Call, Loop, vars

(* An iterator carries what it needs (slice.hpp:287-300): whatever slicing *)
(* calls follow, it shows the elements of the slice it was made of.        *)
THEOREM AlwaysIteratorKeepsItsView == Spec => []IteratorKeepsItsView
<1>1. Init => ViewInv
  BY DEF Init, ViewInv
<1>2. Shape /\ ViewInv => IteratorKeepsItsView
  <2> SUFFICES ASSUME Shape, ViewInv PROVE IteratorKeepsItsView
    OBVIOUS
  <2>1. iter.it \in Int /\ iter.i \in Nat /\ iter.n \in Nat
    BY IteratorFits
  <2>2. Cardinality(0..iter.n - 1) = iter.n
    <3>1. PICK m \in Nat : m = iter.n
      BY <2>1
    <3>2. Cardinality(0..m - 1) = m - 0
      BY WindowCounts
    <3> QED
      BY <3>1, <3>2
  <2>3. ASSUME iter.i < iter.n PROVE Deref(iter) = view[iter.i]
    <3>1. iter.i \in 0..iter.n - 1 /\ iter.it - iter.i + iter.i = iter.it
      BY <2>1, <2>3
    <3>2. view[iter.i] = Element(iter, iter.it, iter.i)
      BY <3>1 DEF ViewInv
    <3> QED
      BY <3>2 DEF Element, Deref
  <2> QED
    BY <2>2, <2>3 DEF ViewInv, IteratorKeepsItsView
<1> QED
  BY <1>1, <1>2, AlwaysShape, NextViewInv, PTL DEF Spec

-----------------------------------------------------------------------------
(* A slice is the window that its calls promise.                           *)

(* The window that the slice will show when the running call is done.      *)
First ==
  IF begin_ = end_ THEN 0 ELSE IF pc = "remove_prefix" THEN Lo + n ELSE Lo

Last ==
  IF begin_ = end_ THEN 0 ELSE IF pc = "remove_suffix" THEN Hi - n ELSE Hi

Ends ==
  /\ First \in Nat /\ Last \in Nat /\ First <= Last /\ Last <= MaxTotal
  /\ Window = First..Last - 1

LEMMA ShapeEnds == Shape => Ends
<1> SUFFICES ASSUME Shape PROVE Ends
  OBVIOUS
<1>1. CASE begin_ = end_
  <2>1. First = 0 /\ Last = 0 /\ MaxTotal \in Nat
    BY <1>1, Fits DEF First, Last
  <2>2. Window = {}
    <3>1. Interval(cut[begin_] + n, 0) = {}
      BY <2>1 DEF Interval
    <3>2. pc # "remove_suffix" /\ Content = {}
      BY <1>1, ContentIs DEF Shape, Consistent
    <3> QED
      BY <1>1, <3>1, <3>2 DEF Window
  <2> QED
    BY <2>1, <2>2 DEF Ends
<1>2. CASE begin_ # end_
  <2>1. /\ Lo \in Nat /\ Hi \in Nat /\ Hi <= MaxTotal /\ MaxTotal \in Nat
        /\ Lo + size_ = Hi /\ n \in Nat /\ n <= size_ /\ size_ \in Nat
    BY <1>2, Fits, WindowIs
  <2>2. CASE pc = "remove_prefix"
    <3>1. First = Lo + n /\ Last = Hi
      BY <1>2, <2>2 DEF First, Last
    <3>2. cut[begin_] \in Nat /\ Lo = cut[begin_]
      <4>1. prefix_ = 0 /\ begin_ \in 0..K
        BY <1>2, <2>2, WindowIs DEF Shape, Consistent
      <4> QED
        BY <4>1, Fits DEF Lo
    <3>3. Window = Interval(Lo + n, Hi)
      BY <1>2, <2>2, <3>2 DEF Window, Hi
    <3>4. Lo + n \in Nat /\ Lo + n <= Hi
      BY <2>1
    <3> QED
      BY <2>1, <3>1, <3>3, <3>4, IntervalIs DEF Ends
  <2>3. CASE pc = "remove_suffix"
    <3>1. First = Lo /\ Last = Hi - n
      BY <1>2, <2>3 DEF First, Last
    <3>2. cut[end_] \in Nat /\ Hi = cut[end_]
      <4>1. suffix_ = 0 /\ end_ \in 0..K
        BY <1>2, <2>3, WindowIs DEF Shape, Consistent
      <4> QED
        BY <4>1, Fits DEF Hi
    <3>3. Window = Interval(Lo, Hi - n)
      BY <2>3, <3>2 DEF Window, Lo
    <3>4. Hi - n \in Nat /\ Lo <= Hi - n /\ Hi - n <= MaxTotal
      BY <2>1
    <3> QED
      BY <2>1, <3>1, <3>3, <3>4, IntervalIs DEF Ends
  <2>4. CASE pc # "remove_prefix" /\ pc # "remove_suffix"
    <3>1. First = Lo /\ Last = Hi /\ Window = Lo..Hi - 1
      BY <1>2, <2>4, ContentIs DEF First, Last, Window
    <3> QED
      BY <2>1, <3>1 DEF Ends
  <2> QED
    BY <2>2, <2>3, <2>4
<1> QED
  BY <1>1, <1>2

(* Between calls, it has size_ bytes if there are buffers.                  *)
LEMMA EndsSize ==
  ASSUME Shape, pc = "idle"
  PROVE  /\ Last - First = IF begin_ = end_ THEN 0 ELSE size_
         /\ ContentSize = Last - First
<1>1. CASE begin_ = end_
  BY <1>1, SizeIs DEF First, Last
<1>2. CASE begin_ # end_
  <2>1. Lo \in Nat /\ Hi \in Nat /\ Lo + size_ = Hi /\ size_ \in Nat
    BY <1>2, Fits, WindowIs
  <2>2. First = Lo /\ Last = Hi /\ ContentSize = size_
    BY <1>2, SizeIs DEF First, Last
  <2> QED
    BY <1>2, <2>1, <2>2
<1> QED
  BY <1>1, <1>2

LEMMA NextEnds == Shape' => Ends'
BY ShapeEnds, PTL

(* ByteWindow counts as this module does.                                  *)
LEMMA SameCardinality ==
  ASSUME NEW S
  PROVE  Abstract!Cardinality(S) = Cardinality(S)
BY Zenon DEF Abstract!Cardinality, Cardinality

(* What ByteWindow's operations do to a window from l to before u.         *)
LEMMA WindowMoves ==
  ASSUME NEW l \in Nat, NEW u \in Nat, l <= u, Window = l..u - 1, NEW k \in Nat
  PROVE  /\ Window' = l + Least(k, u - l)..u - 1 => Abstract!RemovePrefix(k)
         /\ Window' = l..(l + Least(k, u - l)) - 1 => Abstract!KeepPrefix(k)
         /\ Window' = l..(u - Least(k, u - l)) - 1 => Abstract!RemoveSuffix(k)
         /\ Window' = u - Least(k, u - l)..u - 1 => Abstract!KeepSuffix(k)
<1>1. /\ Abstract!RemovePrefix(k) <=> Window' = DropFront(Window, k)
      /\ Abstract!KeepPrefix(k) <=> Window' = KeepFront(Window, k)
      /\ Abstract!RemoveSuffix(k) <=> Window' = DropBack(Window, k)
      /\ Abstract!KeepSuffix(k) <=> Window' = KeepBack(Window, k)
  BY SameCardinality
  DEF Abstract!RemovePrefix, Abstract!KeepPrefix,
      Abstract!RemoveSuffix, Abstract!KeepSuffix,
      Abstract!Before, Abstract!After,
      DropFront, KeepFront, DropBack, KeepBack
<1>2. /\ DropFront(Window, k) = l + Least(k, u - l)..u - 1
      /\ KeepFront(Window, k) = l..(l + Least(k, u - l)) - 1
      /\ DropBack(Window, k) = l..(u - Least(k, u - l)) - 1
      /\ KeepBack(Window, k) = u - Least(k, u - l)..u - 1
  BY EndsMove
<1> QED
  BY <1>1, <1>2, Zenon

(* The loops: what is left to do when a call has set them up.              *)
LEMMA RemovePrefixMoves ==
  ASSUME Shape, pc = "idle", NEW k \in Nat, RemovePrefixImpl(k)
  PROVE  First' = First + Least(k, Last - First) /\ Last' = Last
<1>1. /\ n' = Least(k, size_) + prefix_ /\ prefix_' = 0 /\ pc' = "remove_prefix"
      /\ cut' = cut /\ begin_' = begin_ /\ end_' = end_ /\ suffix_' = suffix_
  BY DEF RemovePrefixImpl
<1>2. CASE begin_ = end_
  BY <1>1, <1>2 DEF First, Last, Least
<1>3. CASE begin_ # end_
  <2>1. First = Lo /\ Last = Hi
    BY <1>3 DEF First, Last
  <2>2. /\ First' = cut[begin_] + 0 + (Least(k, size_) + prefix_)
        /\ Last' = Hi
    BY <1>1, <1>3 DEF First, Last, Lo, Hi
  <2>3. /\ Lo \in Nat /\ Hi \in Nat /\ size_ = Hi - Lo /\ size_ \in Nat
        /\ prefix_ \in Nat /\ cut[begin_] \in Nat /\ Least(k, size_) \in Nat
    <3>1. /\ Lo \in Nat /\ Hi \in Nat /\ Lo + size_ = Hi /\ size_ \in Nat
          /\ prefix_ \in Nat /\ cut[begin_] \in Nat
      BY <1>3, Fits, WindowIs
    <3> QED
      BY <3>1, LeastOf
  <2>4. cut[begin_] + 0 + (Least(k, size_) + prefix_) = Lo + Least(k, size_)
    BY <2>3 DEF Lo
  <2> QED
    BY <2>1, <2>2, <2>3, <2>4
<1> QED
  BY <1>2, <1>3

LEMMA KeepPrefixMoves ==
  ASSUME Shape, Shape', pc = "idle", NEW k \in Nat, KeepPrefixImpl(k)
  PROVE  Window' = First..(First + Least(k, Last - First)) - 1
<1>1. /\ First \in Nat /\ Last \in Nat /\ First <= Last
      /\ Window = First..Last - 1 /\ Window' = First'..Last' - 1
      /\ Last - First = IF begin_ = end_ THEN 0 ELSE size_
      /\ size_ \in Nat
  BY Fits, ShapeEnds, NextEnds, EndsSize DEF Ends
<1>2. CASE k >= size_ /\ UNCHANGED sliceVars
  <2>1. First' = First /\ Last' = Last
    BY <1>2 DEF sliceVars, First, Last, Lo, Hi
  <2>2. Least(k, Last - First) = Last - First
    BY <1>1, <1>2 DEF Least
  <2> QED
    BY <1>1, <2>1, <2>2
<1>3. CASE k = 0 /\ KeepNothing
  <2>1. First' = 0 /\ Last' = 0
    BY <1>3 DEF KeepNothing, First, Last
  <2>2. Least(k, Last - First) = 0
    BY <1>1, <1>3 DEF Least
  <2> QED
    BY <1>1, <2>1, <2>2
<1>4. CASE k < size_ /\ RemoveSuffixImpl(size_ - k)
  <2>1. /\ begin_ # end_ /\ n' = Least(size_ - k, size_) + suffix_
        /\ suffix_' = 0 /\ pc' = "remove_suffix"
        /\ cut' = cut /\ begin_' = begin_ /\ end_' = end_ /\ prefix_' = prefix_
    BY <1>4 DEF RemoveSuffixImpl
  <2>2. First = Lo /\ Last = Hi
    BY <2>1 DEF First, Last
  <2>3. /\ First' = Lo
        /\ Last' = cut[end_] - 0 - (Least(size_ - k, size_) + suffix_)
    BY <2>1 DEF First, Last, Lo, Hi
  <2>4. /\ Lo \in Nat /\ Hi \in Nat /\ size_ = Hi - Lo /\ size_ \in Nat
        /\ suffix_ \in Nat /\ cut[end_] \in Nat
    BY <2>1, Fits, WindowIs
  <2>5. Least(size_ - k, size_) = size_ - k /\ Least(k, size_) = k
    BY <1>4, <2>4 DEF Least
  <2>6. cut[end_] - 0 - ((size_ - k) + suffix_) = Lo + k
    BY <2>4 DEF Hi
  <2> QED
    BY <1>1, <2>2, <2>3, <2>4, <2>5, <2>6
<1>5. CASE RemoveSuffixAsserts
  <2>1. begin_ = end_ /\ begin_' = end_'
    BY <1>5 DEF RemoveSuffixAsserts
  <2>2. First = 0 /\ Last = 0 /\ First' = 0 /\ Last' = 0
    BY <2>1 DEF First, Last
  <2> QED
    BY <1>1, <2>2 DEF Least
<1> QED
  BY <1>2, <1>3, <1>4, <1>5 DEF KeepPrefixImpl

(* Each call moves the end that it names.                                  *)
LEMMA CallMoves ==
  ASSUME Shape, pc = "idle", UNCHANGED iter, NEW k \in 0..SizeMax
  PROVE  /\ RemovePrefix(k) => Abstract!RemovePrefix(k)
         /\ KeepPrefix(k) => Abstract!KeepPrefix(k)
         /\ RemoveSuffix(k) => Abstract!RemoveSuffix(k)
         /\ KeepSuffix(k) => Abstract!KeepSuffix(k)
<1>1. /\ First \in Nat /\ Last \in Nat /\ First <= Last
      /\ Window = First..Last - 1 /\ k \in Nat
  BY ShapeEnds, SliceAssumption DEF Ends
<1>2. ContentSize = Last - First
  BY EndsSize
<1>3. ASSUME NEW j \in Nat, RemovePrefixImpl(j)
      PROVE  Window' = First + Least(j, Last - First)..Last - 1
  <2>1. Window' = First'..Last' - 1
    BY <1>3, RemovePrefixShape, NextEnds DEF Ends
  <2> QED
    BY <1>3, <2>1, RemovePrefixMoves
<1>4. ASSUME NEW j \in Nat, KeepPrefixImpl(j)
      PROVE  Window' = First..(First + Least(j, Last - First)) - 1
  BY <1>4, KeepPrefixShape, KeepPrefixMoves
<1> DEFINE l == First
           u == Last
           size == u - l
<1>5. /\ l \in Nat /\ u \in Nat /\ l <= u /\ Window = l..u - 1
      /\ size \in Nat /\ size = u - l /\ ContentSize = size
  BY <1>1, <1>2
<1>6. /\ \A j \in Nat : RemovePrefixImpl(j) => Window' = l + Least(j, size)..u - 1
      /\ \A j \in Nat : KeepPrefixImpl(j) => Window' = l..(l + Least(j, size)) - 1
  BY <1>3, <1>4
<1> HIDE DEF l, u, size
<1>7. ASSUME RemovePrefix(k) PROVE Abstract!RemovePrefix(k)
  BY <1>1, <1>5, <1>6, <1>7, WindowMoves DEF RemovePrefix
<1>8. ASSUME KeepPrefix(k) PROVE Abstract!KeepPrefix(k)
  BY <1>1, <1>5, <1>6, <1>8, WindowMoves DEF KeepPrefix
<1>9. ASSUME KeepSuffix(k) PROVE Abstract!KeepSuffix(k)
  <2>1. k < size /\ RemovePrefixImpl(size - k)
    BY <1>5, <1>9 DEF KeepSuffix
  <2>2. /\ size - k \in Nat /\ Least(size - k, size) = size - k
        /\ l + (size - k) = u - k /\ Least(k, size) = k
    BY <1>1, <1>5, <2>1 DEF Least
  <2>3. Window' = u - Least(k, size)..u - 1
    BY <1>6, <2>1, <2>2
  <2> QED
    BY <1>1, <1>5, <2>3, WindowMoves
<1>10. ASSUME RemoveSuffix(k) PROVE Abstract!RemoveSuffix(k)
  <2>1. KeepPrefixImpl(size - Least(k, size))
    BY <1>5, <1>10 DEF RemoveSuffix
  <2> DEFINE m == Least(k, size)
  <2>2. m \in Nat /\ m <= size
    BY <1>1, <1>5, LeastOf
  <2>3. KeepPrefixImpl(size - m)
    BY <2>1
  <2> HIDE DEF m
  <2> DEFINE j == size - m
  <2>4. j \in Nat /\ Least(j, size) = j /\ l + j = u - m
    BY <1>1, <1>5, <2>2 DEF Least
  <2>5. KeepPrefixImpl(j)
    BY <2>3
  <2> HIDE DEF j
  <2>6. Window' = l..u - Least(k, size) - 1
    <3>1. Window' = l..(l + Least(j, size)) - 1
      BY <1>6, <2>4, <2>5
    <3>2. (l + Least(j, size)) - 1 = (u - Least(k, size)) - 1
      BY <1>5, <2>2, <2>4 DEF m
    <3> QED
      BY <3>1, <3>2, Zenon
  <2> QED
    BY <1>1, <1>5, <2>6, WindowMoves
<1> QED
  BY <1>7, <1>8, <1>9, <1>10

(* A turn of a loop leaves the window as it is.                            *)
LEMMA PrefixMoves ==
  ASSUME Shape, Shape', PrefixDone \/ PrefixPart \/ PrefixWhole
  PROVE  Window' = Window
<1>1. /\ pc = "remove_prefix" /\ prefix_ = 0
      /\ K' = K /\ cut' = cut /\ end_' = end_ /\ suffix_' = suffix_
  BY DEF PrefixDone, PrefixPart, PrefixWhole, Shape, Consistent
<1>2. Window = First..Last - 1 /\ Window' = First'..Last' - 1
  BY ShapeEnds, NextEnds DEF Ends
<1>3. CASE begin_ = end_
  <2>1. PrefixDone
    BY <1>3 DEF PrefixPart, PrefixWhole
  <2>2. First' = First /\ Last' = Last
    BY <1>3, <2>1 DEF PrefixDone, First, Last
  <2> QED
    BY <1>2, <2>2
<1>4. CASE begin_ # end_
  <2>1. /\ cut[begin_] \in Nat /\ cut[begin_ + 1] \in Nat /\ n \in Nat
        /\ Lo = cut[begin_] + 0 /\ Hi \in Nat
    BY <1>1, <1>4, Fits, WindowIs DEF Lo
  <2>2. First = cut[begin_] + n /\ Last = Hi
    BY <1>1, <1>4, <2>1 DEF First, Last
  <2>3. CASE PrefixDone
    <3>1. /\ n = 0 /\ begin_' = begin_ /\ prefix_' = prefix_ /\ pc' = "idle"
      BY <1>4, <2>3 DEF PrefixDone
    <3>2. First' = Lo /\ Last' = Hi
      BY <1>1, <1>4, <3>1 DEF First, Last, Lo, Hi
    <3> QED
      BY <1>2, <2>1, <2>2, <3>1, <3>2
  <2>4. CASE PrefixPart
    <3>1. /\ begin_' = begin_ /\ prefix_' = n /\ pc' = "idle"
      BY <1>4, <2>4 DEF PrefixPart
    <3>2. First' = cut[begin_] + n /\ Last' = Hi
      BY <1>1, <1>4, <3>1 DEF First, Last, Lo, Hi
    <3> QED
      BY <1>2, <2>2, <3>2
  <2>5. CASE PrefixWhole
    <3>1. /\ n >= BufSize(cut, begin_) /\ begin_' = begin_ + 1
          /\ n' = n - BufSize(cut, begin_) /\ prefix_' = 0 /\ pc' = pc
      BY <1>1, <2>5 DEF PrefixWhole
    <3>2. CASE begin_ + 1 = end_
      <4>1. First' = 0 /\ Last' = 0
        BY <1>1, <3>1, <3>2 DEF First, Last
      <4>2. Hi <= cut[begin_] + n
        <5>1. /\ suffix_ \in Nat /\ cut[end_] \in Nat /\ end_ - 1 = begin_
              /\ n >= cut[end_] - cut[begin_]
          BY <1>4, <3>1, <3>2, Fits, WindowIs DEF BufSize
        <5> QED
          BY <2>1, <5>1 DEF Hi
      <4> QED
        BY <1>2, <2>1, <2>2, <4>1, <4>2
    <3>3. CASE begin_ + 1 # end_
      <4>1. /\ First' = cut[begin_ + 1] + 0 + (n - BufSize(cut, begin_))
            /\ Last' = Hi
        BY <1>1, <3>1, <3>3 DEF First, Last, Lo, Hi
      <4>2. cut[begin_ + 1] + 0 + (n - BufSize(cut, begin_)) = cut[begin_] + n
        BY <2>1 DEF BufSize
      <4> QED
        BY <1>2, <2>2, <4>1, <4>2
    <3> QED
      BY <3>2, <3>3
  <2> QED
    BY <2>3, <2>4, <2>5
<1> QED
  BY <1>3, <1>4

LEMMA SuffixMoves ==
  ASSUME Shape, Shape', SuffixPart \/ SuffixWhole \/ SuffixFirst
  PROVE  Window' = Window
<1>1. /\ pc = "remove_suffix" /\ suffix_ = 0 /\ begin_ # end_
      /\ K' = K /\ cut' = cut /\ begin_' = begin_ /\ prefix_' = prefix_
  BY DEF SuffixPart, SuffixWhole, SuffixFirst, Shape, Consistent
<1>2. Window = First..Last - 1 /\ Window' = First'..Last' - 1
  BY ShapeEnds, NextEnds DEF Ends
<1>3. /\ cut[end_] \in Nat /\ cut[end_ - 1] \in Nat /\ n \in Nat
      /\ end_ \in Nat /\ Hi = cut[end_] - 0 /\ Lo \in Nat /\ end_ - 1 + 1 = end_
  BY <1>1, Fits, WindowIs DEF Hi
<1>4. First = Lo /\ Last = cut[end_] - n
  BY <1>1, <1>3 DEF First, Last
<1>5. BufSize(cut, end_ - 1) = cut[end_] - cut[end_ - 1]
  BY <1>3 DEF BufSize
<1>6. ASSUME suffix_' = n, end_' = end_, pc' = "idle"
      PROVE  Window' = Window
  <2>1. First' = Lo /\ Last' = cut[end_] - n
    BY <1>1, <1>6 DEF First, Last, Lo, Hi
  <2> QED
    BY <1>2, <1>4, <2>1
<1>7. CASE SuffixPart
  BY <1>6, <1>7 DEF SuffixPart
<1>8. CASE SuffixWhole
  <2>1. /\ end_ - 1 # begin_ /\ end_' = end_ - 1
        /\ n' = n - BufSize(cut, end_ - 1) /\ suffix_' = 0 /\ pc' = pc
    BY <1>1, <1>8 DEF SuffixWhole
  <2>2. /\ First' = Lo
        /\ Last' = cut[end_ - 1] - 0 - (n - BufSize(cut, end_ - 1))
    BY <1>1, <2>1 DEF First, Last, Lo, Hi
  <2>3. cut[end_ - 1] - 0 - (n - BufSize(cut, end_ - 1)) = cut[end_] - n
    BY <1>3, <1>5
  <2> QED
    BY <1>2, <1>4, <2>2, <2>3
<1>9. CASE SuffixFirst
  <2>1. end_ - 1 = begin_ /\ pc' = "idle"
    BY <1>9 DEF SuffixFirst
  <2>2. CASE n + prefix_ < BufSize(cut, begin_)
    BY <1>6, <1>9, <2>1, <2>2 DEF SuffixFirst
  <2>3. CASE ~(n + prefix_ < BufSize(cut, begin_))
    <3>1. end_' = begin_'
      BY <1>1, <1>9, <2>3 DEF SuffixFirst
    <3>2. First' = 0 /\ Last' = 0
      BY <3>1 DEF First, Last
    <3>3. cut[end_] - n <= Lo
      <4>1. /\ n + prefix_ >= cut[end_] - cut[begin_]
            /\ cut[begin_] \in Nat /\ prefix_ \in Nat
        <5>1. BufSize(cut, begin_) = cut[end_] - cut[begin_]
          BY <1>5, <2>1
        <5>2. cut[begin_] \in Nat /\ prefix_ \in Nat
          BY <1>1, Fits, WindowIs
        <5> QED
          BY <1>3, <2>3, <5>1, <5>2
      <4> QED
        BY <1>3, <4>1 DEF Lo
    <3> QED
      BY <1>2, <1>3, <1>4, <3>2, <3>3
  <2> QED
    BY <2>2, <2>3
<1> QED
  BY <1>7, <1>8, <1>9

(* A slice shows the bytes it promises (slice.hpp:151-245, :353-366): each *)
(* call is the operation on the window that its name says, with its        *)
(* argument (:435-502), and the turns of its loop change nothing of what   *)
(* the slice is going to show.  This is for every sequence of buffers.     *)
THEOREM SliceIsByteWindow == Spec => ImplementsByteWindow
<1>1. Shape /\ [Next]_vars => [Abstract!Next]_Window
  <2> SUFFICES ASSUME Shape, [Next]_vars PROVE Abstract!Next \/ Window' = Window
    OBVIOUS
  <2>1. Shape'
    BY NextShape
  <2>2. CASE Call
    <3>1. pc = "idle" /\ UNCHANGED iter
      BY <2>2 DEF Call
    <3>2. PICK k \in 0..SizeMax :
            \/ RemovePrefix(k) \/ SansPrefix(k)
            \/ KeepPrefix(k)   \/ Prefix(k)
            \/ KeepSuffix(k)   \/ Suffix(k)
            \/ RemoveSuffix(k) \/ SansSuffix(k)
      BY <2>2 DEF Call
    <3>3. RemovePrefix(k) \/ KeepPrefix(k) \/ KeepSuffix(k) \/ RemoveSuffix(k)
      BY <3>2 DEF SansPrefix, Prefix, Suffix, SansSuffix
    <3>4. \/ Abstract!RemovePrefix(k) \/ Abstract!KeepPrefix(k)
          \/ Abstract!RemoveSuffix(k) \/ Abstract!KeepSuffix(k)
      BY <3>1, <3>3, CallMoves
    <3> QED
      BY <3>4 DEF Abstract!Next
  <2>3. CASE Loop
    BY <2>1, <2>3, PrefixMoves, SuffixMoves DEF Loop
  <2>4. CASE UNCHANGED sliceVars
    <3>1. First' = First /\ Last' = Last
      BY <2>4 DEF sliceVars, First, Last, Lo, Hi
    <3> QED
      BY <2>1, <3>1, ShapeEnds, NextEnds DEF Ends
  <2>5. MakeIterator \/ Increment \/ Decrement \/ UNCHANGED vars
          => UNCHANGED sliceVars
    BY DEF MakeIterator, Increment, Decrement, vars, sliceVars
  <2> QED
    BY <2>2, <2>3, <2>4, <2>5 DEF Next
<1>2. Shape => EachCall
  BY CallMoves DEF EachCall
<1>3. Spec => [][Abstract!Next]_Window
  BY <1>1, AlwaysShape, PTL DEF Spec
<1>4. Spec => [][EachCall]_vars
  BY <1>2, AlwaysShape, PTL
<1> QED
  BY <1>3, <1>4, PTL DEF ImplementsByteWindow, Abstract!Spec

-----------------------------------------------------------------------------
(* Buffer pairs.                                                           *)

(* Where both buffers of the pair b have bytes, the second begins where    *)
(* the first ends.                                                         *)
Adjacent(b) ==
  /\ b \in [1..2 -> [pos : 0..2 * MaxLen, n : 0..MaxLen]]
  /\ b[1].pos + b[1].n <= 2 * MaxLen
  /\ b[2].pos + b[2].n <= 2 * MaxLen
  /\ b[2].n > 0 => b[2].pos = b[1].pos + b[1].n

BytesOfPair(b) == BytesOf(b[1]) \cup BytesOf(b[2])

LEMMA AdjacentIs ==
  ASSUME NEW b, Adjacent(b)
  PROVE  /\ b[1].pos \in Nat /\ b[1].n \in Nat /\ b[1].n <= MaxLen
         /\ b[2].pos \in Nat /\ b[2].n \in Nat /\ b[2].n <= MaxLen
         /\ MaxLen \in Nat /\ b[1].pos + b[1].n <= 2 * MaxLen
         /\ b[2].pos + b[2].n <= 2 * MaxLen
         /\ b[2].n > 0 => b[2].pos = b[1].pos + b[1].n
         /\ BytesOfPair(b) = b[1].pos..(b[1].pos + (b[1].n + b[2].n)) - 1
<1>1. MaxLen \in Nat
  BY PairAssumption
<1>2. /\ b[1] \in [pos : 0..2 * MaxLen, n : 0..MaxLen]
      /\ b[2] \in [pos : 0..2 * MaxLen, n : 0..MaxLen]
  BY DEF Adjacent
<1>3. /\ b[1].pos \in 0..2 * MaxLen /\ b[1].n \in 0..MaxLen
      /\ b[2].pos \in 0..2 * MaxLen /\ b[2].n \in 0..MaxLen
  BY <1>2
<1>4. /\ b[1].pos + b[1].n <= 2 * MaxLen /\ b[2].pos + b[2].n <= 2 * MaxLen
      /\ b[2].n > 0 => b[2].pos = b[1].pos + b[1].n
  BY DEF Adjacent
<1>5. ASSUME NEW p \in Nat, NEW m \in Nat, NEW q \in Nat, NEW r \in Nat,
             r > 0 => q = p + m
      PROVE  (p..p + m - 1) \cup (q..q + r - 1) = p..(p + (m + r)) - 1
  BY <1>5
<1>6. BytesOfPair(b) = (b[1].pos..b[1].pos + b[1].n - 1)
                         \cup (b[2].pos..b[2].pos + b[2].n - 1)
  BY DEF BytesOfPair, BytesOf
<1>7. /\ b[1].pos \in Nat /\ b[1].n \in Nat
      /\ b[2].pos \in Nat /\ b[2].n \in Nat
  BY <1>1, <1>3
<1>8. BytesOfPair(b) = b[1].pos..(b[1].pos + (b[1].n + b[2].n)) - 1
  BY <1>4, <1>5, <1>6, <1>7
<1> QED
  BY <1>1, <1>3, <1>4, <1>7, <1>8

(* The bytes of the pair b are those from l to before u.                   *)
Shows(b, l, u) == Adjacent(b) /\ BytesOfPair(b) = l..u - 1

(* A pair of buffers that are where the arithmetic says.                   *)
LEMMA MadeAdjacent ==
  ASSUME NEW p \in Nat, NEW m \in Nat, NEW q \in Nat, NEW r \in Nat,
         m <= MaxLen, r <= MaxLen, p + m <= 2 * MaxLen, q + r <= 2 * MaxLen,
         r > 0 => q = p + m
  PROVE  Shows(<<Buffer(p, m), Buffer(q, r)>>, p, p + (m + r))
<1> DEFINE b == <<Buffer(p, m), Buffer(q, r)>>
<1>1. /\ b[1].pos = p /\ b[1].n = m /\ b[2].pos = q /\ b[2].n = r
  BY DEF Buffer
<1>2. /\ Buffer(p, m) \in [pos : 0..2 * MaxLen, n : 0..MaxLen]
      /\ Buffer(q, r) \in [pos : 0..2 * MaxLen, n : 0..MaxLen]
  BY PairAssumption DEF Buffer
<1>3. b \in [1..2 -> [pos : 0..2 * MaxLen, n : 0..MaxLen]]
  BY <1>2
<1> HIDE DEF b
<1>4. Adjacent(b)
  BY <1>1, <1>3 DEF Adjacent
<1>5. Shows(b, p, p + (m + r))
  <2>1. BytesOfPair(b) = b[1].pos..(b[1].pos + (b[1].n + b[2].n)) - 1
    BY <1>4, AdjacentIs
  <2> QED
    BY <1>1, <1>4, <2>1 DEF Shows
<1> QED
  BY <1>5 DEF b

LEMMA PairContentIs ==
  /\ PairContent = BytesOfPair(bs)
  /\ PairContent' = BytesOfPair(bs')
BY DEF PairContent, BytesOfPair

(* The arithmetic of the two overloads that slice a pair.                  *)
LEMMA PrefixOfFirst ==
  ASSUME NEW p \in Nat, NEW m \in Nat, NEW q \in Nat, NEW r \in Nat,
         m <= MaxLen, r <= MaxLen, p + m <= 2 * MaxLen, q + r <= 2 * MaxLen,
         r > 0 => q = p + m,
         NEW k \in Nat, k < m
  PROVE  Shows(<<Buffer(p + Least(k, m), m - Least(k, m)), Buffer(q, r)>>,
               p + Least(k, m + r), p + (m + r))
<1>1. MaxLen \in Nat
  BY PairAssumption
<1>2. Least(k, m) = k /\ Least(k, m + r) = k
  BY DEF Least
<1>3. PICK x \in Nat : x = p + k
  OBVIOUS
<1>4. PICK y \in Nat : y = m - k
  OBVIOUS
<1>5. /\ y <= MaxLen /\ x + y <= 2 * MaxLen
      /\ r > 0 => q = x + y
      /\ x + (y + r) = p + (m + r)
  BY <1>1, <1>3, <1>4
<1>6. Shows(<<Buffer(x, y), Buffer(q, r)>>, x, x + (y + r))
  BY <1>5, MadeAdjacent, Zenon
<1> QED
  BY <1>2, <1>3, <1>4, <1>5, <1>6, Zenon

LEMMA PrefixOfSecond ==
  ASSUME NEW p \in Nat, NEW m \in Nat, NEW q \in Nat, NEW r \in Nat,
         m <= MaxLen, r <= MaxLen, p + m <= 2 * MaxLen, q + r <= 2 * MaxLen,
         r > 0 => q = p + m,
         NEW k \in Nat, k >= m
  PROVE  Shows(<<Buffer(q + Least(k - m, r), r - Least(k - m, r)), Buffer(0, 0)>>,
               p + Least(k, m + r), p + (m + r))
<1>1. MaxLen \in Nat
  BY PairAssumption
<1>2. PICK l \in Nat : l = Least(k - m, r)
  BY LeastOf
<1>3. l <= r /\ Least(k, m + r) = m + l
  BY <1>2 DEF Least
<1>4. PICK x \in Nat : x = q + l
  OBVIOUS
<1>5. PICK y \in Nat : y = r - l
  BY <1>3
<1>6. PICK z : z = 0
  OBVIOUS
<1>7. /\ z \in Nat /\ z <= MaxLen /\ z + z <= 2 * MaxLen
      /\ z > 0 => z = x + y
      /\ y <= MaxLen /\ x + y <= 2 * MaxLen
  BY <1>1, <1>3, <1>4, <1>5, <1>6
<1>8. Shows(<<Buffer(x, y), Buffer(z, z)>>, x, x + (y + z))
  BY <1>7, MadeAdjacent, Zenon
<1>9. x..(x + (y + z)) - 1 = p + (m + l)..(p + (m + r)) - 1
  <2>1. CASE r = 0
    <3>1. y = 0 /\ z = 0 /\ l = 0
      BY <1>3, <1>5, <1>6, <2>1
    <3> QED
      BY <1>4, <2>1, <3>1
  <2>2. CASE r > 0
    <3>1. x = p + (m + l) /\ (x + (y + z)) - 1 = (p + (m + r)) - 1
      BY <1>3, <1>4, <1>5, <1>6, <2>2
    <3> QED
      BY <3>1, Zenon
  <2> QED
    BY <2>1, <2>2
<1> QED
  BY <1>2, <1>3, <1>4, <1>5, <1>6, <1>8, <1>9, Zenon DEF Shows

LEMMA KeepOfFirst ==
  ASSUME NEW p \in Nat, NEW m \in Nat, NEW r \in Nat,
         m <= MaxLen, p + m <= 2 * MaxLen,
         NEW k \in Nat, k <= m
  PROVE  Shows(<<Buffer(p, Least(k, m)), Buffer(0, 0)>>,
               p, p + Least(k, m + r))
<1>1. MaxLen \in Nat
  BY PairAssumption
<1>2. Least(k, m) = k /\ Least(k, m + r) = k
  BY DEF Least
<1>3. PICK z : z = 0
  OBVIOUS
<1>4. /\ z \in Nat /\ z <= MaxLen /\ z + z <= 2 * MaxLen
      /\ z > 0 => z = p + k
      /\ k <= MaxLen /\ p + k <= 2 * MaxLen /\ p + (k + z) = p + k
  BY <1>1, <1>3
<1>5. Shows(<<Buffer(p, k), Buffer(z, z)>>, p, p + (k + z))
  BY <1>4, MadeAdjacent, Zenon
<1> QED
  BY <1>2, <1>3, <1>4, <1>5, Zenon

LEMMA KeepOfSecond ==
  ASSUME NEW p \in Nat, NEW m \in Nat, NEW q \in Nat, NEW r \in Nat,
         m <= MaxLen, r <= MaxLen, p + m <= 2 * MaxLen, q + r <= 2 * MaxLen,
         r > 0 => q = p + m,
         NEW k \in Nat, k > m
  PROVE  Shows(<<Buffer(p, m), Buffer(q, Least(k - m, r))>>,
               p, p + Least(k, m + r))
<1>1. MaxLen \in Nat
  BY PairAssumption
<1>2. PICK l \in Nat : l = Least(k - m, r)
  BY LeastOf
<1>3. l <= r /\ Least(k, m + r) = m + l
  BY <1>2 DEF Least
<1>4. /\ l <= MaxLen /\ q + l <= 2 * MaxLen
      /\ l > 0 => q = p + m
  BY <1>1, <1>3
<1>5. Shows(<<Buffer(p, m), Buffer(q, l)>>, p, p + (m + l))
  BY <1>4, MadeAdjacent, Zenon
<1> QED
  BY <1>2, <1>3, <1>5, Zenon

(* The pair, as ByteWindow sees it.                                        *)
LEMMA PairCardinality ==
  ASSUME NEW S
  PROVE  PairAbstract!Cardinality(S) = Cardinality(S)
BY Zenon DEF PairAbstract!Cardinality, Cardinality

LEMMA PairMoves ==
  ASSUME NEW l \in Nat, NEW u \in Nat, l <= u, PairContent = l..u - 1,
         NEW k \in Nat
  PROVE  /\ PairContent' = l + Least(k, u - l)..u - 1 =>
              PairAbstract!RemovePrefix(k)
         /\ PairContent' = l..(l + Least(k, u - l)) - 1 =>
              PairAbstract!KeepPrefix(k)
         /\ PairContent' = l..(u - Least(k, u - l)) - 1 =>
              PairAbstract!RemoveSuffix(k)
         /\ PairContent' = u - Least(k, u - l)..u - 1 =>
              PairAbstract!KeepSuffix(k)
<1>1. /\ PairAbstract!RemovePrefix(k) <=> PairContent' = DropFront(PairContent, k)
      /\ PairAbstract!KeepPrefix(k) <=> PairContent' = KeepFront(PairContent, k)
      /\ PairAbstract!RemoveSuffix(k) <=> PairContent' = DropBack(PairContent, k)
      /\ PairAbstract!KeepSuffix(k) <=> PairContent' = KeepBack(PairContent, k)
  BY PairCardinality
  DEF PairAbstract!RemovePrefix, PairAbstract!KeepPrefix,
      PairAbstract!RemoveSuffix, PairAbstract!KeepSuffix,
      PairAbstract!Before, PairAbstract!After,
      DropFront, KeepFront, DropBack, KeepBack
<1>2. /\ DropFront(PairContent, k) = l + Least(k, u - l)..u - 1
      /\ KeepFront(PairContent, k) = l..(l + Least(k, u - l)) - 1
      /\ DropBack(PairContent, k) = l..(u - Least(k, u - l)) - 1
      /\ KeepBack(PairContent, k) = u - Least(k, u - l)..u - 1
  BY EndsMove
<1> QED
  BY <1>1, <1>2, Zenon

(* What the two overloads that slice a pair leave of it.                   *)
LEMMA PairSlices ==
  ASSUME Adjacent(bs), NEW k \in Nat
  PROVE  LET l == bs[1].pos
             size == PairSize IN
         /\ SliceRemovePrefix(k) =>
              Shows(bs', l + Least(k, size), l + size)
         /\ SliceKeepPrefix(k) =>
              Shows(bs', l, l + Least(k, size))
<1> DEFINE p == bs[1].pos
           m == bs[1].n
           q == bs[2].pos
           r == bs[2].n
<1>1. /\ p \in Nat /\ m \in Nat /\ m <= MaxLen /\ q \in Nat /\ r \in Nat
      /\ r <= MaxLen /\ MaxLen \in Nat /\ p + m <= 2 * MaxLen
      /\ q + r <= 2 * MaxLen
      /\ r > 0 => q = p + m
  BY AdjacentIs
<1>2. /\ bs[1] = Buffer(p, m)
      /\ bs[2] = Buffer(q, r)
  BY DEF Adjacent, Buffer
<1>3. PairSize = m + r
  BY DEF PairSize
<1>4. /\ SliceRemovePrefix(k) =>
           \/ /\ k < m
              /\ bs' = <<Buffer(p + Least(k, m), m - Least(k, m)), bs[2]>>
           \/ /\ k >= m
              /\ bs' = <<Buffer(q + Least(k - m, r), r - Least(k - m, r)),
                         Buffer(0, 0)>>
      /\ SliceKeepPrefix(k) =>
           \/ /\ k <= m
              /\ bs' = <<Buffer(p, Least(k, m)), Buffer(0, 0)>>
           \/ /\ k > m
              /\ bs' = <<bs[1], Buffer(q, Least(k - m, r))>>
  BY Zenon
  DEF SliceRemovePrefix, SliceKeepPrefix, WithoutPrefix,
      KeptPrefix, EmptyBuffer
<1> HIDE DEF p, m, q, r
<1>5. /\ k < m =>
           Shows(<<Buffer(p + Least(k, m), m - Least(k, m)), Buffer(q, r)>>,
                 p + Least(k, m + r), p + (m + r))
      /\ k >= m =>
           Shows(<<Buffer(q + Least(k - m, r), r - Least(k - m, r)),
                   Buffer(0, 0)>>,
                 p + Least(k, m + r), p + (m + r))
      /\ k <= m =>
           Shows(<<Buffer(p, Least(k, m)), Buffer(0, 0)>>,
                 p, p + Least(k, m + r))
      /\ k > m =>
           Shows(<<Buffer(p, m), Buffer(q, Least(k - m, r))>>,
                 p, p + Least(k, m + r))
  BY <1>1, PrefixOfFirst, PrefixOfSecond, KeepOfFirst, KeepOfSecond, Zenon
<1> QED
  BY <1>2, <1>3, <1>4, <1>5, Zenon DEF p

(* The invariant that the pair keeps, and what it shows under it.          *)
LEMMA PairShows ==
  ASSUME Adjacent(bs)
  PROVE  /\ bs[1].pos \in Nat /\ PairSize \in Nat
         /\ Shows(bs, bs[1].pos, bs[1].pos + PairSize)
BY AdjacentIs DEF PairSize, Shows

LEMMA PairCalls ==
  ASSUME Adjacent(bs), NEW k \in 0..PairSizeMax
  PROVE  /\ PairRemovePrefix(k) => Adjacent(bs') /\ PairAbstract!RemovePrefix(k)
         /\ PairKeepPrefix(k) => Adjacent(bs') /\ PairAbstract!KeepPrefix(k)
         /\ PairRemoveSuffix(k) => Adjacent(bs') /\ PairAbstract!RemoveSuffix(k)
         /\ PairKeepSuffix(k) => Adjacent(bs') /\ PairAbstract!KeepSuffix(k)
<1>1. k \in Nat
  BY PairAssumption
<1> DEFINE l == bs[1].pos
           size == PairSize
<1>2. l \in Nat /\ size \in Nat
  BY PairShows
<1>3. PICK u \in Nat : u = l + size
  BY <1>2
<1>4. l <= u /\ u - l = size
  BY <1>2, <1>3
<1>5. PairContent = l..u - 1
  BY <1>3, PairShows, PairContentIs DEF Shows
<1>6. \A j \in Nat :
        /\ SliceRemovePrefix(j) =>
             Adjacent(bs') /\ PairContent' = l + Least(j, size)..u - 1
        /\ SliceKeepPrefix(j) =>
             Adjacent(bs') /\ PairContent' = l..(l + Least(j, size)) - 1
  BY <1>3, PairSlices, PairContentIs, Zenon DEF Shows
<1> HIDE DEF l, size
<1>7. Least(k, size) \in Nat /\ Least(k, size) <= size
  BY <1>1, <1>2, LeastOf
<1>8. ASSUME PairRemovePrefix(k)
      PROVE  Adjacent(bs') /\ PairAbstract!RemovePrefix(k)
  <2>1. Adjacent(bs') /\ PairContent' = l + Least(k, size)..u - 1
    BY <1>1, <1>6, <1>8 DEF PairRemovePrefix
  <2> QED
    BY <1>1, <1>2, <1>4, <1>5, <2>1, PairMoves
<1>9. ASSUME PairKeepPrefix(k)
      PROVE  Adjacent(bs') /\ PairAbstract!KeepPrefix(k)
  <2>1. Adjacent(bs') /\ PairContent' = l..(l + Least(k, size)) - 1
    BY <1>1, <1>6, <1>9 DEF PairKeepPrefix
  <2> QED
    BY <1>1, <1>2, <1>4, <1>5, <2>1, PairMoves
<1>10. ASSUME PairKeepSuffix(k)
       PROVE  Adjacent(bs') /\ PairAbstract!KeepSuffix(k)
  <2> DEFINE j == size - k
  <2>1. k < size /\ SliceRemovePrefix(j)
    BY <1>10 DEF PairKeepSuffix, size
  <2>2. j \in Nat /\ Least(j, size) = j /\ Least(k, size) = k /\ l + j = u - k
    BY <1>1, <1>2, <1>3, <2>1 DEF Least
  <2> HIDE DEF j
  <2>3. Adjacent(bs') /\ PairContent' = u - Least(k, size)..u - 1
    BY <1>6, <2>1, <2>2
  <2> QED
    BY <1>1, <1>2, <1>4, <1>5, <2>3, PairMoves
<1>11. ASSUME PairRemoveSuffix(k)
       PROVE  Adjacent(bs') /\ PairAbstract!RemoveSuffix(k)
  <2> DEFINE j == size - Least(k, size)
  <2>1. SliceKeepPrefix(j)
    BY <1>11 DEF PairRemoveSuffix, size
  <2>2. j \in Nat /\ Least(j, size) = j /\ l + j = u - Least(k, size)
    BY <1>2, <1>3, <1>7 DEF Least
  <2> HIDE DEF j
  <2>3. Adjacent(bs') /\ PairContent' = l..(u - Least(k, size)) - 1
    BY <1>6, <2>1, <2>2
  <2> QED
    BY <1>1, <1>2, <1>4, <1>5, <2>3, PairMoves
<1> QED
  BY <1>8, <1>9, <1>10, <1>11

LEMMA PairInitAdjacent == PairInit => Adjacent(bs)
<1> SUFFICES ASSUME PairInit PROVE Adjacent(bs)
  OBVIOUS
<1>1. MaxLen \in Nat
  BY PairAssumption
<1>2. PICK a \in 0..MaxLen, b \in 0..MaxLen :
        bs = <<Buffer(0, a), Buffer(a, b)>>
  BY DEF PairInit
<1>3. PICK z : z = 0
  OBVIOUS
<1>4. /\ z \in Nat /\ a \in Nat /\ b \in Nat /\ a <= MaxLen /\ b <= MaxLen
      /\ z + a <= 2 * MaxLen /\ a + b <= 2 * MaxLen
      /\ b > 0 => a = z + a
  BY <1>1, <1>3
<1>5. Shows(<<Buffer(z, a), Buffer(a, b)>>, z, z + (a + b))
  BY <1>4, MadeAdjacent, Zenon
<1> QED
  BY <1>2, <1>3, <1>5 DEF Shows

LEMMA PairNextAdjacent ==
  Adjacent(bs) /\ [PairNext]_bs => Adjacent(bs')
<1> SUFFICES ASSUME Adjacent(bs), [PairNext]_bs
             PROVE  Adjacent(bs')
  OBVIOUS
<1>1. CASE UNCHANGED bs
  BY <1>1
<1>2. CASE PairNext
  BY <1>2, PairCalls DEF PairNext
<1> QED
  BY <1>1, <1>2

LEMMA PairAlwaysAdjacent == PairSpec => []Adjacent(bs)
<1>1. PairInit => Adjacent(bs)
  BY PairInitAdjacent
<1>2. Adjacent(bs) /\ [PairNext]_bs => Adjacent(bs)'
  <2> SUFFICES ASSUME Adjacent(bs), [PairNext]_bs PROVE Adjacent(bs)'
    OBVIOUS
  <2>1. Adjacent(bs')
    BY PairNextAdjacent
  <2> QED
    BY <2>1 DEF Adjacent
<1> QED
  BY <1>1, <1>2, PTL DEF PairSpec

(* size(bs) counts each byte of a pair once: no byte is shown by both      *)
(* buffers (buffer_pair.cpp:34-35), for buffers of any length.             *)
THEOREM PairAlwaysTypeOK == PairSpec => []PairTypeOK
<1>1. Adjacent(bs) => PairTypeOK
  <2> SUFFICES ASSUME Adjacent(bs) PROVE PairTypeOK
    OBVIOUS
  <2> DEFINE l == bs[1].pos
             size == PairSize
  <2>1. l \in Nat /\ size \in Nat
    BY PairShows
  <2>2. PairContent = l..(l + size) - 1
    BY PairShows, PairContentIs DEF Shows
  <2>3. PICK u \in Nat : u = l + size
    BY <2>1
  <2> HIDE DEF l, size
  <2>4. Cardinality(l..u - 1) = u - l /\ u - l = size
    <3>1. l <= u /\ u - l = size
      BY <2>1, <2>3
    <3>2. Cardinality(l..u - 1) = u - l
      BY <2>1, <3>1, WindowCounts
    <3> QED
      BY <3>1, <3>2
  <2>5. Cardinality(PairContent) = size
    BY <2>2, <2>3, <2>4
  <2> QED
    BY <2>5 DEF PairTypeOK, Adjacent, size
<1> QED
  BY <1>1, PairAlwaysAdjacent, PTL

(* A pair is the window it promises (buffer_pair.cpp:16-96,                *)
(* slice.hpp:435-502): each of the four operations drops the bytes that    *)
(* its name and argument say, wherever the boundary between the two        *)
(* buffers lies, and however long they are.                                *)
THEOREM PairIsByteWindow == PairSpec => PairImplementsByteWindow
<1>1. Adjacent(bs) /\ [PairNext]_bs => [PairAbstract!Next]_(PairContent)
  <2> SUFFICES ASSUME Adjacent(bs), [PairNext]_bs
               PROVE  PairAbstract!Next \/ PairContent' = PairContent
    OBVIOUS
  <2>1. CASE UNCHANGED bs
    BY <2>1, PairContentIs
  <2>2. CASE PairNext
    BY <2>2, PairCalls DEF PairNext, PairAbstract!Next
  <2> QED
    BY <2>1, <2>2
<1>2. Adjacent(bs) => PairEachCall
  BY PairCalls DEF PairEachCall
<1>3. PairSpec => [][PairAbstract!Next]_(PairContent)
  BY <1>1, PairAlwaysAdjacent, PTL DEF PairSpec
<1>4. PairSpec => [][PairEachCall]_bs
  BY <1>2, PairAlwaysAdjacent, PTL
<1> QED
  BY <1>3, <1>4, PTL DEF PairImplementsByteWindow, PairAbstract!Spec
=============================================================================
