------------------------ MODULE CircularBufferProofs ------------------------
(***************************************************************************)
(* What CircularBuffer promises about memory, for every capacity and every *)
(* order of calls.                                                         *)
(*                                                                         *)
(* The inductive invariant is Inv of CircularBuffer.  The only arithmetic  *)
(* is the reduction of a position modulo cap_; positions stay below twice  *)
(* the capacity, so the first two lemmas say all that is needed of it.     *)
(*                                                                         *)
(* Then the refinement of DynamicBuffer, on the ring's bytes counted from  *)
(* in_pos_; and what holds of a ring in the hands of others: the wrapper,  *)
(* whose copies follow the ring's two sequences (ArraysInv), and a second  *)
(* ring on the same storage, which lags behind the first one (CopyInv).    *)
(***************************************************************************)
EXTENDS AnyCircularBuffer, SequenceLemmas

LEMMA ModBelow ==
  ASSUME NEW c \in Nat, NEW x \in Nat, x < c
  PROVE  x % c = x
BY SMT

LEMMA ModWrapped ==
  ASSUME NEW c \in Nat, NEW x \in Nat, c <= x, x < 2 * c
  PROVE  x % c = x - c
BY SMT

LEMMA ModIdle ==
  ASSUME NEW c \in Nat, NEW x \in Nat, x < c
  PROVE  (x + 0) % c = x
BY ModBelow

(* The end of l bytes that start at p.                                     *)
LEMMA ModOnce ==
  ASSUME NEW c \in Nat, NEW p \in Nat, p < c, NEW l \in Nat, l <= c
  PROVE  (p + l) % c = IF p + l < c THEN p + l ELSE p + l - c
<1>1. CASE p + l < c
  BY <1>1, ModBelow
<1>2. CASE c <= p + l
  <2> DEFINE x == p + l
  <2>1. x \in Nat /\ c <= x /\ x < 2 * c /\ x = p + l
    BY <1>2
  <2> HIDE DEF x
  <2>2. x % c = x - c
    BY <2>1, ModWrapped
  <2> QED
    BY <1>2, <2>1, <2>2
<1> QED
  BY <1>1, <1>2

(* A position in the ring, moved on in two steps or in one.                *)
LEMMA ModTwoSteps ==
  ASSUME NEW c \in Nat \ {0}, NEW p \in Nat, p < c,
         NEW l \in Nat, l <= c, NEW k \in Nat, k <= l
  PROVE  /\ (p + k) % c \in Nat
         /\ (p + k) % c < c
         /\ (((p + k) % c) + (l - k)) % c = (p + l) % c
<1> DEFINE q == (p + k) % c
<1>1. q = IF p + k < c THEN p + k ELSE p + k - c
  <2>1. k <= c
    OBVIOUS
  <2> QED
    BY <2>1, ModOnce, Zenon
<1>2. (p + l) % c = IF p + l < c THEN p + l ELSE p + l - c
  BY ModOnce
<1>3. q \in Nat /\ q < c /\ l - k \in Nat /\ l - k <= c
  BY <1>1
<1> HIDE DEF q
<1>4. (q + (l - k)) % c = IF q + (l - k) < c THEN q + (l - k) ELSE q + (l - k) - c
  BY <1>3, ModOnce
<1>5. (q + (l - k)) % c = (p + l) % c
  BY <1>1, <1>2, <1>3, <1>4
<1> QED
  BY <1>3, <1>5 DEF q

-----------------------------------------------------------------------------
(* A pair cut out of the ring has the requested size and lies inside the   *)
(* storage.                                                                *)
LEMMA RingPairFits ==
  ASSUME cap_ \in Nat,
         NEW p \in Nat, p < cap_ \/ p = 0,
         NEW k \in Nat, k <= cap_
  PROVE  /\ RingPair(p, k) \in [1..2 -> [pos : 0..cap_, len : 0..cap_]]
         /\ InStorage(RingPair(p, k))
         /\ PairSize(RingPair(p, k)) = k
<1>1. CASE p + k <= cap_
  BY <1>1 DEF RingPair, InStorage, PairSize, Region
<1>2. CASE p + k > cap_
  BY <1>2 DEF RingPair, InStorage, PairSize, Region
<1> QED
  BY <1>1, <1>2

LEMMA EmptyPairFits ==
  ASSUME cap_ \in Nat
  PROVE  /\ EmptyPair \in [1..2 -> [pos : 0..cap_, len : 0..cap_]]
         /\ InStorage(EmptyPair)
         /\ PairSize(EmptyPair) = 0
BY DEF EmptyPair, InStorage, PairSize, Region

(* Where the i-th byte of a pair cut out of the ring is.                   *)
LEMMA RingPairAt ==
  ASSUME cap_ \in Nat,
         NEW p \in Nat, p < cap_ \/ p = 0,
         NEW k \in Nat, k <= cap_,
         NEW i \in 1..k
  PROVE  PairAt(RingPair(p, k), i) =
           IF p + i - 1 < cap_ THEN p + i - 1 ELSE p + i - 1 - cap_
BY DEF RingPair, PairAt, Region

-----------------------------------------------------------------------------
LEMMA InitInv == Init => Inv
<1> SUFFICES ASSUME Init PROVE Inv
  OBVIOUS
<1>1. cap_ \in Nat
  BY SizesAssumption DEF Init
<1>2. EmptyPair \in [1..2 -> [pos : 0..cap_, len : 0..cap_]] /\ InStorage(EmptyPair) /\ PairSize(EmptyPair) = 0
  BY <1>1, EmptyPairFits
<1>3. in_len_ \in 0..cap_ /\ out_size_ \in 0..cap_ /\ in_len_ + out_size_ <= cap_
  BY <1>1 DEF Init
<1>5. held \in [1..2 -> [pos : 0..cap_, len : 0..cap_]]
  BY <1>2 DEF Init
<1>6. TypeOK
  BY <1>1, <1>3, <1>5 DEF Init, TypeOK
<1>4. InStorage(held) /\ HeldIsOutput
  BY <1>2 DEF Init, HeldIsOutput
<1> QED
  BY <1>3, <1>4, <1>6 DEF Inv

LEMMA NextInv == Inv /\ [Next]_vars => Inv'
<1> SUFFICES ASSUME Inv, [Next]_vars PROVE Inv'
  OBVIOUS
<1>0. cap_ \in Nat
  BY SizesAssumption DEF Inv, TypeOK
<1>1. ASSUME NEW k \in 0..SizeMax, Prepare(k)
      PROVE  Inv'
  <2>1. k \in Nat /\ k <= cap_ - in_len_ /\ cap_ # 0
    BY <1>0, <1>1, SizesAssumption DEF Prepare, Refused, Inv, TypeOK
  <2> DEFINE w == (in_pos_ + in_len_) % cap_
  <2>2. w \in Nat /\ w < cap_
    BY <1>0, <2>1, ModTwoSteps DEF Inv, TypeOK
  <2>3. k <= cap_
    BY <1>0, <2>1 DEF Inv, TypeOK
  <2>4. /\ RingPair(w, k) \in [1..2 -> [pos : 0..cap_, len : 0..cap_]]
        /\ InStorage(RingPair(w, k))
        /\ PairSize(RingPair(w, k)) = k
    BY <1>0, <2>1, <2>2, <2>3, RingPairFits
  <2>5. TypeOK'
    BY <1>0, <1>1, <2>1, <2>3, <2>4 DEF Prepare, Inv, TypeOK
  <2>6. in_len_' + out_size_' <= cap_'
    BY <1>0, <1>1, <2>1 DEF Prepare, Inv, TypeOK
  <2>7. InStorage(held)'
    BY <1>1, <2>4 DEF Prepare, InStorage
  <2>8. HeldIsOutput'
    BY <1>1, <2>4 DEF Prepare, HeldIsOutput, PairSize, RingPair
  <2> QED
    BY <2>5, <2>6, <2>7, <2>8 DEF Inv
<1>2. ASSUME NEW k \in 0..SizeMax, PrepareThrows(k)
      PROVE  Inv'
  BY <1>2 DEF PrepareThrows, Inv, TypeOK, InStorage, HeldIsOutput, PairSize, RingPair
<1>3. ASSUME NEW k \in 0..SizeMax, PrepareTraps(k)
      PROVE  Inv'
  <2>1. k = 0 /\ out_size_ = 0
    BY <1>0, <1>3, SizesAssumption DEF PrepareTraps, Refused, Inv, TypeOK
  <2> QED
    BY <1>0, <1>3, <2>1 DEF PrepareTraps, Inv, TypeOK, InStorage, HeldIsOutput, PairSize, RingPair
<1>4. ASSUME NEW k \in 0..SizeMax, Commit(k)
      PROVE  Inv'
  <2>1. k \in Nat
    BY SizesAssumption
  <2>2. in_len_' \in 0..cap_
    BY <1>0, <1>4, <2>1 DEF Commit, Inv, TypeOK
  <2>3. TypeOK'
    BY <1>0, <1>4, <2>2, EmptyPairFits DEF Commit, Inv, TypeOK
  <2>4. InStorage(held)'
    BY <1>0, <1>4, EmptyPairFits DEF Commit, InStorage
  <2>5. HeldIsOutput'
    BY <1>0, <1>4, EmptyPairFits DEF Commit, HeldIsOutput, PairSize
  <2> QED
    BY <1>0, <1>4, <2>2, <2>3, <2>4, <2>5 DEF Commit, Inv
<1>5. ASSUME NEW k \in 0..SizeMax, ConsumeSome(k)
      PROVE  Inv'
  <2>1. k \in Nat /\ k < in_len_ /\ in_len_ <= cap_ /\ cap_ # 0 /\ in_pos_ < cap_
    BY <1>0, <1>5, SizesAssumption DEF ConsumeSome, Inv, TypeOK
  <2>2. /\ in_pos_' \in Nat /\ in_pos_' < cap_
        /\ (in_pos_' + in_len_') % cap_ = (in_pos_ + in_len_) % cap_
    <3>1. /\ cap_ \in Nat \ {0} /\ in_pos_ \in Nat
          /\ in_len_ \in Nat /\ k <= in_len_
      BY <1>0, <2>1 DEF Inv, TypeOK
    <3>2. /\ (in_pos_ + k) % cap_ \in Nat
          /\ (in_pos_ + k) % cap_ < cap_
          /\ (((in_pos_ + k) % cap_) + (in_len_ - k)) % cap_ = (in_pos_ + in_len_) % cap_
      BY <2>1, <3>1, ModTwoSteps
    <3> QED
      BY <1>5, <3>2 DEF ConsumeSome
  <2>3. in_len_' \in 0..cap_ /\ in_len_' <= in_len_
    BY <1>0, <1>5, <2>1 DEF ConsumeSome, Inv, TypeOK
  <2>4. TypeOK'
    BY <1>5, <2>2, <2>3 DEF ConsumeSome, Inv, TypeOK
  <2>5. in_len_' + out_size_' <= cap_'
    BY <1>0, <1>5, <2>3 DEF ConsumeSome, Inv, TypeOK
  <2>6. InStorage(held)'
    BY <1>5 DEF ConsumeSome, Inv, InStorage
  <2>7. HeldIsOutput'
    BY <1>5, <2>2 DEF ConsumeSome, Inv, HeldIsOutput, PairSize, RingPair
  <2> QED
    BY <2>4, <2>5, <2>6, <2>7 DEF Inv
<1>6. ASSUME NEW k \in 0..SizeMax, ConsumeAll(k)
      PROVE  Inv'
  <2>1. /\ in_pos_' \in Nat /\ (in_pos_' < cap_ \/ in_pos_' = 0)
        /\ out_size_ > 0 => (in_pos_' + 0) % cap_ = (in_pos_ + in_len_) % cap_
    <3>1. CASE out_size_ = 0
      BY <1>0, <1>6, <3>1 DEF ConsumeAll, Inv, TypeOK
    <3>2. CASE out_size_ # 0
      <4>1. cap_ # 0 /\ in_pos_ < cap_ /\ in_len_ <= cap_ /\ in_pos_ \in Nat /\ in_len_ \in Nat
        BY <1>0, <3>2 DEF Inv, TypeOK
      <4>2. in_pos_' = (in_pos_ + in_len_) % cap_
        BY <1>6, <3>2 DEF ConsumeAll
      <4>3. in_pos_' \in Nat /\ in_pos_' < cap_
        BY <1>0, <4>1, <4>2, ModTwoSteps
      <4>4. (in_pos_' + 0) % cap_ = in_pos_'
        BY <1>0, <4>3, ModIdle
      <4> QED
        BY <4>2, <4>3, <4>4
    <3> QED
      BY <3>1, <3>2
  <2>2. TypeOK'
    BY <1>0, <1>6, <2>1 DEF ConsumeAll, Inv, TypeOK
  <2>3. in_len_' + out_size_' <= cap_'
    BY <1>0, <1>6 DEF ConsumeAll, Inv, TypeOK
  <2>4. InStorage(held)'
    BY <1>6 DEF ConsumeAll, Inv, InStorage
  <2>5. HeldIsOutput'
    BY <1>6, <2>1 DEF ConsumeAll, Inv, HeldIsOutput, PairSize, RingPair
  <2> QED
    BY <2>2, <2>3, <2>4, <2>5 DEF Inv
<1>7. ASSUME NEW i \in 1..PairSize(held), NEW b \in Byte, Fill(i, b)
      PROVE  Inv'
  <2>1. mem' \in [0..cap_ - 1 -> Byte]
    BY <1>7 DEF Fill, Inv, TypeOK
  <2> QED
    BY <1>7, <2>1 DEF Fill, Inv, TypeOK, InStorage, HeldIsOutput, PairSize, RingPair
<1>8. CASE UNCHANGED vars
  BY <1>8 DEF vars, Inv, TypeOK, InStorage, HeldIsOutput, PairSize, RingPair
<1> QED
  BY <1>1, <1>2, <1>3, <1>4, <1>5, <1>6, <1>7, <1>8 DEF Next, Consume

(* Inv holds in every reachable state: the types, and that the readable    *)
(* and the writable bytes fit the storage together, whatever the order of  *)
(* prepare(), commit() and consume().                                      *)
THEOREM AlwaysInv == Spec => []Inv
<1>1. Init => Inv
  BY InitInv
<1>2. Inv /\ [Next]_vars => Inv'
  BY NextInv
<1> QED
  BY <1>1, <1>2, PTL DEF Spec

(* prepare() and consume() never leave the caller with a sequence that is  *)
(* not the writable part of the ring (circular_buffer.hpp:168).            *)
THEOREM AlwaysHeldIsOutput == Spec => []HeldIsOutput
<1>1. Inv => HeldIsOutput
  BY DEF Inv
<1> QED
  BY <1>1, AlwaysInv, PTL

(* data() and prepare() never hand out a byte outside the storage.         *)
THEOREM AlwaysBuffersInStorage == Spec => []BuffersInStorage
<1>1. Inv => BuffersInStorage
  <2> SUFFICES ASSUME Inv PROVE InStorage(data)
    BY DEF Inv, BuffersInStorage
  <2>1. cap_ \in Nat
    BY SizesAssumption DEF Inv, TypeOK
  <2>2. InStorage(RingPair(in_pos_, in_len_))
    <3>1. /\ in_pos_ \in Nat /\ (in_pos_ < cap_ \/ in_pos_ = 0)
          /\ in_len_ \in Nat /\ in_len_ <= cap_
      BY <2>1 DEF Inv, TypeOK
    <3> QED
      BY <2>1, <3>1, RingPairFits
  <2> QED
    BY <2>2 DEF data
<1> QED
  BY <1>1, AlwaysInv, PTL

(* No byte is readable and writable at once, for every capacity and        *)
(* wherever the ring wraps.                                                *)
THEOREM AlwaysDisjoint == Spec => []ReadableWritableDisjoint
<1>1. Inv => ReadableWritableDisjoint
  <2> SUFFICES ASSUME Inv,
                      NEW i \in 1..PairSize(data), NEW j \in 1..PairSize(held)
               PROVE  PairAt(data, i) # PairAt(held, j)
    BY DEF ReadableWritableDisjoint
  <2>1. cap_ \in Nat /\ in_pos_ \in Nat /\ in_len_ \in 0..cap_ /\ out_size_ \in 0..cap_
    BY SizesAssumption DEF Inv, TypeOK
  <2>2. PairSize(data) = in_len_ /\ PairSize(held) = out_size_
    <3>1. /\ in_pos_ < cap_ \/ in_pos_ = 0
          /\ in_len_ \in Nat /\ in_len_ <= cap_
          /\ PairSize(held) = out_size_
      BY <2>1 DEF Inv, TypeOK, HeldIsOutput
    <3>2. PairSize(RingPair(in_pos_, in_len_)) = in_len_
      BY <2>1, <3>1, RingPairFits
    <3> QED
      BY <3>1, <3>2 DEF data
  <2>3. in_pos_ < cap_ /\ cap_ # 0 /\ out_size_ > 0
    BY <2>1, <2>2 DEF Inv, TypeOK
  <2> DEFINE w == (in_pos_ + in_len_) % cap_
  <2>4. w = IF in_pos_ + in_len_ < cap_ THEN in_pos_ + in_len_
                                        ELSE in_pos_ + in_len_ - cap_
    <3>1. /\ cap_ \in Nat /\ in_pos_ \in Nat /\ in_pos_ < cap_
          /\ in_len_ \in Nat /\ in_len_ <= cap_
      BY <2>1, <2>3
    <3> QED
      BY <3>1, ModOnce, Zenon
  <2>5. w \in Nat /\ w < cap_
    BY <2>1, <2>3, <2>4
  <2>6. held = RingPair(w, out_size_)
    BY <2>3 DEF Inv, HeldIsOutput
  <2>7. PairAt(data, i) = IF in_pos_ + i - 1 < cap_ THEN in_pos_ + i - 1
                                                    ELSE in_pos_ + i - 1 - cap_
    BY <2>1, <2>2, <2>3, RingPairAt DEF data
  <2>8. PairAt(held, j) = IF w + j - 1 < cap_ THEN w + j - 1
                                              ELSE w + j - 1 - cap_
    BY <2>1, <2>2, <2>5, <2>6, RingPairAt
  <2>9. in_len_ + out_size_ <= cap_ /\ i \in 1..in_len_ /\ j \in 1..out_size_
    BY <2>2 DEF Inv
  <2> HIDE DEF w
  <2> QED
    BY <2>1, <2>3, <2>4, <2>5, <2>7, <2>8, <2>9
<1> QED
  BY <1>1, AlwaysInv, PTL

(* Unless bytes are consumed, the first readable byte stays the first.     *)
LEMMA PositionStays ==
  Inv /\ [Next]_vars /\ in_len_' >= in_len_ /\ in_len_ > 0 =>
    in_pos_' = in_pos_ /\ cap_' = cap_
<1> SUFFICES ASSUME Inv, [Next]_vars, in_len_' >= in_len_, in_len_ > 0
             PROVE  in_pos_' = in_pos_ /\ cap_' = cap_
  OBVIOUS
<1>0. /\ cap_ \in Nat /\ in_pos_ \in Nat /\ in_len_ \in Nat /\ in_len_ <= cap_
      /\ in_pos_ < cap_ /\ out_size_ \in Nat
  BY SizesAssumption DEF Inv, TypeOK
<1>1. ASSUME NEW k \in 0..SizeMax, ConsumeSome(k)
      PROVE  in_pos_' = in_pos_ /\ cap_' = cap_
  <2>1. k = 0
    BY <1>0, <1>1, SizesAssumption DEF ConsumeSome
  <2>2. (in_pos_ + 0) % cap_ = in_pos_
    BY <1>0, ModIdle
  <2> QED
    BY <1>1, <2>1, <2>2 DEF ConsumeSome
<1>2. ASSUME NEW k \in 0..SizeMax, ConsumeAll(k)
      PROVE  FALSE
  BY <1>0, <1>2 DEF ConsumeAll
<1>3. ASSUME NEW k \in 0..SizeMax,
             Prepare(k) \/ PrepareThrows(k) \/ PrepareTraps(k) \/ Commit(k)
      PROVE  in_pos_' = in_pos_ /\ cap_' = cap_
  BY <1>3 DEF Prepare, PrepareThrows, PrepareTraps, Commit
<1>4. ASSUME NEW j \in 1..PairSize(held), NEW b \in Byte, Fill(j, b)
      PROVE  in_pos_' = in_pos_ /\ cap_' = cap_
  BY <1>4 DEF Fill
<1>5. CASE UNCHANGED vars
  BY <1>5 DEF vars
<1> QED
  BY <1>1, <1>2, <1>3, <1>4, <1>5 DEF Next, Consume

(* The i-th readable byte stays where it is unless bytes are consumed.     *)
LEMMA NextDataStays ==
  Inv /\ [Next]_vars =>
    (in_len_' >= in_len_ => \A i \in 1..in_len_ : PairAt(data', i) = PairAt(data, i))
<1> SUFFICES ASSUME Inv, [Next]_vars, in_len_' >= in_len_, NEW i \in 1..in_len_
             PROVE  PairAt(data', i) = PairAt(data, i)
  OBVIOUS
<1>1. /\ cap_ \in Nat /\ in_pos_ \in Nat /\ in_len_ \in Nat /\ in_len_ <= cap_
      /\ in_pos_ < cap_ /\ out_size_ \in Nat
  BY SizesAssumption DEF Inv, TypeOK
<1>2. in_pos_' = in_pos_ /\ cap_' = cap_
  BY <1>1, PositionStays
<1>3. data' = RingPair(in_pos_, in_len_')
  BY <1>2 DEF data, RingPair
<1>4. in_len_' \in Nat /\ in_len_' <= cap_ /\ i \in 1..in_len_'
  <2>1. in_len_' \in 0..cap_
    BY <1>2, NextInv DEF Inv, TypeOK
  <2> QED
    BY <1>1, <2>1
<1>5. PairAt(RingPair(in_pos_, in_len_), i) =
        IF in_pos_ + i - 1 < cap_ THEN in_pos_ + i - 1 ELSE in_pos_ + i - 1 - cap_
  BY <1>1, RingPairAt
<1>6. PairAt(RingPair(in_pos_, in_len_'), i) =
        IF in_pos_ + i - 1 < cap_ THEN in_pos_ + i - 1 ELSE in_pos_ + i - 1 - cap_
  BY <1>1, <1>4, RingPairAt
<1> QED
  BY <1>3, <1>5, <1>6 DEF data

(* Sequences obtained from data() survive prepare() and commit()           *)
(* (circular_buffer.hpp:150).                                              *)
THEOREM AlwaysDataStaysValid == Spec => DataStaysValid
<1>1. Inv /\ [Next]_vars =>
        [in_len_' >= in_len_ =>
           \A i \in 1..in_len_ : PairAt(data', i) = PairAt(data, i)]_vars
  BY NextDataStays
<1> QED
  BY <1>1, AlwaysInv, PTL DEF Spec, DataStaysValid

-----------------------------------------------------------------------------
(* circular_buffer implements DynamicBuffer, for every capacity and every  *)
(* set of byte values.                                                     *)
(*                                                                         *)
(* In every state of the invariant Inv the readable and the writable bytes *)
(* follow each other in the ring: the slots 0 .. in_len_ - 1 are readable, *)
(* the next out_size_ slots are writable, and two slots are two bytes.     *)
(* commit() then moves the border between them, consume() the beginning.   *)

(* The offset of the k-th byte of the ring, counted from in_pos_.          *)
Slot(k) == IF in_pos_ + k < cap_ THEN in_pos_ + k ELSE in_pos_ + k - cap_

(* What the sequences of the refinement mapping are, byte by byte.         *)
View ==
  /\ PairBytes(data) \in Seq(Byte)
  /\ Len(PairBytes(data)) = in_len_
  /\ \A i \in 1..in_len_ : PairBytes(data)[i] = mem[Slot(i - 1)]
  /\ PairBytes(held) \in [1..out_size_ -> Byte]
  /\ PairBytes(held) \in Seq(Byte)
  /\ Len(PairBytes(held)) = out_size_
  /\ \A j \in 1..out_size_ : PairBytes(held)[j] = mem[Slot(in_len_ + j - 1)]
  /\ PairSize(held) = out_size_

(* The facts about the counters that all of the following uses.            *)
LEMMA CountersFit ==
  Inv => /\ cap_ \in Nat /\ in_pos_ \in Nat /\ in_len_ \in Nat
         /\ out_size_ \in Nat /\ in_len_ + out_size_ <= cap_
         /\ in_pos_ < cap_ \/ in_pos_ = 0
         /\ mem \in [0..cap_ - 1 -> Byte]
BY SizesAssumption DEF Inv, TypeOK

LEMMA SlotsFit ==
  ASSUME Inv, NEW k \in Nat, k < cap_
  PROVE  Slot(k) \in 0..cap_ - 1
BY CountersFit DEF Slot

(* Two slots are two bytes.                                                *)
LEMMA SlotsDiffer ==
  ASSUME Inv, NEW k \in Nat, NEW l \in Nat, k < cap_, l < cap_, k # l
  PROVE  Slot(k) # Slot(l)
BY CountersFit DEF Slot

LEMMA DataAt ==
  ASSUME Inv
  PROVE  /\ PairSize(data) = in_len_
         /\ \A i \in 1..in_len_ : PairAt(data, i) = Slot(i - 1)
<1>1. /\ cap_ \in Nat /\ in_pos_ \in Nat /\ in_len_ \in Nat /\ in_len_ <= cap_
      /\ in_pos_ < cap_ \/ in_pos_ = 0
  BY CountersFit
<1>2. PairSize(RingPair(in_pos_, in_len_)) = in_len_
  BY <1>1, RingPairFits
<1>3. ASSUME NEW i \in 1..in_len_
      PROVE  PairAt(data, i) = Slot(i - 1)
  <2>1. PairAt(RingPair(in_pos_, in_len_), i) =
          IF in_pos_ + i - 1 < cap_ THEN in_pos_ + i - 1
                                    ELSE in_pos_ + i - 1 - cap_
    BY <1>1, RingPairAt
  <2> QED
    BY <1>1, <2>1 DEF data, Slot
<1> QED
  BY <1>2, <1>3 DEF data

LEMMA HeldAt ==
  ASSUME Inv
  PROVE  /\ PairSize(held) = out_size_
         /\ \A j \in 1..out_size_ : PairAt(held, j) = Slot(in_len_ + j - 1)
<1>1. PairSize(held) = out_size_
  BY DEF Inv, HeldIsOutput
<1>2. ASSUME NEW j \in 1..out_size_
      PROVE  PairAt(held, j) = Slot(in_len_ + j - 1)
  <2>1. /\ cap_ \in Nat /\ in_pos_ \in Nat /\ in_pos_ < cap_
        /\ in_len_ \in Nat /\ in_len_ <= cap_
        /\ out_size_ \in Nat /\ out_size_ <= cap_ /\ out_size_ > 0
        /\ in_len_ + out_size_ <= cap_
    BY CountersFit
  <2> DEFINE w == (in_pos_ + in_len_) % cap_
  <2>2. w = IF in_pos_ + in_len_ < cap_ THEN in_pos_ + in_len_
                                        ELSE in_pos_ + in_len_ - cap_
    BY <2>1, ModOnce, Zenon
  <2>3. held = RingPair(w, out_size_)
    BY <2>1 DEF Inv, HeldIsOutput
  <2> HIDE DEF w
  <2>4. w \in Nat /\ w < cap_
    BY <2>1, <2>2
  <2>5. PairAt(held, j) = IF w + j - 1 < cap_ THEN w + j - 1
                                              ELSE w + j - 1 - cap_
    BY <2>1, <2>3, <2>4, RingPairAt
  <2> QED
    BY <2>1, <2>2, <2>5 DEF Slot
<1> QED
  BY <1>1, <1>2

LEMMA InvView == Inv => View
<1> SUFFICES ASSUME Inv PROVE View
  OBVIOUS
<1>1. /\ cap_ \in Nat /\ in_len_ \in Nat /\ out_size_ \in Nat
      /\ in_len_ + out_size_ <= cap_ /\ mem \in [0..cap_ - 1 -> Byte]
  BY CountersFit
<1>2. /\ PairSize(data) = in_len_
      /\ \A i \in 1..in_len_ : PairAt(data, i) = Slot(i - 1)
  BY DataAt
<1>3. /\ PairSize(held) = out_size_
      /\ \A j \in 1..out_size_ : PairAt(held, j) = Slot(in_len_ + j - 1)
  BY HeldAt
<1>4. \A i \in 1..in_len_ : mem[PairAt(data, i)] \in Byte
  <2> SUFFICES ASSUME NEW i \in 1..in_len_ PROVE mem[Slot(i - 1)] \in Byte
    BY <1>2
  <2> DEFINE k == i - 1
  <2>1. k \in Nat /\ k < cap_
    BY <1>1
  <2> HIDE DEF k
  <2>2. Slot(k) \in 0..cap_ - 1
    BY <2>1, SlotsFit
  <2>3. mem[Slot(k)] \in Byte
    BY <1>1, <2>2
  <2> QED
    BY <2>3 DEF k
<1>5. \A j \in 1..out_size_ : mem[PairAt(held, j)] \in Byte
  <2> SUFFICES ASSUME NEW j \in 1..out_size_
               PROVE  mem[Slot(in_len_ + j - 1)] \in Byte
    BY <1>3
  <2> DEFINE k == in_len_ + j - 1
  <2>1. k \in Nat /\ k < cap_
    BY <1>1
  <2> HIDE DEF k
  <2>2. Slot(k) \in 0..cap_ - 1
    BY <2>1, SlotsFit
  <2>3. mem[Slot(k)] \in Byte
    BY <1>1, <2>2
  <2> QED
    BY <2>3 DEF k
<1>6. /\ PairBytes(data) = [i \in 1..in_len_ |-> mem[PairAt(data, i)]]
      /\ PairBytes(held) = [j \in 1..out_size_ |-> mem[PairAt(held, j)]]
  BY <1>2, <1>3 DEF PairBytes
<1>7. /\ PairBytes(data) \in [1..in_len_ -> Byte]
      /\ PairBytes(held) \in [1..out_size_ -> Byte]
  BY <1>4, <1>5, <1>6
<1>8. /\ PairBytes(data) \in Seq(Byte) /\ Len(PairBytes(data)) = in_len_
      /\ PairBytes(held) \in Seq(Byte) /\ Len(PairBytes(held)) = out_size_
  BY <1>1, <1>7
<1> QED
  BY <1>2, <1>3, <1>6, <1>7, <1>8 DEF View

LEMMA InvViewNext == Inv' => View'
BY InvView, PTL

-----------------------------------------------------------------------------
(* Each step of the ring is a step of the abstract buffer.                 *)

LEMMA SameInput ==
  ASSUME UNCHANGED <<cap_, mem, in_pos_, in_len_>>
  PROVE  PairBytes(data)' = PairBytes(data)
BY DEF PairBytes, PairAt, PairSize, data, RingPair

LEMMA SameOutput ==
  ASSUME UNCHANGED <<mem, held>>
  PROVE  PairBytes(held)' = PairBytes(held)
BY DEF PairBytes, PairAt, PairSize

LEMMA PrepareStep ==
  ASSUME Inv, Inv', NEW n \in 0..SizeMax, Prepare(n)
  PROVE  Abstract!Prepare(n)
<1>1. View /\ View'
  BY InvView, InvViewNext
<1>2. cap_ \in Nat /\ in_len_ \in Nat /\ in_len_ <= cap_ /\ n \in Nat
  BY CountersFit, SizesAssumption
<1>3. Len(PairBytes(data)) + n <= cap_
  BY <1>1, <1>2 DEF View, Prepare, Refused
<1>4. PairBytes(held)' \in [1..n -> Byte]
  BY <1>1 DEF View, Prepare
<1>5. PairBytes(data)' = PairBytes(data)
  BY SameInput DEF Prepare
<1> QED
  BY <1>3, <1>4, <1>5 DEF Prepare, Abstract!Prepare

LEMMA PrepareThrowsStep ==
  ASSUME Inv, NEW n \in 0..SizeMax, PrepareThrows(n)
  PROVE  Abstract!PrepareThrows(n)
<1>1. View
  BY InvView
<1>2. cap_ \in Nat /\ in_len_ \in Nat /\ in_len_ <= cap_ /\ n \in Nat
  BY CountersFit, SizesAssumption
<1>3. Len(PairBytes(data)) + n > cap_
  BY <1>1, <1>2 DEF View, PrepareThrows, Refused
<1>4. PairBytes(data)' = PairBytes(data)
  BY SameInput DEF PrepareThrows
<1>5. PairBytes(held)' = PairBytes(held)
  BY SameOutput DEF PrepareThrows
<1> QED
  BY <1>3, <1>4, <1>5 DEF PrepareThrows, Abstract!PrepareThrows

LEMMA FillStep ==
  ASSUME Inv, Inv', NEW j \in 1..PairSize(held), NEW b \in Byte, Fill(j, b)
  PROVE  Abstract!Fill(j, b)
<1>1. View /\ View'
  BY InvView, InvViewNext
<1>2. /\ cap_ \in Nat /\ in_len_ \in Nat /\ out_size_ \in Nat
      /\ in_len_ + out_size_ <= cap_ /\ mem \in [0..cap_ - 1 -> Byte]
  BY CountersFit
<1>3. j \in 1..out_size_ /\ j \in 1..Len(PairBytes(held))
  BY <1>1 DEF View
<1> DEFINE t == in_len_ + j - 1
<1>4. t \in Nat /\ t < cap_
  BY <1>2, <1>3
<1>5. mem' = [mem EXCEPT ![Slot(t)] = b]
  BY <1>3, HeldAt DEF Fill
<1>6. \A k \in Nat : Slot(k)' = Slot(k)
  BY DEF Fill, Slot
<1> HIDE DEF t
<1>7. Slot(t) \in 0..cap_ - 1
  BY <1>4, SlotsFit
<1>8. ASSUME NEW k \in Nat, k < cap_
      PROVE  mem'[Slot(k)] = IF k = t THEN b ELSE mem[Slot(k)]
  <2>1. Slot(k) \in 0..cap_ - 1
    BY <1>8, SlotsFit
  <2>2. k # t => Slot(k) # Slot(t)
    BY <1>4, <1>8, SlotsDiffer
  <2> QED
    BY <1>2, <1>5, <1>7, <2>1, <2>2
<1>9. PairBytes(data)' = PairBytes(data)
  <2>1. ASSUME NEW i \in 1..in_len_
        PROVE  PairBytes(data)'[i] = PairBytes(data)[i]
    <3> DEFINE k == i - 1
    <3>1. k \in Nat /\ k < cap_ /\ k # t
      BY <1>2, <1>3 DEF t
    <3>2. PairBytes(data)'[i] = mem'[Slot(k)'] /\ PairBytes(data)[i] = mem[Slot(k)]
      BY <1>1 DEF View, Fill
    <3> HIDE DEF k
    <3> QED
      BY <1>6, <1>8, <3>1, <3>2
  <2>2. /\ PairBytes(data)' \in Seq(Byte) /\ Len(PairBytes(data)') = in_len_
        /\ PairBytes(data) \in Seq(Byte) /\ Len(PairBytes(data)) = in_len_
    BY <1>1 DEF View, Fill
  <2> QED
    BY <2>1, <2>2, SeqEqual
<1>10. PairBytes(held)' = [PairBytes(held) EXCEPT ![j] = b]
  <2>1. ASSUME NEW i \in 1..out_size_
        PROVE  PairBytes(held)'[i] = IF i = j THEN b ELSE PairBytes(held)[i]
    <3>1. PICK k \in Nat : k = in_len_ + i - 1
      BY <1>2
    <3>2. k < cap_ /\ (k = t <=> i = j)
      BY <1>2, <1>3, <3>1 DEF t
    <3>3. PairBytes(held)[i] = mem[Slot(k)]
      BY <1>1, <3>1 DEF View
    <3>4. PairBytes(held)'[i] = mem'[Slot(k)]
      BY <1>1, <3>1 DEF View, Fill, Slot
    <3> QED
      BY <1>8, <3>2, <3>3, <3>4
  <2>2. /\ PairBytes(held)' \in [1..out_size_ -> Byte]
        /\ PairBytes(held) \in [1..out_size_ -> Byte]
    BY <1>1 DEF View, Fill
  <2> QED
    BY <1>3, <2>1, <2>2
<1> QED
  BY <1>3, <1>9, <1>10 DEF Fill, Abstract!Fill

LEMMA CommitStep ==
  ASSUME Inv, Inv', NEW n \in 0..SizeMax, Commit(n)
  PROVE  Abstract!Commit(n)
<1>1. View /\ View'
  BY InvView, InvViewNext
<1>2. /\ in_len_ \in Nat /\ out_size_ \in Nat /\ n \in Nat
  BY CountersFit, SizesAssumption
<1> DEFINE m == IF n < out_size_ THEN n ELSE out_size_
           s == PairBytes(data)
           t == PairBytes(held)
           u == PairBytes(data)'
<1>3. /\ s \in Seq(Byte) /\ Len(s) = in_len_
      /\ t \in Seq(Byte) /\ Len(t) = out_size_
  BY <1>1 DEF View
<1>4. u \in Seq(Byte) /\ Len(u) = in_len_ + m
  BY <1>1 DEF View, Commit
<1>5. m \in 0..out_size_
  BY <1>2
<1>6. \A k \in Nat : Slot(k)' = Slot(k)
  BY DEF Commit, Slot
<1>7. ASSUME NEW i \in 1..in_len_ + m
      PROVE  u[i] = mem[Slot(i - 1)]
  <2>1. u[i] = mem'[Slot(i - 1)']
    BY <1>1, <1>7 DEF View, Commit
  <2>2. i - 1 \in Nat
    BY <1>2, <1>5
  <2> QED
    BY <1>6, <2>1, <2>2 DEF Commit
<1>8. \A i \in 1..in_len_ : u[i] = s[i]
  <2> SUFFICES ASSUME NEW i \in 1..in_len_ PROVE u[i] = s[i]
    OBVIOUS
  <2>1. i \in 1..in_len_ + m
    BY <1>2, <1>5
  <2> QED
    BY <1>1, <1>7, <2>1 DEF View
<1>9. \A i \in 1..m : u[in_len_ + i] = t[i]
  <2> SUFFICES ASSUME NEW i \in 1..m PROVE u[in_len_ + i] = t[i]
    OBVIOUS
  <2>1. i \in 1..out_size_ /\ in_len_ + i \in 1..in_len_ + m
    BY <1>2, <1>5
  <2> DEFINE x == in_len_ + i
  <2>2. t[i] = mem[Slot(x - 1)]
    BY <1>1, <2>1 DEF View
  <2>3. x \in 1..in_len_ + m
    BY <2>1
  <2> HIDE DEF x
  <2>4. u[x] = mem[Slot(x - 1)]
    BY <1>7, <2>3
  <2>5. u[x] = t[i]
    BY <2>2, <2>4
  <2> QED
    BY <2>5 DEF x
<1>10. m = Abstract!Least(n, Len(t))
  BY <1>2, <1>3 DEF Abstract!Least
<1>11. PairBytes(held)' = <<>>
  <2>1. PairBytes(held)' \in Seq(Byte) /\ Len(PairBytes(held)') = 0
    BY <1>1 DEF View, Commit
  <2> QED
    BY <2>1, EmptySeq
<1> HIDE DEF m, s, t, u
<1>12. u = s \o SubSeq(t, 1, m)
  <2>1. /\ s \in Seq(Byte) /\ t \in Seq(Byte) /\ u \in Seq(Byte)
        /\ m \in 0..Len(t) /\ Len(u) = Len(s) + m
        /\ \A i \in 1..Len(s) : u[i] = s[i]
        /\ \A i \in 1..m : u[Len(s) + i] = t[i]
    BY <1>3, <1>4, <1>5, <1>8, <1>9
  <2> QED
    BY <2>1, PrefixAppended
<1> QED
  BY <1>10, <1>11, <1>12 DEF s, t, u, Commit, Abstract!Commit

(* After consume(n) the i-th byte is the one that was n places further on. *)
LEMMA ConsumeMoves ==
  ASSUME Inv, NEW n \in 0..SizeMax, ConsumeSome(n),
         NEW k \in Nat, k < in_len_ - n
  PROVE  Slot(k)' = Slot(k + n)
<1>1. /\ cap_ \in Nat /\ in_pos_ \in Nat /\ in_pos_ < cap_
      /\ n \in Nat /\ n <= cap_ /\ in_len_ \in Nat /\ in_len_ <= cap_
      /\ n < in_len_
  BY CountersFit, SizesAssumption DEF ConsumeSome
<1>2. (in_pos_ + n) % cap_ = IF in_pos_ + n < cap_ THEN in_pos_ + n
                                                  ELSE in_pos_ + n - cap_
  BY <1>1, ModOnce, Zenon
<1>3. /\ in_pos_' = IF in_pos_ + n < cap_ THEN in_pos_ + n
                                          ELSE in_pos_ + n - cap_
      /\ cap_' = cap_
  BY <1>2 DEF ConsumeSome
<1> QED
  BY <1>1, <1>3 DEF Slot

LEMMA ConsumeStep ==
  ASSUME Inv, Inv', NEW n \in 0..SizeMax, Consume(n)
  PROVE  Abstract!Consume(n)
<1>1. View /\ View'
  BY InvView, InvViewNext
<1>2. in_len_ \in Nat /\ n \in Nat
  BY CountersFit, SizesAssumption
<1> DEFINE s == PairBytes(data)
           u == PairBytes(data)'
           m == IF n < in_len_ THEN n ELSE in_len_
<1>3. s \in Seq(Byte) /\ Len(s) = in_len_ /\ u \in Seq(Byte)
  BY <1>1 DEF View
<1>4. m \in 0..in_len_ /\ Len(u) = in_len_ - m
  BY <1>1, <1>2 DEF View, Consume, ConsumeSome, ConsumeAll
<1>5. \A i \in 1..in_len_ - m : u[i] = s[i + m]
  <2> SUFFICES ASSUME NEW i \in 1..in_len_ - m PROVE u[i] = s[i + m]
    OBVIOUS
  <2>1. ConsumeSome(n) /\ m = n /\ i \in 1..in_len_ - n
    BY <1>2 DEF Consume, ConsumeSome, ConsumeAll
  <2>2. PICK k \in Nat : k = i - 1
    OBVIOUS
  <2>3. u[i] = mem[Slot(k)']
    BY <1>1, <2>1, <2>2 DEF View, ConsumeSome
  <2>4. PICK x \in 1..in_len_ : x = i + n
    BY <1>2, <2>1
  <2>5. s[x] = mem[Slot(x - 1)] /\ x - 1 = k + n
    BY <1>1, <1>2, <2>2, <2>4 DEF View
  <2>6. Slot(k)' = Slot(k + n)
    BY <1>2, <2>1, <2>2, ConsumeMoves
  <2> QED
    BY <2>1, <2>3, <2>4, <2>5, <2>6
<1>6. m = Abstract!Least(n, Len(s))
  BY <1>2, <1>3 DEF Abstract!Least
<1>7. PairBytes(held)' = PairBytes(held)
  BY SameOutput DEF Consume, ConsumeSome, ConsumeAll
<1> HIDE DEF s, u, m
<1>8. u = SubSeq(s, m + 1, Len(s))
  <2>1. /\ s \in Seq(Byte) /\ u \in Seq(Byte)
        /\ m \in 0..Len(s) /\ Len(u) = Len(s) - m
        /\ \A i \in 1..Len(u) : u[i] = s[i + m]
    BY <1>3, <1>4, <1>5
  <2> QED
    BY <2>1, PrefixDropped
<1> QED
  BY <1>6, <1>7, <1>8
  DEF s, u, Consume, ConsumeSome, ConsumeAll, Abstract!Consume

(* prepare(0) on a buffer without storage: nothing the caller sees.        *)
LEMMA PrepareTrapsStep ==
  ASSUME NEW n \in 0..SizeMax, PrepareTraps(n)
  PROVE  UNCHANGED Abstract!vars
<1>1. PairBytes(data)' = PairBytes(data)
  BY SameInput DEF PrepareTraps
<1>2. PairBytes(held)' = PairBytes(held)
  BY SameOutput DEF PrepareTraps
<1> QED
  BY <1>1, <1>2 DEF PrepareTraps, Abstract!vars

LEMMA RefinesInit == Init => Abstract!Init
<1> SUFFICES ASSUME Init PROVE Abstract!Init
  OBVIOUS
<1>1. View /\ cap_ \in Nat /\ in_len_ <= cap_
  BY InitInv, InvView, CountersFit DEF Init
<1>2. PairBytes(held) = <<>>
  <2>1. PairBytes(held) \in Seq(Byte) /\ Len(PairBytes(held)) = 0
    BY <1>1 DEF View, Init
  <2> QED
    BY <2>1, EmptySeq
<1> QED
  BY <1>1, <1>2 DEF View, Init, Abstract!Init

LEMMA RefinesEachCall == Inv /\ Inv' => EachCall
<1> SUFFICES ASSUME Inv, Inv' PROVE EachCall
  OBVIOUS
<1>1. ASSUME NEW n \in 0..SizeMax
      PROVE  /\ Prepare(n) => Abstract!Prepare(n)
             /\ PrepareThrows(n) => Abstract!PrepareThrows(n)
             /\ Commit(n) => Abstract!Commit(n)
             /\ Consume(n) => Abstract!Consume(n)
  BY PrepareStep, PrepareThrowsStep, CommitStep, ConsumeStep
<1>2. ASSUME NEW j \in 1..PairSize(held), NEW b \in Byte
      PROVE  Fill(j, b) => Abstract!Fill(j, b)
  BY FillStep
<1> QED
  BY <1>1, <1>2 DEF EachCall

LEMMA RefinesNext ==
  Inv /\ Inv' /\ [Next]_vars => [Abstract!Next]_(Abstract!vars)
<1> SUFFICES ASSUME Inv, Inv', [Next]_vars
             PROVE  Abstract!Next \/ UNCHANGED Abstract!vars
  OBVIOUS
<1>1. EachCall
  BY RefinesEachCall
<1>2. ASSUME NEW n \in 0..SizeMax,
             Prepare(n) \/ PrepareThrows(n) \/ Commit(n) \/ Consume(n)
      PROVE  Abstract!Next
  BY <1>1, <1>2 DEF EachCall, Abstract!Next
<1>3. ASSUME NEW n \in 0..SizeMax, PrepareTraps(n)
      PROVE  UNCHANGED Abstract!vars
  BY <1>3, PrepareTrapsStep
<1>4. ASSUME NEW j \in 1..PairSize(held), NEW b \in Byte, Fill(j, b)
      PROVE  Abstract!Next
  <2>1. Abstract!Fill(j, b)
    BY <1>1, <1>4 DEF EachCall
  <2>2. j \in 1..Len(PairBytes(held))
    BY <2>1 DEF Abstract!Fill
  <2> QED
    BY <2>1, <2>2 DEF Abstract!Next
<1>5. CASE UNCHANGED vars
  <2>1. PairBytes(data)' = PairBytes(data) /\ PairBytes(held)' = PairBytes(held)
    BY <1>5, SameInput, SameOutput DEF vars
  <2> QED
    BY <1>5, <2>1 DEF vars, Abstract!vars
<1> QED
  BY <1>2, <1>3, <1>4, <1>5 DEF Next

(* circular_buffer is a DynamicBuffer that throws length_error exactly     *)
(* when size() + n exceeds max_size() and whose output sequence survives   *)
(* consume(), and each of its calls is the abstract call with the same     *)
(* argument (circular_buffer.cpp:17-91): for every capacity.               *)
THEOREM CircularBufferIsDynamicBuffer == Spec => ImplementsDynamicBuffer
<1>1. Init => Abstract!Init
  BY RefinesInit
<1>2. Inv /\ Inv' /\ [Next]_vars => [Abstract!Next]_(Abstract!vars)
  BY RefinesNext
<1>3. Inv /\ Inv' => [EachCall]_vars
  BY RefinesEachCall
<1> QED
  BY <1>1, <1>2, <1>3, AlwaysInv, PTL
  DEF Spec, ImplementsDynamicBuffer, Abstract!Spec

-----------------------------------------------------------------------------
(* The type-erased circular_buffer.  Every step of the wrapper, of its     *)
(* buffer() and of a copy is a step of the ring or none, so that what was  *)
(* shown above holds of it.                                                *)

LEMMA AnyNextIsNext == [AnyNext]_anyVars => [Next]_vars
<1> SUFFICES ASSUME AnyNext PROVE Next \/ UNCHANGED vars
  BY DEF anyVars, vars
<1>1. ~trapped
  BY DEF AnyNext
<1>2. ASSUME NEW n \in 0..SizeMax,
             \/ AnyPrepare(n) \/ AnyPrepareThrows(n) \/ AnyPrepareTraps(n)
             \/ AnyCommit(n) \/ AnyConsume(n)
             \/ BufferPrepare(n) \/ BufferCommit(n) \/ BufferConsume(n)
      PROVE  Next
  BY <1>1, <1>2
  DEF AnyPrepare, AnyPrepareThrows, AnyPrepareTraps, AnyCommit, AnyConsume,
      BufferPrepare, BufferCommit, BufferConsume, Next
<1>3. ASSUME NEW i \in 1..PairSize(held), NEW b \in Byte, AnyFill(i, b)
      PROVE  Next
  BY <1>1, <1>3 DEF AnyFill, Next
<1>4. CASE WrapperNext
  BY <1>2, <1>3, <1>4 DEF WrapperNext
<1>5. CASE BufferNext
  BY <1>2, <1>5 DEF BufferNext
<1>6. CASE CopyNext
  BY <1>6 DEF CopyNext, CopyRing, CopyConsume
<1> QED
  BY <1>4, <1>5, <1>6 DEF AnyNext

(* The arrays hold what they were filled with, unless a call on buffer()   *)
(* has overtaken them; before data_ is filled the first time it is empty.  *)
ArraysInv ==
  /\ "data_" \notin behind =>
       data_ = Unroll(data) \/ (data_ = <<>> /\ in_len_ = 0)
  /\ "out_" \notin behind /\ PairSize(held) > 0 => out_ = Unroll(held)
  /\ "data_" \in behind /\ besides # "buffer()" => data_ = <<>> /\ in_len_ > 0

(* No call but commit() and consume() changes the readable bytes, and none *)
(* but prepare() offers writable ones.                                     *)
LEMMA SamePairs ==
  /\ UNCHANGED <<cap_, in_pos_, in_len_>> => Unroll(data)' = Unroll(data)
  /\ UNCHANGED held => Unroll(held)' = Unroll(held) /\ PairSize(held)' = PairSize(held)
BY DEF Unroll, data, RingPair, PairSize

LEMMA NothingWritable == held' = EmptyPair => ~(PairSize(held)' > 0)
BY DEF EmptyPair, PairSize, Region

LEMMA AnyNextArraysInv ==
  ArraysInv /\ [AnyNext]_anyVars => ArraysInv'
<1> SUFFICES ASSUME ArraysInv, [AnyNext]_anyVars PROVE ArraysInv'
  OBVIOUS
<1>0. besides' = besides
  BY DEF AnyNext, anyVars
<1>1. ASSUME NEW n \in 0..SizeMax, AnyPrepare(n)
      PROVE  ArraysInv'
  <2>1. Unroll(data)' = Unroll(data)
    BY <1>1, SamePairs DEF AnyPrepare, Prepare
  <2> QED
    BY <1>0, <1>1, <2>1 DEF AnyPrepare, Prepare, ArraysInv, Unroll
<1>2. ASSUME UNCHANGED <<cap_, in_pos_, in_len_, held, data_, out_, behind>>
      PROVE  ArraysInv'
  BY <1>0, <1>2, SamePairs DEF ArraysInv
<1>3. ASSUME NEW n \in 0..SizeMax, AnyCommit(n)
      PROVE  ArraysInv'
  <2>1. ~(PairSize(held)' > 0)
    BY <1>3, NothingWritable DEF AnyCommit, Commit
  <2> QED
    BY <1>0, <1>3, <2>1 DEF AnyCommit, ArraysInv, Unroll
<1>4. ASSUME NEW n \in 0..SizeMax, AnyConsume(n)
      PROVE  ArraysInv'
  <2>1. held' = held
    BY <1>4 DEF AnyConsume, Consume, ConsumeSome, ConsumeAll
  <2> QED
    BY <1>0, <1>4, <2>1, SamePairs DEF AnyConsume, ArraysInv, Unroll
<1>5. ASSUME NEW n \in 0..SizeMax, BufferPrepare(n), besides = "buffer()"
      PROVE  ArraysInv'
  BY <1>0, <1>5, SamePairs DEF BufferPrepare, Prepare, ArraysInv
<1>6. ASSUME NEW n \in 0..SizeMax, BufferCommit(n), besides = "buffer()"
      PROVE  ArraysInv'
  BY <1>0, <1>6, NothingWritable DEF BufferCommit, Commit, ArraysInv
<1>7. ASSUME NEW n \in 0..SizeMax, BufferConsume(n), besides = "buffer()"
      PROVE  ArraysInv'
  <2>1. held' = held
    BY <1>7 DEF BufferConsume, Consume, ConsumeSome, ConsumeAll
  <2> QED
    BY <1>0, <1>7, <2>1, SamePairs DEF BufferConsume, ArraysInv
<1>8. CASE WrapperNext
  <2>1. ASSUME NEW n \in 0..SizeMax, AnyPrepareThrows(n) \/ AnyPrepareTraps(n)
        PROVE  ArraysInv'
    BY <1>2, <2>1
    DEF AnyPrepareThrows, AnyPrepareTraps, PrepareThrows, PrepareTraps
  <2>2. ASSUME NEW i \in 1..PairSize(held), NEW b \in Byte, AnyFill(i, b)
        PROVE  ArraysInv'
    BY <1>2, <2>2 DEF AnyFill, Fill
  <2> QED
    BY <1>1, <1>3, <1>4, <1>8, <2>1, <2>2 DEF WrapperNext
<1>9. CASE BufferNext
  BY <1>5, <1>6, <1>7, <1>9 DEF BufferNext
<1>10. CASE CopyNext
  BY <1>2, <1>10 DEF CopyNext, CopyRing, CopyConsume, vars
<1>11. CASE UNCHANGED anyVars
  BY <1>2, <1>11 DEF anyVars, vars
<1> QED
  BY <1>8, <1>9, <1>10, <1>11 DEF AnyNext

LEMMA AnyInitArraysInv == AnyInit => Inv /\ ArraysInv
<1> SUFFICES ASSUME AnyInit PROVE Inv /\ ArraysInv
  OBVIOUS
<1>1. ~(PairSize(held) > 0)
  BY DEF AnyInit, Init, EmptyPair, PairSize, Region
<1>2. Inv
  BY InitInv DEF AnyInit
<1>3. in_len_ = 0 \/ in_len_ > 0
  BY <1>2, CountersFit
<1> QED
  BY <1>1, <1>2, <1>3 DEF AnyInit, ArraysInv

LEMMA AlwaysArraysInv == AnySpec => [](Inv /\ ArraysInv)
<1>1. AnyInit => Inv /\ ArraysInv
  BY AnyInitArraysInv
<1>2. Inv /\ ArraysInv /\ [AnyNext]_anyVars => (Inv /\ ArraysInv)'
  BY AnyNextIsNext, NextInv, AnyNextArraysInv
<1> QED
  BY <1>1, <1>2, PTL DEF AnySpec

(* Arrays of two buffers or more have room for a pair.                     *)
LEMMA PairUnrolled ==
  ASSUME N > 1, NEW S, NEW bs \in [1..2 -> S]
  PROVE  AsPair(Unroll(bs)) = bs
<1> DEFINE u == SubSeq(bs, 1, 2)
<1>1. PICK n \in Nat : n = 2
  OBVIOUS
<1>2. bs \in Seq(S) /\ Len(bs) = n
  <2>1. bs \in [1..n -> S]
    BY <1>1
  <2> QED
    BY <2>1
<1>3. /\ Unroll(bs) = u
      /\ Len(u) = 2
      /\ \A i \in 1..2 : u[i] = bs[i]
  <2>1. Unroll(bs) = u
    BY <1>1, <1>2, AnyAssumption DEF Unroll
  <2> DEFINE a == 1
  <2>2. a \in Nat \ {0} /\ n \in 0..Len(bs) /\ a <= n + 1 /\ bs \in Seq(S)
    BY <1>1, <1>2
  <2> HIDE DEF a
  <2>3. /\ SubSeq(bs, a, n) \in Seq(S)
        /\ Len(SubSeq(bs, a, n)) = n - a + 1
        /\ \A i \in 1..(n - a + 1) : SubSeq(bs, a, n)[i] = bs[a + i - 1]
    BY <2>2, PartOf, Zenon
  <2>4. u = SubSeq(bs, a, n)
    BY <1>1 DEF a
  <2>5. /\ Len(u) = n - 1 + 1
        /\ \A i \in 1..(n - 1 + 1) : u[i] = bs[1 + i - 1]
    BY <2>3, <2>4 DEF a
  <2> HIDE DEF u
  <2> QED
    BY <1>1, <2>1, <2>5
<1> HIDE DEF u
<1>4. bs = [i \in 1..2 |-> bs[i]]
  OBVIOUS
<1>5. AsPair(u) = [i \in 1..2 |-> bs[i]]
  BY <1>3 DEF AsPair
<1> QED
  BY <1>3, <1>4, <1>5

(* An array of no buffers shows no bytes.                                  *)
LEMMA NoneShown == data_ = <<>> => SeenInput = <<>>
BY DEF SeenInput, AsPair, PairBytes, PairSize, Region

LEMMA ArraysShow ==
  ASSUME N > 1
  PROVE  Inv /\ ArraysInv => CopiesAreCurrent
<1> SUFFICES ASSUME Inv, ArraysInv PROVE CopiesAreCurrent
  OBVIOUS
<1> DEFINE R == [pos : 0..cap_, len : 0..cap_]
<1>1. data \in [1..2 -> R]
  <2>1. cap_ \in Nat /\ in_pos_ \in Nat /\ in_len_ \in Nat /\ in_len_ <= cap_
        /\ (in_pos_ < cap_ \/ in_pos_ = 0)
    BY CountersFit
  <2>2. RingPair(in_pos_, in_len_) \in [1..2 -> R]
    BY <2>1, RingPairFits
  <2> QED
    BY <2>2 DEF data
<1>2. held \in [1..2 -> R]
  BY DEF Inv, TypeOK
<1> HIDE DEF R
<1>3. AsPair(Unroll(data)) = data /\ AsPair(Unroll(held)) = held
  BY <1>1, <1>2, PairUnrolled
<1>4. ASSUME in_len_ = 0 PROVE PairBytes(data) = <<>>
  <2>1. PairBytes(data) \in Seq(Byte) /\ Len(PairBytes(data)) = 0
    BY <1>4, InvView, CountersFit DEF View
  <2> QED
    BY <2>1, EmptySeq
<1>5. "data_" \notin behind => PairBytes(AsPair(data_)) = PairBytes(data)
  BY <1>3, <1>4, NoneShown DEF ArraysInv, SeenInput
<1> QED
  BY <1>3, <1>5, NoneShown DEF ArraysInv, CopiesAreCurrent

(* What data() and prepare() of the wrapper return stays current until a   *)
(* call on buffer() overtakes it (dynamic_buffer.hpp:149, :160), and until *)
(* the first commit() or consume() data() shows nothing of a ring that     *)
(* holds bytes (:85), for every capacity and all arrays that have room for *)
(* a pair: an array of one buffer loses the bytes behind the end of the    *)
(* storage (:92-109).                                                      *)
THEOREM AlwaysCopiesAreCurrent ==
  ASSUME N > 1
  PROVE  AnySpec => []CopiesAreCurrent
<1>1. Inv /\ ArraysInv => CopiesAreCurrent
  BY ArraysShow
<1> QED
  BY <1>1, AlwaysArraysInv, PTL

-----------------------------------------------------------------------------
(* Where the arrays are up to date, a caller who reads them sees what a    *)
(* caller of the ring sees, so that the steps of the refinement above are  *)
(* those of the wrapper too.                                               *)

LEMMA SeenIsPair ==
  ASSUME N > 1
  PROVE  Inv /\ ArraysInv /\ UpToDate =>
           SeenInput = PairBytes(data) /\ SeenOutput = PairBytes(held)
<1> SUFFICES ASSUME Inv, ArraysInv, UpToDate
             PROVE  SeenInput = PairBytes(data) /\ SeenOutput = PairBytes(held)
  OBVIOUS
<1>1. CopiesAreCurrent
  BY ArraysShow
<1>2. SeenInput = PairBytes(data)
  BY <1>1 DEF SeenInput, CopiesAreCurrent, UpToDate
<1>3. PairSize(held) = out_size_ /\ out_size_ \in Nat
  BY CountersFit DEF Inv, HeldIsOutput
<1>4. CASE PairSize(held) = 0
  <2>1. PairBytes(held) \in Seq(Byte) /\ Len(PairBytes(held)) = 0
    BY <1>3, <1>4, InvView DEF View
  <2>2. PairBytes(held) = <<>>
    BY <2>1, EmptySeq
  <2> QED
    BY <1>2, <1>4, <2>2 DEF SeenOutput
<1>5. CASE PairSize(held) # 0
  <2>1. PairSize(held) > 0
    BY <1>3, <1>5
  <2>2. AsPair(out_) = held
    BY <1>1, <2>1 DEF CopiesAreCurrent, UpToDate
  <2> QED
    BY <1>2, <1>5, <2>2 DEF SeenOutput
<1> QED
  BY <1>4, <1>5

LEMMA SeenIsPairNext ==
  ASSUME N > 1
  PROVE  (Inv /\ ArraysInv /\ UpToDate)' =>
           SeenInput' = PairBytes(data)' /\ SeenOutput' = PairBytes(held)'
<1>1. Inv /\ ArraysInv /\ UpToDate =>
        SeenInput = PairBytes(data) /\ SeenOutput = PairBytes(held)
  BY SeenIsPair
<1>2. (SeenInput = PairBytes(data) /\ SeenOutput = PairBytes(held))' =>
        SeenInput' = PairBytes(data)' /\ SeenOutput' = PairBytes(held)'
  OBVIOUS
<1> QED
  BY <1>1, <1>2, PTL

LEMMA AnyRefinesInit ==
  ASSUME N > 1
  PROVE  AnyInit /\ UpToDate => AnyAbstract!Init
<1> SUFFICES ASSUME AnyInit, UpToDate PROVE AnyAbstract!Init
  OBVIOUS
<1>1. Inv /\ ArraysInv
  BY AnyInitArraysInv
<1>2. SeenInput = PairBytes(data) /\ SeenOutput = PairBytes(held)
  BY <1>1, SeenIsPair
<1>3. Abstract!Init
  BY RefinesInit DEF AnyInit
<1> QED
  BY <1>2, <1>3 DEF AnyAbstract!Init, Abstract!Init

(* Where the two mappings agree, before and after, the two abstract        *)
(* buffers take the same steps.                                            *)
LEMMA SameSteps ==
  ASSUME SeenInput = PairBytes(data), SeenOutput = PairBytes(held),
         SeenInput' = PairBytes(data)', SeenOutput' = PairBytes(held)'
  PROVE  /\ \A n \in 0..SizeMax :
              /\ Abstract!Prepare(n) => AnyAbstract!Prepare(n)
              /\ Abstract!PrepareThrows(n) => AnyAbstract!PrepareThrows(n)
              /\ Abstract!Commit(n) => AnyAbstract!Commit(n)
              /\ Abstract!Consume(n) => AnyAbstract!Consume(n)
         /\ \A i \in 1..PairSize(held), b \in Byte :
              Abstract!Fill(i, b) => AnyAbstract!Fill(i, b)
         /\ Abstract!Next => AnyAbstract!Next
         /\ UNCHANGED Abstract!vars => UNCHANGED AnyAbstract!vars
<1>1. ASSUME NEW n \in 0..SizeMax
      PROVE  /\ Abstract!Prepare(n) => AnyAbstract!Prepare(n)
             /\ Abstract!PrepareThrows(n) => AnyAbstract!PrepareThrows(n)
             /\ Abstract!PrepareRunsOut(n) => AnyAbstract!PrepareRunsOut(n)
             /\ Abstract!Commit(n) => AnyAbstract!Commit(n)
             /\ Abstract!Consume(n) => AnyAbstract!Consume(n)
  <2>1. Abstract!Prepare(n) => AnyAbstract!Prepare(n)
    BY DEF Abstract!Prepare, AnyAbstract!Prepare
  <2>2. Abstract!PrepareThrows(n) => AnyAbstract!PrepareThrows(n)
    BY DEF Abstract!PrepareThrows, AnyAbstract!PrepareThrows
  <2>3. Abstract!PrepareRunsOut(n) => AnyAbstract!PrepareRunsOut(n)
    BY DEF Abstract!PrepareRunsOut, AnyAbstract!PrepareRunsOut
  <2>4. Abstract!Commit(n) => AnyAbstract!Commit(n)
    BY DEF Abstract!Commit, AnyAbstract!Commit,
           Abstract!Least, AnyAbstract!Least
  <2>5. Abstract!Consume(n) => AnyAbstract!Consume(n)
    BY DEF Abstract!Consume, AnyAbstract!Consume,
           Abstract!Least, AnyAbstract!Least
  <2> QED
    BY <2>1, <2>2, <2>3, <2>4, <2>5
<1>2. ASSUME NEW i, NEW b
      PROVE  Abstract!Fill(i, b) => AnyAbstract!Fill(i, b)
  BY DEF Abstract!Fill, AnyAbstract!Fill
<1>3. Abstract!Next => AnyAbstract!Next
  <2>1. Len(PairBytes(held)) = Len(SeenOutput)
    OBVIOUS
  <2>2. ~Abstract!FillLate
    BY DEF Abstract!FillLate
  <2> QED
    BY <1>1, <1>2, <2>1, <2>2 DEF Abstract!Next, AnyAbstract!Next
<1>4. UNCHANGED Abstract!vars => UNCHANGED AnyAbstract!vars
  BY DEF Abstract!vars, AnyAbstract!vars
<1> QED
  BY <1>1, <1>2, <1>3, <1>4

LEMMA AnyRefinesNext ==
  ASSUME N > 1
  PROVE  /\ Inv /\ ArraysInv /\ (Inv /\ ArraysInv)'
         /\ [AnyNext]_anyVars /\ UpToDate /\ UpToDate'
         => [AnyAbstract!Next]_(AnyAbstract!vars) /\ AnyEachCall
<1> SUFFICES ASSUME Inv, ArraysInv, (Inv /\ ArraysInv)', [AnyNext]_anyVars,
                    UpToDate, UpToDate'
             PROVE  /\ AnyAbstract!Next \/ UNCHANGED AnyAbstract!vars
                    /\ AnyEachCall
  OBVIOUS
<1>1. /\ SeenInput = PairBytes(data) /\ SeenOutput = PairBytes(held)
      /\ SeenInput' = PairBytes(data)' /\ SeenOutput' = PairBytes(held)'
  BY SeenIsPair, SeenIsPairNext
<1>2. [Abstract!Next]_(Abstract!vars)
  BY AnyNextIsNext, RefinesNext
<1>3. AnyAbstract!Next \/ UNCHANGED AnyAbstract!vars
  BY <1>1, <1>2, SameSteps
<1>4. AnyEachCall
  <2>1. EachCall
    BY RefinesEachCall
  <2>2. ASSUME NEW n \in 0..SizeMax
        PROVE  /\ AnyPrepare(n) => AnyAbstract!Prepare(n)
               /\ AnyPrepareThrows(n) => AnyAbstract!PrepareThrows(n)
               /\ AnyCommit(n) => AnyAbstract!Commit(n)
               /\ AnyConsume(n) => AnyAbstract!Consume(n)
    BY <1>1, <2>1, SameSteps
    DEF EachCall, AnyPrepare, AnyPrepareThrows, AnyCommit, AnyConsume
  <2>3. ASSUME NEW i \in 1..PairSize(held), NEW b \in Byte, AnyFill(i, b)
        PROVE  AnyAbstract!Fill(i, b)
    BY <1>1, <2>1, <2>3, SameSteps DEF EachCall, AnyFill
  <2> QED
    BY <2>2, <2>3 DEF AnyEachCall
<1> QED
  BY <1>3, <1>4

(* The bytes of the wrapper's own two arrays are those of a DynamicBuffer, *)
(* and each call of the wrapper is the abstract call with the same         *)
(* argument (dynamic_buffer.hpp:146-181), between states in which the      *)
(* arrays are up to date: for every capacity and all arrays that have room *)
(* for a pair.  It says nothing of the time between the construction over  *)
(* a ring that holds bytes and the first commit() or consume(), nor        *)
(* between a call on buffer() and the call that makes the array again.     *)
THEOREM AnyCircularBufferIsDynamicBuffer ==
  ASSUME N > 1
  PROVE  AnySpec => AnyImplementsDynamicBuffer
<1>1. AnyInit => (UpToDate => AnyAbstract!Init)
  BY AnyRefinesInit
<1>2. /\ Inv /\ ArraysInv /\ (Inv /\ ArraysInv)'
      /\ [AnyNext]_anyVars
      => /\ [UpToDate /\ UpToDate' => [AnyAbstract!Next]_(AnyAbstract!vars)]_anyVars
         /\ [UpToDate /\ UpToDate' => AnyEachCall]_anyVars
  BY AnyRefinesNext
<1> QED
  BY <1>1, <1>2, AlwaysArraysInv, PTL DEF AnySpec, AnyImplementsDynamicBuffer

-----------------------------------------------------------------------------
(* A copy of the ring keeps the bytes it was made with.  What it shows is  *)
(* a part of what the wrapped ring shows, and nothing but consume() of the *)
(* wrapped ring changes that: a byte is stored only behind it.             *)

(* The k-th byte of the ring, counted from the offset p.                   *)
RingAt(p, k) == IF p + k < cap_ THEN p + k ELSE p + k - cap_

RingBytes(p, n) == [i \in 1..n |-> mem[RingAt(p, i - 1)]]

CopyInv ==
  /\ copy \in [in_pos_ : Nat, in_len_ : Nat, out_size_ : Nat]
  /\ copy.in_len_ <= cap_ /\ copy.out_size_ <= cap_
  /\ copy.in_pos_ < cap_ \/ copy.in_pos_ = 0
  /\ copy.in_len_ > 0 =>
       \E d \in Nat : d + copy.in_len_ <= in_len_ /\ copy.in_pos_ = Slot(d)
  /\ besides # "copy" => copy.in_len_ = 0
  /\ kept = RingBytes(copy.in_pos_, copy.in_len_)

(* Before and after a step: the storage does not move.                     *)
LEMMA PairIsRing ==
  ASSUME cap_ \in Nat,
         NEW p \in Nat, p < cap_ \/ p = 0,
         NEW n \in Nat, n <= cap_
  PROVE  PairBytes(RingPair(p, n)) = RingBytes(p, n)
<1>1. PairSize(RingPair(p, n)) = n
  BY RingPairFits
<1>2. \A i \in 1..n : PairAt(RingPair(p, n), i) = RingAt(p, i - 1)
  <2> SUFFICES ASSUME NEW i \in 1..n
               PROVE  PairAt(RingPair(p, n), i) = RingAt(p, i - 1)
    OBVIOUS
  <2>1. PairAt(RingPair(p, n), i) =
          IF p + i - 1 < cap_ THEN p + i - 1 ELSE p + i - 1 - cap_
    BY RingPairAt
  <2> QED
    BY <2>1 DEF RingAt
<1> QED
  BY <1>1, <1>2 DEF PairBytes, RingBytes

LEMMA CopyShows ==
  Inv /\ CopyInv => CopyKeepsBytes
<1> SUFFICES ASSUME Inv, CopyInv PROVE CopyKeepsBytes
  OBVIOUS
<1> DEFINE p == copy.in_pos_
           n == copy.in_len_
<1>1. /\ cap_ \in Nat /\ p \in Nat /\ n \in Nat /\ n <= cap_
      /\ p < cap_ \/ p = 0
      /\ kept = RingBytes(p, n)
  BY CountersFit DEF CopyInv
<1> HIDE DEF p, n
<1>2. PairBytes(RingPair(p, n)) = kept
  BY <1>1, PairIsRing
<1> QED
  BY <1>2 DEF p, n, CopyKeepsBytes

(* A copy made now shows what the ring shows.                              *)
LEMMA CopyMade ==
  ASSUME Inv
  PROVE  /\ Counters \in [in_pos_ : Nat, in_len_ : Nat, out_size_ : Nat]
         /\ Counters.in_len_ <= cap_ /\ Counters.out_size_ <= cap_
         /\ Counters.in_pos_ < cap_ \/ Counters.in_pos_ = 0
         /\ Counters.in_len_ > 0 =>
              \E d \in Nat :
                d + Counters.in_len_ <= in_len_ /\ Counters.in_pos_ = Slot(d)
         /\ PairBytes(data) = RingBytes(Counters.in_pos_, Counters.in_len_)
<1>1. /\ cap_ \in Nat /\ in_pos_ \in Nat /\ in_len_ \in Nat
      /\ out_size_ \in Nat /\ in_len_ + out_size_ <= cap_
      /\ in_pos_ < cap_ \/ in_pos_ = 0
  BY CountersFit
<1>2. PairBytes(data) = RingBytes(in_pos_, in_len_)
  BY <1>1, PairIsRing DEF data
<1>3. in_len_ > 0 => 0 + in_len_ <= in_len_ /\ in_pos_ = Slot(0)
  BY <1>1 DEF Slot
<1> QED
  BY <1>1, <1>2, <1>3 DEF Counters

(* A copy that shows nothing.                                              *)
LEMMA EmptyRing ==
  ASSUME NEW p PROVE RingBytes(p, 0) = <<>> /\ RingBytes(p, 0)' = <<>>
BY DEF RingBytes

LEMMA AnyInitCopyInv == AnyInit => CopyInv
<1> SUFFICES ASSUME AnyInit PROVE CopyInv
  OBVIOUS
<1>1. Inv /\ cap_ \in Nat
  BY InitInv, CountersFit DEF AnyInit
<1>2. CASE besides = "copy"
  <2>1. copy = Counters /\ kept = PairBytes(data)
    BY <1>2 DEF AnyInit
  <2> QED
    BY <1>1, <1>2, <2>1, CopyMade DEF CopyInv
<1>3. CASE besides # "copy"
  <2>1. copy = NoCounters /\ kept = <<>>
    BY <1>3 DEF AnyInit
  <2> QED
    BY <1>1, <2>1, EmptyRing DEF CopyInv, NoCounters
<1> QED
  BY <1>2, <1>3

(* A store changes no readable byte: the writable ones are other slots.    *)
LEMMA ReadableStays ==
  ASSUME Inv, [Next]_vars, in_len_' >= in_len_, NEW k \in Nat, k < in_len_
  PROVE  mem'[Slot(k)] = mem[Slot(k)]
<1>1. /\ cap_ \in Nat /\ in_len_ \in Nat /\ out_size_ \in Nat
      /\ in_len_ + out_size_ <= cap_ /\ mem \in [0..cap_ - 1 -> Byte]
  BY CountersFit
<1>2. ASSUME NEW j \in 1..PairSize(held), NEW b \in Byte, Fill(j, b)
      PROVE  mem'[Slot(k)] = mem[Slot(k)]
  <2>1. PairAt(held, j) = Slot(in_len_ + j - 1) /\ j \in 1..out_size_
    BY HeldAt
  <2>2. PICK t \in Nat : t = in_len_ + j - 1
    BY <1>1, <2>1
  <2>3. t < cap_ /\ k < cap_ /\ k # t
    BY <1>1, <2>1, <2>2
  <2>4. Slot(k) # Slot(t) /\ Slot(k) \in 0..cap_ - 1
    BY <2>3, SlotsDiffer, SlotsFit
  <2>5. mem' = [mem EXCEPT ![Slot(t)] = b]
    BY <1>2, <2>1, <2>2 DEF Fill
  <2> QED
    BY <1>1, <2>4, <2>5
<1>3. ASSUME NEW n \in 0..SizeMax,
             \/ Prepare(n) \/ PrepareThrows(n) \/ PrepareTraps(n)
             \/ Commit(n) \/ Consume(n)
      PROVE  mem' = mem
  BY <1>3 DEF Prepare, PrepareThrows, PrepareTraps, Commit, Consume,
              ConsumeSome, ConsumeAll
<1> QED
  BY <1>2, <1>3 DEF Next, vars

(* So a copy keeps what it shows over a step that consumes nothing.        *)
LEMMA CopyStays ==
  ASSUME Inv, CopyInv, [Next]_vars, UNCHANGED <<copy, kept, besides>>,
         cap_' = cap_, copy.in_len_ > 0 => in_len_' >= in_len_
  PROVE  CopyInv'
<1> DEFINE p == copy.in_pos_
           n == copy.in_len_
<1>1. /\ cap_ \in Nat /\ in_pos_ \in Nat /\ in_len_ \in Nat /\ in_len_ <= cap_
      /\ in_pos_ < cap_ \/ in_pos_ = 0
      /\ p \in Nat /\ n \in Nat /\ n <= cap_
      /\ n > 0 => in_len_' >= in_len_
      /\ kept = RingBytes(p, n)
  BY CountersFit DEF CopyInv
<1>2. CASE n = 0
  BY <1>1, <1>2, EmptyRing DEF CopyInv, RingBytes
<1>3. CASE n > 0
  <2>1. PICK d \in Nat : d + n <= in_len_ /\ p = Slot(d)
    BY <1>3 DEF CopyInv
  <2>2. in_len_ > 0 /\ in_len_' >= in_len_
    BY <1>1, <1>3, <2>1
  <2>3. in_pos_' = in_pos_
    BY <2>2, PositionStays
  <2>4. in_len_' \in Nat
    BY NextInv, SizesAssumption DEF Inv, TypeOK
  <2>5. d + n <= in_len_' /\ p = Slot(d)'
    <3>1. Slot(d)' = Slot(d)
      BY <2>3 DEF Slot
    <3> HIDE DEF n, p
    <3> QED
      BY <1>1, <2>1, <2>2, <2>4, <3>1
  <2>6. RingBytes(p, n)' = RingBytes(p, n)
    <3> HIDE DEF n, p
    <3>1. ASSUME NEW i \in 1..n
          PROVE  mem'[RingAt(p, i - 1)'] = mem[RingAt(p, i - 1)]
      <4>1. PICK k \in Nat : k = d + (i - 1)
        BY <1>1
      <4>2. k < in_len_
        BY <1>1, <2>1, <4>1
      <4>3. RingAt(p, i - 1) = Slot(k)
        <5>1. in_pos_ + k < 2 * cap_
          BY <1>1, <4>2
        <5> QED
          BY <5>1, <1>1, <2>1, <4>1, <4>2 DEF RingAt, Slot
      <4>4. mem'[Slot(k)] = mem[Slot(k)]
        BY <2>2, <4>2, ReadableStays
      <4> QED
        BY <4>3, <4>4 DEF RingAt, p
    <3> QED
      BY <3>1 DEF RingBytes, p, n
  <2> QED
    BY <1>1, <2>5, <2>6 DEF CopyInv
<1> QED
  BY <1>1, <1>2, <1>3

LEMMA RingBytesFit ==
  ASSUME Inv,
         NEW p \in Nat, p < cap_ \/ p = 0,
         NEW n \in Nat, n <= cap_
  PROVE  /\ RingBytes(p, n) \in Seq(Byte)
         /\ Len(RingBytes(p, n)) = n
         /\ \A i \in 1..n : RingBytes(p, n)[i] = mem[RingAt(p, i - 1)]
<1>1. cap_ \in Nat /\ mem \in [0..cap_ - 1 -> Byte]
  BY CountersFit
<1>2. \A i \in 1..n : mem[RingAt(p, i - 1)] \in Byte
  <2> SUFFICES ASSUME NEW i \in 1..n PROVE mem[RingAt(p, i - 1)] \in Byte
    OBVIOUS
  <2>1. RingAt(p, i - 1) \in 0..cap_ - 1
    BY <1>1 DEF RingAt
  <2> QED
    BY <1>1, <2>1
<1>3. RingBytes(p, n) \in [1..n -> Byte]
  BY <1>2 DEF RingBytes
<1> QED
  BY <1>3 DEF RingBytes

(* consume() of the copy drops the first bytes that it shows.              *)
LEMMA RingDrops ==
  ASSUME Inv,
         NEW p \in Nat, p < cap_,
         NEW n \in Nat, n <= cap_,
         NEW m \in Nat, m < n
  PROVE  SubSeq(RingBytes(p, n), m + 1, Len(RingBytes(p, n))) =
           RingBytes((p + m) % cap_, n - m)
<1> DEFINE s == RingBytes(p, n)
           q == (p + m) % cap_
           a == m + 1
           l == n - m
<1>1. cap_ \in Nat /\ m <= cap_
  BY CountersFit
<1>2. q = IF p + m < cap_ THEN p + m ELSE p + m - cap_
  BY <1>1, ModOnce, Zenon
<1> HIDE DEF q
<1>3. q \in Nat /\ q < cap_
  BY <1>1, <1>2
<1>4. /\ s \in Seq(Byte) /\ Len(s) = n
      /\ \A i \in 1..n : s[i] = mem[RingAt(p, i - 1)]
  BY RingBytesFit
<1>5. l \in Nat /\ l <= cap_
  BY <1>1
<1>6. /\ s \in Seq(Byte) /\ a \in Nat \ {0} /\ n \in 0..Len(s) /\ a <= n + 1
  BY <1>1, <1>4
<1> HIDE DEF s, a, l
<1>7. /\ SubSeq(s, a, n) \in Seq(Byte)
      /\ Len(SubSeq(s, a, n)) = n - a + 1
      /\ \A i \in 1..(n - a + 1) : SubSeq(s, a, n)[i] = s[a + i - 1]
  BY <1>6, PartOf, Zenon
<1>8. /\ RingBytes(q, l) \in Seq(Byte)
      /\ Len(RingBytes(q, l)) = l
      /\ \A i \in 1..l : RingBytes(q, l)[i] = mem[RingAt(q, i - 1)]
  BY <1>3, <1>5, RingBytesFit
<1>9. n - a + 1 = l
  BY DEF a, l
<1>10. ASSUME NEW i \in 1..l
      PROVE  SubSeq(s, a, n)[i] = RingBytes(q, l)[i]
  <2>1. SubSeq(s, a, n)[i] = s[a + i - 1]
    BY <1>7, <1>9, <1>10
  <2>2. s[a + i - 1] = mem[RingAt(p, a + i - 1 - 1)]
    BY <1>4, <1>5, <1>10 DEF a, l
  <2>3. RingAt(p, a + i - 1 - 1) = RingAt(q, i - 1)
    BY <1>1, <1>2, <1>5, <1>10 DEF RingAt, a, l
  <2> QED
    BY <1>8, <2>1, <2>2, <2>3
<1>11. SubSeq(s, a, n) = RingBytes(q, l)
  BY <1>7, <1>8, <1>9, <1>10, SeqEqual
<1> QED
  BY <1>4, <1>11 DEF s, q, a, l

LEMMA CopyConsumeStep ==
  ASSUME Inv, CopyInv, NEW m \in 0..SizeMax, CopyConsume(m), UNCHANGED besides
  PROVE  CopyInv'
<1> DEFINE p == copy.in_pos_
           n == copy.in_len_
<1>1. /\ cap_ \in Nat /\ in_pos_ \in Nat /\ in_len_ \in Nat /\ in_len_ <= cap_
      /\ in_pos_ < cap_ \/ in_pos_ = 0
      /\ p \in Nat /\ n \in Nat /\ n <= cap_ /\ m \in Nat
      /\ p < cap_ \/ p = 0
      /\ kept = RingBytes(p, n)
      /\ copy.out_size_ \in Nat /\ copy.out_size_ <= cap_
  BY CountersFit, SizesAssumption DEF CopyInv
<1>2. /\ \A r, k : RingBytes(r, k)' = RingBytes(r, k)
      /\ \A k : Slot(k)' = Slot(k)
      /\ cap_' = cap_ /\ in_len_' = in_len_
  BY DEF CopyConsume, vars, RingBytes, RingAt, Slot
<1>3. CASE m < n
  <2> DEFINE q == (p + m) % cap_
  <2>1. p < cap_ /\ m <= cap_
    BY <1>1, <1>3
  <2>2. copy' = [in_pos_ |-> q, in_len_ |-> n - m, out_size_ |-> copy.out_size_]
    BY <1>3 DEF CopyConsume, CopyInv
  <2>3. kept' = RingBytes(q, n - m)
    BY <1>1, <1>3, <2>1, RingDrops DEF CopyConsume
  <2>4. q = IF p + m < cap_ THEN p + m ELSE p + m - cap_
    BY <1>1, <2>1, ModOnce, Zenon
  <2>5. PICK d \in Nat : d + n <= in_len_ /\ p = Slot(d)
    BY <1>1, <1>3 DEF CopyInv
  <2> HIDE DEF p, n, q
  <2>6. q \in Nat /\ q < cap_
    BY <1>1, <2>1, <2>4
  <2>7. PICK e \in Nat : e = d + m
    BY <1>1
  <2>8. e + (n - m) <= in_len_ /\ q = Slot(e)
    <3>1. d < cap_ /\ e < cap_ /\ in_pos_ < cap_
      BY <1>1, <1>3, <2>1, <2>5, <2>7
    <3> QED
      BY <1>1, <1>3, <2>1, <2>4, <2>5, <2>7, <3>1 DEF Slot
  <2>9. n - m \in Nat /\ n - m <= cap_
    BY <1>1, <1>3
  <2>10. besides' # "copy" => n - m = 0
    BY <1>1, <1>3 DEF CopyInv, n
  <2> QED
    BY <1>1, <1>2, <2>2, <2>3, <2>6, <2>8, <2>9, <2>10 DEF CopyInv
<1>4. CASE ~(m < n)
  <2> DEFINE q == IF copy.out_size_ # 0 THEN (p + n) % cap_ ELSE 0
  <2>1. copy' = [in_pos_ |-> q, in_len_ |-> 0, out_size_ |-> copy.out_size_]
    BY <1>4 DEF CopyConsume, CopyInv
  <2>2. kept' = <<>>
    <3>1. kept \in Seq(Byte) /\ Len(kept) = n
      BY <1>1, RingBytesFit
    <3> HIDE DEF n
    <3>2. SubSeq(kept, m + 1, Len(kept)) = <<>>
      BY <1>1, <1>4, <3>1, Dropped
    <3> QED
      BY <3>2 DEF CopyConsume
  <2>3. q \in Nat /\ (q < cap_ \/ q = 0)
    <3>1. CASE copy.out_size_ # 0
      <4>1. p < cap_
        BY <1>1, <3>1
      <4>2. (p + n) % cap_ = IF p + n < cap_ THEN p + n ELSE p + n - cap_
        BY <1>1, <4>1, ModOnce, Zenon
      <4> QED
        BY <1>1, <3>1, <4>1, <4>2
    <3>2. CASE copy.out_size_ = 0
      BY <3>2
    <3> QED
      BY <3>1, <3>2
  <2> HIDE DEF q
  <2>4. kept' = RingBytes(copy.in_pos_, copy.in_len_)'
    BY <2>1, <2>2 DEF RingBytes
  <2>5. besides' # "copy" => copy'.in_len_ = 0
    BY <2>1
  <2> QED
    BY <1>1, <1>2, <2>1, <2>3, <2>4, <2>5 DEF CopyInv
<1> QED
  BY <1>3, <1>4

LEMMA AnyNextCopyInv ==
  Inv /\ CopyInv /\ [AnyNext]_anyVars => CopyInv'
<1> SUFFICES ASSUME Inv, CopyInv, [AnyNext]_anyVars PROVE CopyInv'
  OBVIOUS
<1>1. [Next]_vars
  BY AnyNextIsNext
<1>2. cap_' = cap_
  BY <1>1
  DEF Next, Prepare, PrepareThrows, PrepareTraps, Commit, Consume, ConsumeSome,
      ConsumeAll, Fill, vars
<1>3. cap_ \in Nat /\ in_len_ \in Nat /\ in_len_' \in Nat
  BY <1>1, <1>2, NextInv, CountersFit, SizesAssumption DEF Inv, TypeOK
<1>4. CASE AnyNext /\ WrapperNext
  <2>1. CASE in_len_' < in_len_
    <3>1. copy' = NoCounters /\ kept' = <<>>
      BY <1>4, <2>1 DEF WrapperNext, CopyStands
    <3>2. kept' = RingBytes(0, 0)'
      BY <3>1, EmptyRing
    <3> QED
      BY <1>2, <1>3, <3>1, <3>2 DEF CopyInv, NoCounters
  <2>2. CASE ~(in_len_' < in_len_)
    <3>1. UNCHANGED <<copy, kept, besides>>
      BY <1>4, <2>2 DEF AnyNext, WrapperNext, CopyStands
    <3> QED
      BY <1>1, <1>2, <1>3, <2>2, <3>1, CopyStays
  <2> QED
    BY <2>1, <2>2
<1>5. CASE AnyNext /\ BufferNext
  <2>1. UNCHANGED <<copy, kept, besides>> /\ ~(copy.in_len_ > 0)
    BY <1>5 DEF AnyNext, BufferNext, CopyInv
  <2> QED
    BY <1>1, <1>2, <2>1, CopyStays
<1>6. CASE AnyNext /\ CopyNext
  <2>1. besides = "copy" /\ UNCHANGED besides
    BY <1>6 DEF AnyNext, CopyNext
  <2>2. CASE CopyRing
    <3>1. UNCHANGED <<cap_, mem, in_pos_, in_len_>>
      BY <2>2 DEF CopyRing, vars
    <3>2. /\ \A r, k : RingBytes(r, k)' = RingBytes(r, k)
          /\ \A k : Slot(k)' = Slot(k)
      BY <3>1 DEF RingBytes, RingAt, Slot
    <3>3. copy' = Counters /\ kept' = PairBytes(data)
      BY <2>2 DEF CopyRing
    <3>4. /\ copy' \in [in_pos_ : Nat, in_len_ : Nat, out_size_ : Nat]
          /\ copy'.in_len_ <= cap_' /\ copy'.out_size_ <= cap_'
          /\ copy'.in_pos_ < cap_' \/ copy'.in_pos_ = 0
          /\ copy'.in_len_ > 0 =>
               \E d \in Nat :
                 d + copy'.in_len_ <= in_len_' /\ copy'.in_pos_ = Slot(d)'
      BY <3>1, <3>2, <3>3, CopyMade
    <3>5. kept' = RingBytes(copy.in_pos_, copy.in_len_)'
      <4> DEFINE r == copy'.in_pos_
                 k == copy'.in_len_
      <4>1. kept' = RingBytes(r, k)
        BY <3>3, CopyMade
      <4> QED
        BY <3>1, <4>1 DEF RingBytes, RingAt
    <3> QED
      BY <2>1, <3>4, <3>5 DEF CopyInv
  <2>3. ASSUME NEW m \in 0..SizeMax, CopyConsume(m)
        PROVE  CopyInv'
    BY <2>1, <2>3, CopyConsumeStep
  <2> QED
    BY <1>6, <2>2, <2>3 DEF CopyNext
<1>7. CASE UNCHANGED anyVars
  <2>1. UNCHANGED <<copy, kept, besides, in_len_>>
    BY <1>7 DEF anyVars, vars
  <2> QED
    BY <1>1, <1>2, <1>3, <2>1, CopyStays
<1> QED
  BY <1>4, <1>5, <1>6, <1>7 DEF AnyNext

(* A copy of the ring shows the bytes it was made with                     *)
(* (circular_buffer.hpp:54, :85), whatever the other prepares, stores and  *)
(* commits, and wherever the copy has got to: for every capacity.          *)
THEOREM AlwaysCopyKeepsBytes == AnySpec => []CopyKeepsBytes
<1>1. AnyInit => Inv /\ CopyInv
  BY InitInv, AnyInitCopyInv DEF AnyInit
<1>2. Inv /\ CopyInv /\ [AnyNext]_anyVars => (Inv /\ CopyInv)'
  BY AnyNextIsNext, NextInv, AnyNextCopyInv
<1>3. Inv /\ CopyInv => CopyKeepsBytes
  BY CopyShows
<1> QED
  BY <1>1, <1>2, <1>3, PTL DEF AnySpec
=============================================================================
