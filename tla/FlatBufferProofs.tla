-------------------------- MODULE FlatBufferProofs --------------------------
(***************************************************************************)
(* What FlatBuffer promises about memory, for every capacity and every     *)
(* order of calls, late stores and a copy of the buffer included.          *)
(*                                                                         *)
(* The inductive invariant is Inv of FlatBuffer: everything follows from   *)
(* the order in storage of what a copy shows, the readable bytes and the   *)
(* buffer that prepare() returned.                                         *)
(***************************************************************************)
EXTENDS FlatBuffer, SequenceLemmas

(* The calls of the buffer itself, without what becomes of a copy.         *)
BufferCall ==
  \/ \E n \in 0..SizeMax :
       Prepare(n) \/ PrepareThrows(n) \/ Commit(n) \/ Consume(n)
  \/ \E i \in 1..held.len, b \in Byte : Fill(i, b)

(* The part of Inv that does not mention the copy.                         *)
BufferInv ==
  /\ cap_ \in Caps /\ mem \in [0..cap_ - 1 -> Byte]
  /\ in_pos_ \in 0..cap_ /\ in_size_ \in 0..cap_ /\ out_size_ \in 0..cap_
  /\ held \in [pos : 0..cap_, len : 0..cap_] /\ drained \in BOOLEAN
  /\ outcome \in {"returned", "invalid_argument"}
  /\ BuffersInStorage /\ EmptyOffersEverything /\ HeldIsOutput

(* And the part that does.                                                 *)
CopyInv ==
  /\ copy \in [pos : 0..cap_, len : 0..cap_] /\ kept \in Seq(Byte)
  /\ CopyBehind

LEMMA InvParts == Inv <=> BufferInv /\ CopyInv
BY DEF Inv, TypeOK, BufferInv, CopyInv

(* The facts about the counters that all of the following uses.            *)
LEMMA Sizes ==
  BufferInv =>
    /\ cap_ \in Nat /\ in_pos_ \in Nat /\ in_size_ \in Nat /\ out_size_ \in Nat
    /\ in_pos_ + in_size_ + out_size_ <= cap_
    /\ held.pos \in Nat /\ held.len \in Nat /\ held.pos + held.len <= cap_
    /\ mem \in [0..cap_ - 1 -> Byte]
BY FlatAssumption DEF BufferInv, BuffersInStorage

(* The bytes of a region of the storage, byte by byte.                     *)
LEMMA BytesOf ==
  ASSUME cap_ \in Nat, mem \in [0..cap_ - 1 -> Byte],
         NEW r \in [pos : Nat, len : Nat], r.pos + r.len <= cap_ \/ r.len = 0
  PROVE  /\ RegionBytes(r) \in Seq(Byte)
         /\ RegionBytes(r) \in [1..r.len -> Byte]
         /\ Len(RegionBytes(r)) = r.len
         /\ \A i \in 1..r.len : RegionBytes(r)[i] = mem[r.pos + i - 1]
<1>1. \A i \in 1..r.len : mem[r.pos + i - 1] \in Byte
  OBVIOUS
<1>2. RegionBytes(r) \in [1..r.len -> Byte]
  BY <1>1 DEF RegionBytes
<1>3. r.len \in Nat
  OBVIOUS
<1>4. RegionBytes(r) \in Seq(Byte) /\ Len(RegionBytes(r)) = r.len
  <2> DEFINE s == RegionBytes(r)
  <2>1. s \in [1..r.len -> Byte]
    BY <1>2
  <2> HIDE DEF s
  <2> QED
    BY <1>3, <2>1 DEF s
<1> QED
  BY <1>2, <1>4 DEF RegionBytes

-----------------------------------------------------------------------------
(* The invariant.                                                          *)

LEMMA InitInv == Init => Inv
<1> SUFFICES ASSUME Init PROVE Inv
  OBVIOUS
<1>1. cap_ \in Nat
  BY FlatAssumption DEF Init
<1>2. kept \in Seq(Byte)
  BY DEF Init
<1>3. HeldIsOutput
  BY DEF Init, HeldIsOutput, NoRegion, Region
<1>4. drained \in BOOLEAN
  BY DEF Init
<1> QED
  BY <1>1, <1>2, <1>3, <1>4 DEF Init, Inv, TypeOK, BuffersInStorage,
     EmptyOffersEverything, capacity, CopyBehind, NoRegion, Region

LEMMA CallInv == BufferInv /\ BufferCall => BufferInv'
<1> SUFFICES ASSUME BufferInv, BufferCall PROVE BufferInv'
  OBVIOUS
<1> USE Sizes, FlatAssumption
    DEF BufferInv, BuffersInStorage, EmptyOffersEverything, HeldIsOutput, capacity
<1>1. ASSUME NEW n \in 0..SizeMax, Prepare(n) PROVE BufferInv'
  <2>1. HeldIsOutput'
    BY <1>1 DEF Prepare, Region
  <2>2. drained' \in BOOLEAN
    BY <1>1 DEF Prepare
  <2> HIDE DEF HeldIsOutput
  <2> QED
    BY <1>1, <2>1, <2>2 DEF Prepare, Region
<1>2. ASSUME NEW n \in 0..SizeMax, PrepareThrows(n) PROVE BufferInv'
  BY <1>2 DEF PrepareThrows
<1>3. ASSUME NEW n \in 0..SizeMax, Commit(n) PROVE BufferInv'
  <2>1. HeldIsOutput'
    BY <1>3 DEF Commit, NoRegion, Region
  <2>2. drained' \in BOOLEAN
    BY <1>3 DEF Commit
  <2> HIDE DEF HeldIsOutput
  <2> QED
    BY <1>3, <2>1, <2>2 DEF Commit, NoRegion, Region
<1>4. ASSUME NEW n \in 0..SizeMax, ConsumeSome(n) PROVE BufferInv'
  <2>1. /\ n \in Nat /\ n < in_size_
        /\ in_pos_' = in_pos_ + n /\ in_size_' = in_size_ - n
        /\ UNCHANGED <<cap_, mem, out_size_, held, drained>> /\ outcome' = "returned"
    BY <1>4 DEF ConsumeSome
  <2>2. in_pos_' \in 0..cap_ /\ in_size_' \in 0..cap_ /\ in_size_' # 0
    BY <2>1
  <2>3. BuffersInStorage' /\ EmptyOffersEverything'
    BY <2>1, <2>2
  <2>4. HeldIsOutput'
    BY <2>1
  <2> QED
    BY <2>1, <2>2, <2>3, <2>4
<1>5. ASSUME NEW n \in 0..SizeMax, ConsumeAll(n) PROVE BufferInv'
  <2>1. /\ in_pos_' = 0 /\ in_size_' = 0 /\ drained' = (in_size_ > 0 \/ drained)
        /\ UNCHANGED <<cap_, mem, out_size_, held>> /\ outcome' = "returned"
    BY <1>5 DEF ConsumeAll
  <2>5. /\ drained' \in BOOLEAN
        /\ in_size_ > 0 \/ drained => drained'
        /\ drained' => in_size_ > 0 \/ drained
    BY <2>1, Zenon
  <2>2. BuffersInStorage' /\ EmptyOffersEverything'
    BY <2>1
  <2>3. HeldIsOutput'
    <3>1. /\ in_pos_' = 0 /\ in_size_' = 0
          /\ out_size_' = out_size_ /\ held' = held
      BY <2>1
    <3>2. ASSUME drained' PROVE out_size_ > 0 => held.pos > 0
      BY <2>5, <3>2
    <3>3. ASSUME ~drained' PROVE out_size_ > 0 => held.pos = 0
      <4>1. in_size_ = 0 /\ ~drained
        BY <2>5, <3>3
      <4> QED
        BY <4>1
    <3> QED
      BY <3>1, <3>2, <3>3
  <2>4. in_pos_' \in 0..cap_ /\ in_size_' \in 0..cap_
    BY <2>1
  <2> HIDE DEF BuffersInStorage, EmptyOffersEverything, HeldIsOutput
  <2> QED
    BY <2>1, <2>2, <2>3, <2>4, <2>5
<1>6. ASSUME NEW i \in 1..held.len, NEW b \in Byte, Fill(i, b) PROVE BufferInv'
  BY <1>6 DEF Fill
<1> QED
  BY <1>1, <1>2, <1>3, <1>4, <1>5, <1>6 DEF BufferCall, Consume

(* What lies in front of the end of the readable bytes still does after a  *)
(* call, unless the call drains the buffer.                                *)
LEMMA EndMovesOn ==
  ASSUME BufferInv, BufferCall, in_size_ > 0, in_size_' # 0,
         NEW e \in Nat, e <= in_pos_ + in_size_
  PROVE  in_size_' > 0 /\ e <= in_pos_' + in_size_'
<1> USE Sizes, FlatAssumption
<1>1. ASSUME NEW n \in 0..SizeMax, Commit(n)
      PROVE  in_size_' > 0 /\ e <= in_pos_' + in_size_'
  <2>1. n \in Nat
    OBVIOUS
  <2>2. PICK m \in Nat : in_size_' = in_size_ + m
    BY <1>1, <2>1 DEF Commit
  <2>3. in_pos_' = in_pos_
    BY <1>1 DEF Commit
  <2> QED
    BY <2>2, <2>3
<1>2. ASSUME NEW n \in 0..SizeMax, Consume(n)
      PROVE  in_size_' > 0 /\ e <= in_pos_' + in_size_'
  <2>1. ConsumeSome(n)
    BY <1>2 DEF Consume, ConsumeAll
  <2>2. n \in Nat /\ n < in_size_ /\ in_pos_' = in_pos_ + n /\ in_size_' = in_size_ - n
    BY <2>1 DEF ConsumeSome
  <2> QED
    BY <2>2
<1>3. ASSUME in_pos_' = in_pos_, in_size_' = in_size_
      PROVE  in_size_' > 0 /\ e <= in_pos_' + in_size_'
  BY <1>3
<1> QED
  BY <1>1, <1>2, <1>3 DEF BufferCall, Prepare, PrepareThrows, Fill

LEMMA NextInv == Inv /\ [Next]_vars => Inv'
<1> SUFFICES ASSUME Inv, [Next]_vars PROVE Inv'
  OBVIOUS
<1>1. BufferInv /\ CopyInv
  BY InvParts
<1>2. cap_ \in Nat /\ in_pos_ \in Nat /\ in_size_ \in Nat /\ in_pos_ + in_size_ <= cap_
  BY <1>1, Sizes
<1>3. CASE BufferCall /\ CopyStands
  <2>1. BufferInv'
    BY <1>1, <1>3, CallInv
  <2>2. cap_' = cap_
    BY <1>3 DEF BufferCall, Prepare, PrepareThrows, Commit, Consume, ConsumeSome,
       ConsumeAll, Fill
  <2>3. CASE in_size_' = 0
    <3>1. copy' = Region(0, 0) /\ kept' = <<>>
      BY <1>3, <2>3 DEF CopyStands, NoRegion
    <3> QED
      BY <1>2, <2>1, <2>2, <3>1, InvParts DEF CopyInv, CopyBehind, Region, Inv, TypeOK, BufferInv
  <2>4. CASE in_size_' # 0
    <3>1. copy' = copy /\ kept' = kept
      BY <1>3, <2>4 DEF CopyStands
    <3>2. CopyBehind'
      <4> SUFFICES ASSUME copy.len > 0
                   PROVE  in_size_' > 0 /\ copy.pos + copy.len <= in_pos_' + in_size_'
        BY <3>1 DEF CopyBehind
      <4>1. in_size_ > 0 /\ copy.pos + copy.len <= in_pos_ + in_size_
        BY <1>1 DEF CopyInv, CopyBehind
      <4>2. copy.pos + copy.len \in Nat
        BY <1>1, <1>2 DEF CopyInv
      <4> QED
        BY <1>1, <1>3, <2>4, <4>1, <4>2, EndMovesOn
    <3> QED
      BY <1>1, <2>1, <2>2, <3>1, <3>2 DEF CopyInv, Inv, TypeOK, BufferInv
  <2> QED
    BY <2>3, <2>4
<1>4. ASSUME UNCHANGED bufVars, CopyInv' PROVE Inv'
  BY <1>1, <1>4 DEF bufVars, CopyInv, Inv, TypeOK, BufferInv, BuffersInStorage,
     EmptyOffersEverything, capacity, HeldIsOutput
<1>5. CASE Copy
  <2>1. /\ data \in [pos : Nat, len : Nat] /\ data.pos + data.len <= cap_
        /\ data = [pos |-> in_pos_, len |-> in_size_]
    BY <1>2 DEF data, Region
  <2>2. RegionBytes(data) \in Seq(Byte)
    BY <1>1, <1>2, <2>1, BytesOf, Sizes
  <2>3. CopyInv'
    BY <1>2, <1>5, <2>1, <2>2 DEF Copy, bufVars, CopyInv, CopyBehind
  <2> QED
    BY <1>4, <1>5, <2>3 DEF Copy
<1>6. ASSUME NEW n \in 0..SizeMax, CopyConsume(n) PROVE Inv'
  <2>1. n \in Nat
    BY FlatAssumption
  <2>2. kept' \in Seq(Byte)
    BY <1>1, <1>6, <2>1, Dropped DEF CopyConsume, CopyInv
  <2>3. CopyInv'
    BY <1>1, <1>2, <1>6, <2>1, <2>2
    DEF CopyConsume, bufVars, CopyInv, CopyBehind, NoRegion, Region
  <2> QED
    BY <1>4, <1>6, <2>3 DEF CopyConsume
<1>7. CASE UNCHANGED vars
  BY <1>1, <1>4, <1>7 DEF vars, bufVars, CopyInv, CopyBehind
<1> QED
  BY <1>3, <1>5, <1>6, <1>7 DEF Next, BufferCall

(* The types, and the order of all that lies in the storage                *)
(* (flat_buffer.hpp:105-154).                                              *)
THEOREM AlwaysInv == Spec => []Inv
<1>1. Init => Inv
  BY InitInv
<1>2. Inv /\ [Next]_vars => Inv'
  BY NextInv
<1> QED
  BY <1>1, <1>2, PTL DEF Spec

-----------------------------------------------------------------------------
(* A store through the buffer from prepare(), however late, hits no byte    *)
(* that data() shows (flat_buffer.hpp:99, :112), for every capacity.       *)
THEOREM AlwaysDisjoint == Spec => []ReadableWritableDisjoint
<1>1. Inv => ReadableWritableDisjoint
  <2> SUFFICES ASSUME Inv, NEW i \in 0..in_size_ - 1, NEW j \in 0..held.len - 1
               PROVE  in_pos_ + i # held.pos + j
    BY DEF ReadableWritableDisjoint
  <2>1. /\ in_pos_ \in Nat /\ in_size_ \in Nat /\ held.pos \in Nat /\ held.len \in Nat
    BY InvParts, Sizes
  <2>2. in_size_ > 0 /\ held.len > 0
    BY <2>1
  <2>3. in_pos_ + in_size_ <= held.pos
    BY <2>1, <2>2 DEF Inv, HeldIsOutput
  <2> QED
    BY <2>1, <2>3
<1> QED
  BY <1>1, AlwaysInv, PTL

(* A step that adds readable bytes adds them where prepare() said they     *)
(* would be (flat_buffer.hpp:112, :132), and it never does once everything *)
(* was consumed (:151): for every capacity.                                *)
THEOREM AlwaysCommitAppends == Spec => CommitAppendsPrepared
<1> DEFINE Appends ==
      /\ ~drained => in_pos_' + in_size_ = held.pos
      /\ drained => in_pos_' = 0 /\ in_size_ = 0 /\ held.pos > 0
<1>1. Inv /\ [Next]_vars => [in_size_' > in_size_ => Appends]_vars
  <2> SUFFICES ASSUME Inv, Next, in_size_' > in_size_
               PROVE  Appends
    OBVIOUS
  <2>1. /\ BufferInv /\ in_size_ \in Nat /\ in_pos_ \in Nat /\ out_size_ \in Nat
        /\ cap_ \in Nat /\ held.pos \in Nat
    BY InvParts, Sizes
  <2>2. ASSUME NEW n \in 0..SizeMax, Commit(n) PROVE Appends
    <3>1. n \in Nat /\ in_pos_' = in_pos_
      BY <2>2, FlatAssumption DEF Commit
    <3>2. out_size_ > 0
      BY <2>1, <2>2, <3>1 DEF Commit
    <3>3. ~drained => held.pos = in_pos_ + in_size_
      BY <3>2 DEF Inv, HeldIsOutput
    <3>4. ASSUME drained PROVE in_pos_ = 0 /\ in_size_ = 0 /\ held.pos > 0
      <4>1. in_size_ = 0 /\ held.pos > 0
        BY <3>2, <3>4 DEF Inv, HeldIsOutput
      <4> QED
        BY <2>1, <4>1 DEF Inv, EmptyOffersEverything, capacity
    <3> QED
      BY <3>1, <3>3, <3>4
  <2>3. ASSUME NEW n \in 0..SizeMax, Consume(n) PROVE FALSE
    <3>1. n \in Nat
      BY FlatAssumption
    <3>2. in_size_' = 0 \/ in_size_' = in_size_ - n
      BY <2>3 DEF Consume, ConsumeSome, ConsumeAll
    <3> QED
      BY <2>1, <3>1, <3>2
  <2>4. ASSUME in_size_' = in_size_ PROVE FALSE
    BY <2>1, <2>4
  <2> QED
    BY <2>2, <2>3, <2>4 DEF Next, Prepare, PrepareThrows, Fill, Copy, CopyConsume, bufVars
<1> QED
  BY <1>1, AlwaysInv, PTL DEF Spec, CommitAppendsPrepared

-----------------------------------------------------------------------------
(* The copy.                                                               *)

LEMMA InitCopyKeeps == Init => CopyKeepsBytes
<1> SUFFICES ASSUME Init PROVE RegionBytes(copy) = <<>>
  BY DEF Init, CopyKeepsBytes
<1> QED
  BY DEF Init, RegionBytes, NoRegion, Region

LEMMA CallCopyKeeps ==
  ASSUME Inv, CopyKeepsBytes, BufferCall, CopyStands
  PROVE  CopyKeepsBytes'
<1>1. CASE in_size_' = 0
  BY <1>1 DEF CopyStands, CopyKeepsBytes, RegionBytes, NoRegion, Region
<1>2. CASE in_size_' # 0 /\ mem' = mem
  BY <1>2 DEF CopyStands, CopyKeepsBytes, RegionBytes
<1>3. ASSUME in_size_' # 0, NEW i \in 1..held.len, NEW b \in Byte, Fill(i, b)
      PROVE  CopyKeepsBytes'
  <2>1. copy' = copy /\ kept' = kept
    BY <1>3 DEF CopyStands
  <2>2. /\ in_pos_ \in Nat /\ in_size_ \in Nat /\ held.pos \in Nat /\ held.len \in Nat
        /\ copy.pos \in Nat /\ copy.len \in Nat
    BY InvParts, Sizes DEF CopyInv
  <2>3. ASSUME NEW k \in 1..copy.len
        PROVE  mem'[copy.pos + k - 1] = mem[copy.pos + k - 1]
    <3>1. /\ in_size_ > 0 /\ copy.pos + copy.len <= in_pos_ + in_size_
          /\ in_pos_ + in_size_ <= held.pos
      BY <2>2 DEF Inv, CopyBehind, HeldIsOutput
    <3>2. copy.pos + k - 1 # held.pos + i - 1
      BY <2>2, <3>1
    <3> QED
      BY <1>3, <3>2 DEF Fill
  <2> QED
    BY <2>1, <2>3 DEF CopyKeepsBytes, RegionBytes
<1> QED
  BY <1>1, <1>2, <1>3 DEF BufferCall, Prepare, PrepareThrows, Commit, Consume,
     ConsumeSome, ConsumeAll

LEMMA ConsumeCopyKeeps ==
  ASSUME Inv, CopyKeepsBytes, NEW n \in 0..SizeMax, CopyConsume(n)
  PROVE  CopyKeepsBytes'
<1>1. n \in Nat /\ kept \in Seq(Byte) /\ mem' = mem
  BY FlatAssumption DEF Inv, TypeOK, CopyConsume, bufVars
<1>2. /\ cap_ \in Nat /\ mem \in [0..cap_ - 1 -> Byte]
      /\ copy \in [pos : Nat, len : Nat]
      /\ copy.pos + copy.len <= cap_ \/ copy.len = 0
  <2>1. BufferInv /\ CopyInv
    BY InvParts
  <2>2. cap_ \in Nat /\ in_pos_ \in Nat /\ in_size_ \in Nat /\ in_pos_ + in_size_ <= cap_
    BY <2>1, Sizes
  <2> QED
    BY <2>1, <2>2, Sizes DEF CopyInv, CopyBehind
<1>3. /\ RegionBytes(copy) = kept /\ Len(kept) = copy.len
      /\ \A i \in 1..copy.len : kept[i] = mem[copy.pos + i - 1]
  BY <1>2, BytesOf DEF CopyKeepsBytes
<1>4. CASE n < copy.len
  <2> DEFINE r == Region(copy.pos + n, copy.len - n)
  <2>0. r = Region(copy.pos + n, copy.len - n)
    OBVIOUS
  <2>1. /\ r \in [pos : Nat, len : Nat]
        /\ r.pos = copy.pos + n /\ r.len = copy.len - n
        /\ r.pos + r.len <= cap_ \/ r.len = 0
    <3>1. copy.pos + n \in Nat /\ copy.len - n \in Nat
      BY <1>1, <1>2, <1>4
    <3>2. (copy.pos + n) + (copy.len - n) <= cap_
      BY <1>1, <1>2, <1>4
    <3> QED
      BY <3>1, <3>2 DEF Region
  <2> HIDE DEF r
  <2>2. /\ RegionBytes(r) \in Seq(Byte) /\ Len(RegionBytes(r)) = copy.len - n
        /\ \A i \in 1..copy.len - n : RegionBytes(r)[i] = mem[copy.pos + n + i - 1]
    BY <1>2, <2>1, BytesOf
  <2>3. \A i \in 1..copy.len - n : RegionBytes(r)[i] = kept[i + n]
    <3> SUFFICES ASSUME NEW i \in 1..copy.len - n PROVE RegionBytes(r)[i] = kept[i + n]
      OBVIOUS
    <3>1. i + n \in 1..copy.len /\ copy.pos + (i + n) - 1 = copy.pos + n + i - 1
      BY <1>1, <1>2
    <3> QED
      BY <1>3, <2>2, <3>1
  <2>4. n \in 0..Len(kept)
    BY <1>1, <1>2, <1>3, <1>4
  <2>5. RegionBytes(r) = SubSeq(kept, n + 1, Len(kept))
    BY <1>1, <1>3, <2>2, <2>3, <2>4, PrefixDropped
  <2>6. copy' = r /\ kept' = SubSeq(kept, n + 1, Len(kept))
    BY <1>4, <2>0 DEF CopyConsume
  <2> QED
    BY <1>1, <2>5, <2>6 DEF CopyKeepsBytes, RegionBytes
<1>5. CASE n >= copy.len
  <2>1. kept' = <<>>
    BY <1>1, <1>3, <1>5, Dropped DEF CopyConsume
  <2>2. copy' = Region(0, 0)
    BY <1>1, <1>2, <1>5 DEF CopyConsume, NoRegion
  <2> QED
    BY <2>1, <2>2 DEF CopyKeepsBytes, RegionBytes, Region
<1> QED
  BY <1>1, <1>2, <1>4, <1>5

(* A copy goes on showing its bytes until the original is drained, for     *)
(* every capacity and whatever is stored meanwhile (flat_buffer.hpp:66).   *)
THEOREM AlwaysCopyKeepsBytes == Spec => []CopyKeepsBytes
<1>1. Init => CopyKeepsBytes
  BY InitCopyKeeps
<1>2. Inv /\ CopyKeepsBytes /\ [Next]_vars => CopyKeepsBytes'
  <2> SUFFICES ASSUME Inv, CopyKeepsBytes, [Next]_vars PROVE CopyKeepsBytes'
    OBVIOUS
  <2>1. CASE Copy
    BY <2>1 DEF Copy, CopyKeepsBytes, RegionBytes, bufVars
  <2>2. CASE UNCHANGED vars
    BY <2>2 DEF vars, CopyKeepsBytes, RegionBytes
  <2> QED
    BY <2>1, <2>2, CallCopyKeeps, ConsumeCopyKeeps DEF Next, BufferCall
<1> QED
  BY <1>1, <1>2, AlwaysInv, PTL DEF Spec

-----------------------------------------------------------------------------
(* flat_buffer implements DynamicBuffer.  The readable bytes are one region *)
(* of the storage and what a commit() can append is the region behind it:   *)
(* commit() joins the beginning of the one to the end of the other.  The    *)
(* caller's buffer is that region unless the buffer was drained.            *)

(* The sequences of the refinement mapping.                                *)
Input == RegionBytes(data)

Output == RegionBytes(output)

(* What they are, byte by byte.                                            *)
View ==
  /\ Input \in Seq(Byte) /\ Len(Input) = in_size_
  /\ \A i \in 1..in_size_ : Input[i] = mem[in_pos_ + i - 1]
  /\ Output \in Seq(Byte) /\ Len(Output) = out_size_
  /\ Output \in [1..out_size_ -> Byte]
  /\ \A i \in 1..out_size_ : Output[i] = mem[in_pos_ + in_size_ + i - 1]

LEMMA InvView == Inv => View
<1> SUFFICES ASSUME Inv PROVE View
  OBVIOUS
<1>1. /\ cap_ \in Nat /\ in_pos_ \in Nat /\ in_size_ \in Nat /\ out_size_ \in Nat
      /\ in_pos_ + in_size_ + out_size_ <= cap_
      /\ mem \in [0..cap_ - 1 -> Byte]
  BY InvParts, Sizes
<1>2. /\ data \in [pos : Nat, len : Nat]
      /\ data.pos = in_pos_ /\ data.len = in_size_ /\ data.pos + data.len <= cap_
  BY <1>1 DEF data, Region
<1>3. /\ Input \in Seq(Byte) /\ Len(Input) = in_size_
      /\ \A i \in 1..in_size_ : Input[i] = mem[in_pos_ + i - 1]
  BY <1>1, <1>2, BytesOf DEF Input
<1>4. /\ output \in [pos : Nat, len : Nat]
      /\ output.pos = in_pos_ + in_size_ /\ output.len = out_size_
      /\ output.pos + output.len <= cap_
  BY <1>1 DEF output, Region
<1>5. /\ Output \in Seq(Byte) /\ Len(Output) = out_size_
      /\ Output \in [1..out_size_ -> Byte]
      /\ \A i \in 1..out_size_ : Output[i] = mem[in_pos_ + in_size_ + i - 1]
  BY <1>1, <1>4, BytesOf DEF Output
<1> QED
  BY <1>3, <1>5 DEF View

LEMMA InvViewNext == Inv' => View'
BY InvView, PTL

LEMMA Facts ==
  Inv => /\ cap_ \in Nat /\ in_pos_ \in Nat /\ in_size_ \in Nat /\ out_size_ \in Nat
         /\ in_pos_ + in_size_ + out_size_ <= cap_
         /\ held.pos \in Nat /\ held.len \in Nat
BY InvParts, Sizes

LEMMA SameInput ==
  ASSUME UNCHANGED <<mem, in_pos_, in_size_>>
  PROVE  Input' = Input
BY DEF Input, RegionBytes, data, Region

LEMMA SameOutput ==
  ASSUME UNCHANGED <<mem, in_pos_, in_size_, out_size_>>
  PROVE  Output' = Output
BY DEF Output, RegionBytes, output, Region

-----------------------------------------------------------------------------
(* Each call is the abstract call with the same argument.                  *)

LEMMA PrepareStep ==
  ASSUME Inv, Inv', NEW n \in 0..SizeMax, Prepare(n)
  PROVE  Abstract!Prepare(n)
<1>1. View /\ View'
  BY InvView, InvViewNext
<1>2. /\ cap_ \in Nat /\ in_pos_ \in Nat /\ in_size_ \in Nat /\ n \in Nat
      /\ in_pos_ + in_size_ <= cap_
  BY Facts, FlatAssumption
<1>3. Len(Input) + n <= cap_
  BY <1>1, <1>2 DEF View, Prepare, capacity
<1>4. Output' \in [1..n -> Byte]
  BY <1>1 DEF View, Prepare
<1>5. Input' = Input
  BY SameInput DEF Prepare
<1> QED
  BY <1>3, <1>4, <1>5 DEF Prepare, Abstract!Prepare, Input, Output

LEMMA PrepareThrowsStep ==
  ASSUME NEW n \in 0..SizeMax, PrepareThrows(n)
  PROVE  Abstract!PrepareThrows(n)
<1>1. Input' = Input /\ Output' = Output
  BY SameInput, SameOutput DEF PrepareThrows
<1> QED
  BY <1>1 DEF PrepareThrows, Abstract!PrepareThrows, Input, Output

(* A store through the buffer from prepare() changes the one writable byte *)
(* it names; in a drained buffer it may change any that a commit() can     *)
(* append.  Readable bytes it does not change.                             *)
LEMMA FillStep ==
  ASSUME Inv, Inv', NEW j \in 1..held.len, NEW b \in Byte, Fill(j, b)
  PROVE  IF drained THEN Abstract!FillLate ELSE Abstract!Fill(j, b)
<1>1. View /\ View'
  BY InvView, InvViewNext
<1>2. /\ in_pos_ \in Nat /\ in_size_ \in Nat /\ out_size_ \in Nat
      /\ held.pos \in Nat /\ held.len = out_size_ /\ out_size_ > 0
      /\ in_pos_ + in_size_ + out_size_ <= cap_ /\ cap_ \in Nat
      /\ mem \in [0..cap_ - 1 -> Byte]
  BY InvParts, Sizes DEF Inv, HeldIsOutput
<1>3. /\ mem' = [mem EXCEPT ![held.pos + j - 1] = b]
      /\ UNCHANGED <<cap_, in_pos_, in_size_, out_size_, held, drained, outcome>>
  BY DEF Fill
<1>4. Input' = Input
  <2>1. ASSUME NEW i \in 1..in_size_
        PROVE  mem'[in_pos_ + i - 1] = mem[in_pos_ + i - 1]
    <3>1. held.pos = in_pos_ + in_size_
      BY <1>2 DEF Inv, HeldIsOutput
    <3>2. in_pos_ + i - 1 # held.pos + j - 1
      BY <1>2, <3>1
    <3> QED
      BY <1>3, <3>2
  <2> QED
    BY <1>3, <2>1 DEF Input, RegionBytes, data, Region
<1>5. CASE ~drained
  <2>1. held.pos = in_pos_ + in_size_
    BY <1>2, <1>5 DEF Inv, HeldIsOutput
  <2>2. j \in 1..Len(Output)
    BY <1>1, <1>2 DEF View
  <2>3. ASSUME NEW i \in 1..out_size_
        PROVE  Output'[i] = IF i = j THEN b ELSE Output[i]
    <3>1. /\ Output'[i] = mem'[in_pos_ + in_size_ + i - 1]
          /\ Output[i] = mem[in_pos_ + in_size_ + i - 1]
      BY <1>1, <1>3 DEF View
    <3>2. PICK x \in Nat : x = in_pos_ + in_size_ + i - 1
      BY <1>2
    <3>3. PICK y \in Nat : y = held.pos + j - 1
      BY <1>2
    <3>4. x \in 0..cap_ - 1 /\ (x = y <=> i = j)
      BY <1>2, <2>1, <3>2, <3>3
    <3>5. mem'[x] = IF x = y THEN b ELSE mem[x]
      BY <1>2, <1>3, <3>3, <3>4
    <3> QED
      BY <3>1, <3>2, <3>4, <3>5
  <2>4. Output \in [1..out_size_ -> Byte] /\ Output' \in [1..out_size_ -> Byte]
    BY <1>1, <1>3 DEF View
  <2>5. Output' = [Output EXCEPT ![j] = b]
    BY <2>3, <2>4
  <2>6. Abstract!Fill(j, b)
    BY <1>3, <1>4, <1>5, <2>2, <2>5 DEF Abstract!Fill, Input, Output
  <2> QED
    BY <1>5, <2>6
<1>6. CASE drained
  <2>1. Output' \in [1..Len(Output) -> Byte]
    BY <1>1, <1>3 DEF View
  <2>2. Abstract!FillLate
    BY <1>3, <1>4, <1>6, <2>1 DEF Abstract!FillLate, Input, Output
  <2> QED
    BY <1>6, <2>2
<1> QED
  BY <1>5, <1>6 DEF Inv, TypeOK

LEMMA CommitStep ==
  ASSUME Inv, Inv', NEW n \in 0..SizeMax, Commit(n)
  PROVE  Abstract!Commit(n)
<1>1. View /\ View'
  BY InvView, InvViewNext
<1>2. in_pos_ \in Nat /\ in_size_ \in Nat /\ out_size_ \in Nat /\ n \in Nat
  BY Facts, FlatAssumption
<1> DEFINE m == IF n < out_size_ THEN n ELSE out_size_
           s == Input
           t == Output
           u == Input'
<1>3. /\ s \in Seq(Byte) /\ Len(s) = in_size_
      /\ t \in Seq(Byte) /\ Len(t) = out_size_
  BY <1>1 DEF View
<1>4. m \in Nat /\ m <= out_size_
  BY <1>2
<1>5. in_size_' = in_size_ + m
  BY DEF Commit
<1>6. m = Abstract!Least(n, Len(t)) /\ m \in 0..Len(t)
  BY <1>2, <1>3 DEF Abstract!Least
<1> HIDE DEF m
<1>7. mem' = mem /\ in_pos_' = in_pos_
  BY DEF Commit
<1>8. /\ u \in Seq(Byte) /\ Len(u) = in_size_ + m
      /\ \A i \in 1..in_size_ + m : u[i] = mem[in_pos_ + i - 1]
  BY <1>1, <1>5, <1>7 DEF View
<1>9. \A i \in 1..in_size_ : u[i] = s[i]
  <2> SUFFICES ASSUME NEW i \in 1..in_size_ PROVE u[i] = s[i]
    OBVIOUS
  <2>1. i \in 1..in_size_ + m
    BY <1>2, <1>4
  <2> QED
    BY <1>1, <1>8, <2>1 DEF View
<1>10. \A i \in 1..m : u[in_size_ + i] = t[i]
  <2> SUFFICES ASSUME NEW i \in 1..m PROVE u[in_size_ + i] = t[i]
    OBVIOUS
  <2>1. i \in 1..out_size_
    BY <1>2, <1>4
  <2>2. PICK x \in 1..in_size_ + m : x = in_size_ + i
    BY <1>2, <1>4
  <2>3. u[x] = mem[in_pos_ + x - 1]
    BY <1>8, <2>2
  <2>4. t[i] = mem[in_pos_ + in_size_ + i - 1]
    BY <1>1, <2>1 DEF View
  <2>5. in_pos_ + in_size_ + i - 1 = in_pos_ + x - 1
    BY <1>2, <2>2
  <2> QED
    BY <2>2, <2>3, <2>4, <2>5
<1>11. Output' = <<>>
  <2>1. output' = Region(in_pos_' + in_size_', 0)
    BY DEF Commit, output
  <2> QED
    BY <2>1 DEF Output, RegionBytes, Region
<1> HIDE DEF s, t, u
<1>12. u = s \o SubSeq(t, 1, m)
  <2> DEFINE GoesOn(a, b, c, k) ==
               /\ a \in Seq(Byte) /\ b \in Seq(Byte) /\ c \in Seq(Byte)
               /\ k \in 0..Len(b) /\ Len(c) = Len(a) + k
               /\ \A i \in 1..Len(a) : c[i] = a[i]
               /\ \A i \in 1..k : c[Len(a) + i] = b[i]
  <2>1. GoesOn(s, t, u, m)
    BY <1>3, <1>6, <1>8, <1>9, <1>10
  <2>2. ASSUME NEW a, NEW b, NEW c, NEW k, GoesOn(a, b, c, k)
        PROVE  c = a \o SubSeq(b, 1, k)
    BY <2>2, PrefixAppended
  <2> HIDE DEF GoesOn
  <2> QED
    BY <2>1, <2>2
<1> QED
  BY <1>6, <1>11, <1>12 DEF s, t, u, Commit, Abstract!Commit, Input, Output

LEMMA ConsumeStep ==
  ASSUME Inv, Inv', NEW n \in 0..SizeMax, Consume(n)
  PROVE  Abstract!Consume(n)
<1>1. View /\ View'
  BY InvView, InvViewNext
<1>2. in_pos_ \in Nat /\ in_size_ \in Nat /\ n \in Nat
  BY Facts, FlatAssumption
<1> DEFINE s == Input
           u == Input'
           m == IF n < in_size_ THEN n ELSE in_size_
<1>3. s \in Seq(Byte) /\ Len(s) = in_size_ /\ u \in Seq(Byte)
  BY <1>1 DEF View
<1>4. /\ m \in 0..in_size_ /\ Len(u) = in_size_ - m
      /\ m < in_size_ => in_pos_' = in_pos_ + m
      /\ mem' = mem
  BY <1>1, <1>2 DEF View, Consume, ConsumeSome, ConsumeAll
<1>5. \A i \in 1..in_size_ - m : u[i] = s[i + m]
  <2> SUFFICES ASSUME NEW i \in 1..in_size_ - m PROVE u[i] = s[i + m]
    OBVIOUS
  <2> HIDE DEF m
  <2>1. m < in_size_ /\ in_size_' = in_size_ - m
    BY <1>1, <1>2, <1>4 DEF View
  <2>2. u[i] = mem[in_pos_' + i - 1]
    BY <1>1, <1>4, <2>1 DEF View
  <2>3. PICK x \in 1..in_size_ : x = i + m
    BY <1>2, <1>4
  <2>4. s[x] = mem[in_pos_ + x - 1]
    BY <1>1, <2>3 DEF View
  <2>5. in_pos_' + i - 1 = in_pos_ + x - 1
    BY <1>2, <1>4, <2>1, <2>3
  <2> QED
    BY <2>2, <2>3, <2>4, <2>5
<1>6. m = Abstract!Least(n, Len(s))
  BY <1>2, <1>3 DEF Abstract!Least
<1>7. IF Abstract!Drains(n)
      THEN drained' /\ Output' \in [1..Len(Output) -> Byte]
      ELSE Output' = Output /\ drained' = drained
  <2>1. Abstract!Drains(n) <=> in_size_ > 0 /\ n >= in_size_
    BY <1>3 DEF Abstract!Drains, s, Input
  <2>2. UNCHANGED <<mem, out_size_>> /\ Len(Output) = out_size_
    BY <1>1 DEF View, Consume, ConsumeSome, ConsumeAll
  <2>3. CASE Abstract!Drains(n)
    <3>1. ConsumeAll(n)
      BY <1>2, <2>1, <2>3 DEF Consume, ConsumeSome
    <3>2. drained'
      BY <2>1, <2>3, <3>1 DEF ConsumeAll
    <3> QED
      BY <1>1, <2>2, <2>3, <3>2 DEF View
  <2>4. CASE n < in_size_
    <3>1. ConsumeSome(n)
      BY <1>2, <2>4 DEF Consume, ConsumeAll
    <3>2. in_pos_' + in_size_' = in_pos_ + in_size_ /\ drained' = drained
      BY <1>2, <2>4, <3>1 DEF ConsumeSome
    <3>3. output' = output
      BY <2>2, <3>2 DEF output
    <3>4. Output' = Output
      BY <2>2, <3>3 DEF Output, RegionBytes
    <3> QED
      BY <1>2, <2>1, <2>4, <3>2, <3>4
  <2>5. CASE in_size_ = 0
    <3>1. ConsumeAll(n)
      BY <1>2, <2>5 DEF Consume, ConsumeSome
    <3>2. cap_ \in Nat /\ in_pos_ = 0
      BY <1>2, <2>5, Facts DEF Inv, EmptyOffersEverything, capacity
    <3>3. in_pos_' = in_pos_ /\ in_size_' = in_size_
      BY <2>5, <3>1, <3>2 DEF ConsumeAll
    <3>4. drained' = drained
      BY <2>5, <3>1 DEF ConsumeAll, Inv, TypeOK
    <3> QED
      BY <2>1, <2>2, <2>5, <3>3, <3>4, SameOutput
  <2> QED
    BY <1>2, <2>1, <2>3, <2>4, <2>5
<1> HIDE DEF s, u, m
<1>8. u = SubSeq(s, m + 1, Len(s))
  <2>1. /\ s \in Seq(Byte) /\ u \in Seq(Byte)
        /\ m \in 0..Len(s) /\ Len(u) = Len(s) - m
        /\ \A i \in 1..Len(u) : u[i] = s[i + m]
    BY <1>3, <1>4, <1>5
  <2> QED
    BY <2>1, PrefixDropped
<1>9. outcome' = "returned" /\ cap_' = cap_
  BY DEF Consume, ConsumeSome, ConsumeAll
<1> QED
  BY <1>6, <1>7, <1>8, <1>9 DEF s, u, Input, Output, Abstract!Consume

LEMMA RefinesInit == Init => Abstract!Init
<1> SUFFICES ASSUME Init PROVE Abstract!Init
  OBVIOUS
<1>1. View /\ cap_ \in Nat /\ in_size_ <= cap_
  BY InitInv, InvView, Facts DEF Init
<1>2. Output = <<>>
  <2>1. output = Region(in_pos_ + in_size_, 0)
    BY DEF Init, output
  <2> QED
    BY <2>1 DEF Output, RegionBytes, Region
<1> QED
  BY <1>1, <1>2 DEF View, Init, Abstract!Init, Input, Output

LEMMA RefinesEachCall == Inv /\ Inv' => EachCall
<1> SUFFICES ASSUME Inv, Inv' PROVE EachCall
  OBVIOUS
<1>1. ASSUME NEW n \in 0..SizeMax
      PROVE  /\ Prepare(n) => Abstract!Prepare(n)
             /\ PrepareThrows(n) => Abstract!PrepareThrows(n)
             /\ Commit(n) => Abstract!Commit(n)
             /\ Consume(n) => Abstract!Consume(n)
  BY PrepareStep, PrepareThrowsStep, CommitStep, ConsumeStep
<1>2. ASSUME NEW j \in 1..held.len, NEW b \in Byte, Fill(j, b)
      PROVE  IF drained THEN Abstract!FillLate ELSE Abstract!Fill(j, b)
  BY <1>2, FillStep
<1> QED
  BY <1>1, <1>2 DEF EachCall

LEMMA RefinesNext ==
  Inv /\ Inv' /\ [Next]_vars => [Abstract!Next]_(Abstract!vars)
<1> SUFFICES ASSUME Inv, Inv', [Next]_vars
             PROVE  Abstract!Next \/ UNCHANGED Abstract!vars
  OBVIOUS
<1>1. EachCall
  BY RefinesEachCall
<1>2. ASSUME NEW n \in 0..SizeMax,
             Prepare(n) \/ PrepareThrows(n) \/ Commit(n) \/ Consume(n)
      PROVE  Abstract!Next
  BY <1>1, <1>2 DEF EachCall, Abstract!Next
<1>3. ASSUME NEW j \in 1..held.len, NEW b \in Byte, Fill(j, b)
      PROVE  Abstract!Next \/ UNCHANGED Abstract!vars
  <2>1. CASE drained
    BY <1>3, <2>1, FillStep DEF Abstract!Next
  <2>2. CASE ~drained
    <3>1. Abstract!Fill(j, b)
      BY <1>3, <2>2, FillStep
    <3>2. j \in 1..Len(Output)
      BY <3>1 DEF Abstract!Fill, Output
    <3> QED
      BY <3>1, <3>2 DEF Abstract!Next, Output
  <2> QED
    BY <2>1, <2>2
<1>4. CASE UNCHANGED bufVars
  <2>1. Input' = Input /\ Output' = Output
    BY <1>4, SameInput, SameOutput DEF bufVars
  <2> QED
    BY <1>4, <2>1 DEF bufVars, Abstract!vars, Input, Output
<1>5. UNCHANGED vars => UNCHANGED bufVars
  BY DEF vars, bufVars
<1> QED
  BY <1>2, <1>3, <1>4, <1>5 DEF Next, Copy, CopyConsume

(* flat_buffer is a DynamicBuffer whose output sequence survives consume() *)
(* as long as a byte is left, and whose prepare() may refuse what would    *)
(* fit, and each of its calls is the abstract call with the same argument  *)
(* (flat_buffer.hpp:98-154): for every capacity.                           *)
THEOREM FlatBufferIsDynamicBuffer == Spec => ImplementsDynamicBuffer
<1>1. Init => Abstract!Init
  BY RefinesInit
<1>2. Inv /\ Inv' /\ [Next]_vars => [Abstract!Next]_(Abstract!vars)
  BY RefinesNext
<1>3. Inv /\ Inv' => [EachCall]_vars
  BY RefinesEachCall
<1> QED
  BY <1>1, <1>2, <1>3, AlwaysInv, PTL
  DEF Spec, ImplementsDynamicBuffer, Abstract!Spec
=============================================================================
