----------------------------- MODULE FlatBuffer -----------------------------
(***************************************************************************)
(* flat_buffer: a fixed-capacity buffer whose readable and writable bytes  *)
(* are each one contiguous region of storage the caller provides.          *)
(*                                                                         *)
(* One action per member function that changes state, and one for the      *)
(* caller storing a byte through the buffer the last prepare() returned    *)
(* ("held").  Unlike circular_buffer, the class does not say what becomes  *)
(* of that buffer when consume() is called before commit(), and the        *)
(* concept invalidates it (DynamicBuffer.adoc:85-88).  Nothing in the code *)
(* stops the caller from storing through it and committing it all the      *)
(* same, so both are steps here; "drained" remembers that a consume() has  *)
(* taken the last readable byte meanwhile, and so moved the place that     *)
(* commit() appends from.                                                  *)
(*                                                                         *)
(* A copy of a flat_buffer has counters of its own over the same storage.  *)
(* The model follows one, which its owner reads and consumes from until    *)
(* the original is drained; it is then empty here.                         *)
(* Positions are offsets from data_.                                       *)
(***************************************************************************)
EXTENDS Naturals, Sequences

CONSTANTS
  Byte,          \* the values of a byte
  Caps,          \* the capacities the buffer may be constructed with
  SizeMax        \* the largest std::size_t

ASSUME FlatAssumption ==
  /\ SizeMax \in Nat
  /\ Caps \subseteq 0..SizeMax

VARIABLES
  cap_,          \* the size of the storage at data_
  mem,           \* the storage
  in_pos_,       \* offset of the first readable byte
  in_size_,      \* number of readable bytes
  out_size_,     \* number of writable bytes
  held,          \* the buffer the last prepare() returned
  drained,       \* history: the buffer was drained since that call
  outcome,       \* how the last call ended
  copy,          \* the readable bytes of a copy of the buffer
  kept           \* history: what they have still to show

bufVars == <<cap_, mem, in_pos_, in_size_, out_size_, held, drained, outcome>>

vars == <<cap_, mem, in_pos_, in_size_, out_size_, held, drained, outcome, copy, kept>>

-----------------------------------------------------------------------------
Region(p, n) == [pos |-> p, len |-> n]

NoRegion == Region(0, 0)

RegionBytes(r) == [i \in 1..r.len |-> mem[r.pos + i - 1]]

data == Region(in_pos_, in_size_)

(* MUTANT of capacity: the bytes already consumed are counted as free.     *)
capacityIgnoringPos == cap_ - in_size_

capacity == cap_ - (in_pos_ + in_size_)

-----------------------------------------------------------------------------
(* Any of the constructors that does not throw.                            *)
Init ==
  /\ cap_ \in Caps
  /\ mem \in [0..cap_ - 1 -> Byte]
  /\ in_pos_ = 0
  /\ in_size_ \in 0..cap_
  /\ out_size_ = 0
  /\ held = NoRegion
  /\ drained = FALSE
  /\ outcome = "returned"
  /\ copy = NoRegion
  /\ kept = <<>>

(* MUTANT of Prepare: the writable bytes are placed as if nothing had been *)
(* consumed.                                                               *)
PrepareAtSize(n) ==
  /\ n <= capacity
  /\ out_size_' = n
  /\ held' = Region(in_size_, n)
  /\ drained' = FALSE
  /\ outcome' = "returned"
  /\ UNCHANGED <<cap_, mem, in_pos_, in_size_>>

Prepare(n) ==
  /\ n <= capacity
  /\ out_size_' = n
  /\ held' = Region(in_pos_ + in_size_, n)
  /\ drained' = FALSE
  /\ outcome' = "returned"
  /\ UNCHANGED <<cap_, mem, in_pos_, in_size_>>

PrepareThrows(n) ==
  /\ n > capacity
  /\ outcome' = "invalid_argument"
  /\ UNCHANGED <<cap_, mem, in_pos_, in_size_, out_size_, held, drained>>

(* The caller stores a byte through the buffer it holds.                   *)
Fill(i, b) ==
  /\ i \in 1..held.len
  /\ mem' = [mem EXCEPT ![held.pos + i - 1] = b]
  /\ UNCHANGED <<cap_, in_pos_, in_size_, out_size_, held, drained, outcome>>

(* MUTANT of Commit: all of the writable bytes are committed.              *)
CommitAll(n) ==
  /\ in_size_' = in_size_ + out_size_
  /\ out_size_' = 0
  /\ held' = NoRegion
  /\ drained' = FALSE
  /\ outcome' = "returned"
  /\ UNCHANGED <<cap_, mem, in_pos_>>

Commit(n) ==
  /\ in_size_' = in_size_ + (IF n < out_size_ THEN n ELSE out_size_)
  /\ out_size_' = 0
  /\ held' = NoRegion               \* documented as invalidated
  /\ drained' = FALSE
  /\ outcome' = "returned"
  /\ UNCHANGED <<cap_, mem, in_pos_>>

(* n < in_size_: drop a prefix; its storage is not reused until the buffer *)
(* is empty.                                                               *)
ConsumeSome(n) ==
  /\ n < in_size_
  /\ in_pos_' = in_pos_ + n
  /\ in_size_' = in_size_ - n
  /\ outcome' = "returned"
  /\ UNCHANGED <<cap_, mem, out_size_, held, drained>>

(* MUTANT of ConsumeAll: the storage in front of the readable bytes is     *)
(* never reclaimed.                                                        *)
ConsumeAllAdvances(n) ==
  /\ n >= in_size_
  /\ in_pos_' = in_pos_ + in_size_
  /\ in_size_' = 0
  /\ drained' = (in_size_ > 0 \/ drained)
  /\ outcome' = "returned"
  /\ UNCHANGED <<cap_, mem, out_size_, held>>

(* Drop everything and start again at the front, prepared bytes or not.    *)
ConsumeAll(n) ==
  /\ n >= in_size_
  /\ in_pos_' = 0
  /\ in_size_' = 0
  /\ drained' = (in_size_ > 0 \/ drained)
  /\ outcome' = "returned"
  /\ UNCHANGED <<cap_, mem, out_size_, held>>

Consume(n) == ConsumeSome(n) \/ ConsumeAll(n)

-----------------------------------------------------------------------------
(* The copy constructor, or assignment to the copy.                        *)
Copy ==
  /\ copy' = data
  /\ kept' = RegionBytes(data)
  /\ UNCHANGED bufVars

(* consume() of the copy.                                                  *)
CopyConsume(n) ==
  /\ copy' = IF n < copy.len THEN Region(copy.pos + n, copy.len - n) ELSE NoRegion
  /\ kept' = SubSeq(kept, n + 1, Len(kept))
  /\ UNCHANGED bufVars

(* Its owner gives the copy up when the original is drained.               *)
CopyStands ==
  IF in_size_' = 0 THEN copy' = NoRegion /\ kept' = <<>>
                   ELSE UNCHANGED <<copy, kept>>

Next ==
  \/ /\ \/ \E n \in 0..SizeMax :
             \/ Prepare(n)
             \/ PrepareThrows(n)
             \/ Commit(n)
             \/ Consume(n)
        \/ \E i \in 1..held.len, b \in Byte : Fill(i, b)
     /\ CopyStands
  \/ Copy
  \/ \E n \in 0..SizeMax : CopyConsume(n)

Spec == Init /\ [][Next]_vars

-----------------------------------------------------------------------------
(* Properties.                                                             *)

(* The types of the variables.                                             *)
TypeOK ==
  /\ cap_ \in Caps
  /\ mem \in [0..cap_ - 1 -> Byte]
  /\ in_pos_ \in 0..cap_
  /\ in_size_ \in 0..cap_
  /\ out_size_ \in 0..cap_
  /\ held \in [pos : 0..cap_, len : 0..cap_]
  /\ drained \in BOOLEAN
  /\ outcome \in {"returned", "invalid_argument"}
  /\ copy \in [pos : 0..cap_, len : 0..cap_]
  /\ kept \in Seq(Byte)

(* Every buffer the caller can hold lies inside the storage, and no        *)
(* commit() can make capacity() (flat_buffer.hpp:93) underflow: the guard  *)
(* of prepare() suffices for any order of calls, also when consume()       *)
(* rewinds in_pos_ (:151) with bytes still to be committed.                *)
BuffersInStorage ==
  /\ in_pos_ + in_size_ + out_size_ <= cap_
  /\ held.pos + held.len <= cap_

(* A caller that stores through the buffer from prepare() never changes a  *)
(* byte that data() shows (flat_buffer.hpp:99, :112), even when it keeps   *)
(* that buffer across a consume().                                         *)
ReadableWritableDisjoint ==
  \A i \in 0..in_size_ - 1, j \in 0..held.len - 1 :
    in_pos_ + i # held.pos + j

(* A drained buffer offers its whole storage again: since prepare() never  *)
(* moves bytes to the front (flat_buffer.hpp:112), nothing else would let  *)
(* a reader that empties the buffer make progress.                         *)
EmptyOffersEverything == in_size_ = 0 => capacity = cap_

(* The buffer from prepare() lies where commit() appends from, also after  *)
(* bytes were consumed, unless the buffer was drained since: then nothing  *)
(* is readable, and it lies behind the place that commit() appends from.   *)
HeldIsOutput ==
  /\ held.len = out_size_
  /\ drained => in_size_ = 0 /\ (out_size_ > 0 => held.pos > 0)
  /\ ~drained /\ out_size_ > 0 => held.pos = in_pos_ + in_size_

(* What a copy shows lies in front of the end of the readable bytes.       *)
CopyBehind ==
  copy.len > 0 => in_size_ > 0 /\ copy.pos + copy.len <= in_pos_ + in_size_

(* What the calls keep of the counters (flat_buffer.hpp:105-154): together *)
(* these parts are inductive.                                              *)
Inv ==
  TypeOK /\ BuffersInStorage /\ EmptyOffersEverything /\ HeldIsOutput /\ CopyBehind

(* A copy of the buffer shares its storage, and nothing tells it what the  *)
(* original does (flat_buffer.hpp:66, :71).  Until the original is drained *)
(* it shows the bytes it was made with, whatever the original prepares,    *)
(* stores, commits and consumes, and wherever the copy has got to.         *)
CopyKeepsBytes == RegionBytes(copy) = kept

(* commit() appends the bytes the caller stored where prepare() said, also *)
(* when bytes were consumed in between (flat_buffer.hpp:112, :132) -- but  *)
(* only as long as a byte was left.  A consume() of everything rewinds     *)
(* in_pos_ with the prepared bytes outstanding (:151), and the next        *)
(* commit() makes other bytes readable than those that were prepared,      *)
(* always: those at the front of the storage.                              *)
CommitAppendsPrepared ==
  [][in_size_' > in_size_ =>
       /\ ~drained => in_pos_' + in_size_ = held.pos
       /\ drained => in_pos_' = 0 /\ in_size_ = 0 /\ held.pos > 0]_vars

(* The bytes that a commit() can append, wherever the caller stores.       *)
output == Region(in_pos_ + in_size_, out_size_)

(* flat_buffer implements DynamicBuffer, except that prepare() may refuse  *)
(* what would fit after moving the readable bytes to the front, and that   *)
(* a buffer which is drained forgets what was prepared.                    *)
Abstract == INSTANCE DynamicBuffer WITH
  max_size <- cap_,
  input <- RegionBytes(data),
  output <- RegionBytes(output),
  intact <- ~drained,
  PrepareError <- "invalid_argument",
  Compacts <- FALSE,
  KeepsOutput <- "unless drained",
  MayRunOut <- FALSE

(* Each call is the abstract call with the same argument: without this, a  *)
(* commit(n) that appends m bytes would pass for commit(m).                *)
EachCall ==
  /\ \A n \in 0..SizeMax :
       /\ Prepare(n) => Abstract!Prepare(n)
       /\ PrepareThrows(n) => Abstract!PrepareThrows(n)
       /\ Commit(n) => Abstract!Commit(n)
       /\ Consume(n) => Abstract!Consume(n)
  /\ \A i \in 1..held.len, b \in Byte :
       Fill(i, b) => IF drained THEN Abstract!FillLate ELSE Abstract!Fill(i, b)

(* Both together: a caller cannot tell flat_buffer from such a             *)
(* DynamicBuffer (flat_buffer.hpp:98-154).                                 *)
ImplementsDynamicBuffer == Abstract!Spec /\ [][EachCall]_vars
=============================================================================
