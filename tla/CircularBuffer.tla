--------------------------- MODULE CircularBuffer ---------------------------
(***************************************************************************)
(* circular_buffer: a fixed-size ring over storage the caller provides.    *)
(*                                                                         *)
(* One action per member function that changes state, and one for the      *)
(* caller storing a byte through the buffer sequence the last prepare()    *)
(* returned.  That sequence ("held") is state of the caller: the class     *)
(* documents that it stays valid across consume(), so the model keeps the  *)
(* very buffers prepare() returned instead of recomputing them.            *)
(*                                                                         *)
(* Positions are offsets from base_.  The largest size_t is SizeMax;       *)
(* storage is an object, so its size is at most half of that               *)
(* (PTRDIFF_MAX), while the argument of a call may be any size_t.          *)
(***************************************************************************)
EXTENDS Naturals, Sequences

CONSTANTS
  Byte,          \* the values of a byte
  Caps,          \* the capacities the buffer may be constructed with
  SizeMax        \* the largest std::size_t

ASSUME SizesAssumption ==
  /\ SizeMax \in Nat
  /\ Caps \subseteq Nat
  /\ \A c \in Caps : 2 * c <= SizeMax

VARIABLES
  cap_,          \* the size of the storage at base_
  mem,           \* the storage
  in_pos_,       \* offset of the first readable byte
  in_len_,       \* number of readable bytes
  out_size_,     \* number of writable bytes
  held,          \* the buffer pair the last prepare() returned
  outcome,       \* how the last call ended
  trapped        \* the process died in an integer division by zero

vars == <<cap_, mem, in_pos_, in_len_, out_size_, held, outcome, trapped>>

-----------------------------------------------------------------------------
(* Buffer pairs: <<first, second>>, each an offset and a length.           *)

Region(p, n) == [pos |-> p, len |-> n]

EmptyPair == <<Region(0, 0), Region(0, 0)>>

(* MUTANT of RingPair: the end of the storage is checked one byte late.    *)
RingPairLate(p, n) ==
  IF p + n <= cap_ + 1
  THEN <<Region(p, n), Region(0, 0)>>
  ELSE <<Region(p, cap_ - p), Region(0, n - (cap_ - p))>>

(* n bytes of the ring starting at offset p, split where the ring wraps.   *)
RingPair(p, n) ==
  IF p + n <= cap_
  THEN <<Region(p, n), Region(0, 0)>>
  ELSE <<Region(p, cap_ - p), Region(0, n - (cap_ - p))>>

PairSize(bs) == bs[1].len + bs[2].len

(* The offset of the i-th byte of a pair.                                  *)
PairAt(bs, i) ==
  IF i <= bs[1].len THEN bs[1].pos + i - 1
                    ELSE bs[2].pos + (i - bs[1].len) - 1

PairBytes(bs) == [i \in 1..PairSize(bs) |-> mem[PairAt(bs, i)]]

data == RingPair(in_pos_, in_len_)

capacity == cap_ - in_len_

-----------------------------------------------------------------------------
(* Any of the constructors that does not throw: the default one leaves     *)
(* cap_ = 0, the three-argument one accepts initial_size <= capacity.      *)
Init ==
  /\ cap_ \in Caps
  /\ mem \in [0..cap_ - 1 -> Byte]
  /\ in_pos_ = 0
  /\ in_len_ \in 0..cap_
  /\ out_size_ = 0
  /\ held = EmptyPair
  /\ outcome = "returned"
  /\ trapped = FALSE

(* MUTANT of Refused: the sum is computed first, and wraps.                *)
RefusedBySum(n) == (in_len_ + n) % (SizeMax + 1) > cap_

(* MUTANT of Refused: the readable bytes are not counted.                  *)
RefusedByCapacityOnly(n) == n > cap_

Refused(n) == n > cap_ - in_len_

(* MUTANT of Prepare: the position is rewound, to return one contiguous    *)
(* buffer, without moving the readable bytes.                              *)
PrepareRewinds(n) ==
  /\ ~Refused(n)
  /\ cap_ # 0
  /\ in_pos_' = IF in_pos_ + in_len_ >= cap_ THEN 0 ELSE in_pos_
  /\ out_size_' = n
  /\ held' = RingPair((in_pos_' + in_len_) % cap_, n)
  /\ outcome' = "returned"
  /\ UNCHANGED <<cap_, mem, in_len_, trapped>>

Prepare(n) ==
  /\ ~Refused(n)
  /\ cap_ # 0
  /\ out_size_' = n
  /\ held' = RingPair((in_pos_ + in_len_) % cap_, n)
  /\ outcome' = "returned"
  /\ UNCHANGED <<cap_, mem, in_pos_, in_len_, trapped>>

PrepareThrows(n) ==
  /\ Refused(n)
  /\ outcome' = "length_error"
  /\ UNCHANGED <<cap_, mem, in_pos_, in_len_, out_size_, held, trapped>>

(* With cap_ = 0 the only request not refused is prepare(0), and computing *)
(* the position divides by zero: on the supported targets the process is   *)
(* killed (out_size_ has been assigned, which nothing can observe).        *)
PrepareTraps(n) ==
  /\ ~Refused(n)
  /\ cap_ = 0
  /\ out_size_' = n
  /\ trapped' = TRUE
  /\ UNCHANGED <<cap_, mem, in_pos_, in_len_, held, outcome>>

(* The caller stores a byte through the sequence it holds.                 *)
Fill(i, b) ==
  /\ i \in 1..PairSize(held)
  /\ mem' = [mem EXCEPT ![PairAt(held, i)] = b]
  /\ UNCHANGED <<cap_, in_pos_, in_len_, out_size_, held, outcome, trapped>>

Commit(n) ==
  /\ in_len_' = in_len_ + (IF n < out_size_ THEN n ELSE out_size_)
  /\ out_size_' = 0
  /\ held' = EmptyPair              \* documented as invalidated
  /\ outcome' = "returned"
  /\ UNCHANGED <<cap_, mem, in_pos_, trapped>>

(* n < in_len_: drop a prefix.                                             *)
ConsumeSome(n) ==
  /\ n < in_len_
  /\ in_pos_' = (in_pos_ + n) % cap_
  /\ in_len_' = in_len_ - n
  /\ outcome' = "returned"
  /\ UNCHANGED <<cap_, mem, out_size_, held, trapped>>

(* MUTANT of ConsumeAll: the position is reset although a prepared         *)
(* sequence is outstanding.                                                *)
ConsumeAllResets(n) ==
  /\ n >= in_len_
  /\ in_pos_' = 0
  /\ in_len_' = 0
  /\ outcome' = "returned"
  /\ UNCHANGED <<cap_, mem, out_size_, held, trapped>>

(* Drop everything; in_pos_ must keep pointing at a prepared sequence, and *)
(* otherwise returns to the start of the storage.                          *)
ConsumeAll(n) ==
  /\ n >= in_len_
  /\ in_pos_' = IF out_size_ # 0 THEN (in_pos_ + in_len_) % cap_ ELSE 0
  /\ in_len_' = 0
  /\ outcome' = "returned"
  /\ UNCHANGED <<cap_, mem, out_size_, held, trapped>>

Consume(n) == ConsumeSome(n) \/ ConsumeAll(n)

Next ==
  /\ ~trapped
  /\ \/ \E n \in 0..SizeMax :
          \/ Prepare(n)
          \/ PrepareThrows(n)
          \/ PrepareTraps(n)
          \/ Commit(n)
          \/ Consume(n)
     \/ \E i \in 1..PairSize(held), b \in Byte : Fill(i, b)

Spec == Init /\ [][Next]_vars

-----------------------------------------------------------------------------
(* Properties.                                                             *)

(* The types, and the representation invariant: the ring never holds more  *)
(* bytes than the storage has (the guard of prepare(),                     *)
(* circular_buffer.cpp:37, against every commit() that can follow it).     *)
TypeOK ==
  /\ cap_ \in Caps
  /\ mem \in [0..cap_ - 1 -> Byte]
  /\ in_pos_ \in Nat /\ (in_pos_ < cap_ \/ in_pos_ = 0)
  /\ in_len_ \in 0..cap_
  /\ out_size_ \in 0..cap_
  /\ held \in [1..2 -> [pos : 0..cap_, len : 0..cap_]]
  /\ outcome \in {"returned", "length_error"}
  /\ trapped \in BOOLEAN

InStorage(bs) == \A k \in 1..2 : bs[k].pos + bs[k].len <= cap_

(* Every buffer the caller can hold, from data() and from prepare(), lies  *)
(* inside the storage, whatever calls were made in between: data()         *)
(* (circular_buffer.cpp:19) and prepare() (:33) never hand out a byte      *)
(* outside [base_, base_ + cap_).                                          *)
BuffersInStorage == InStorage(data) /\ InStorage(held)

(* The sequence prepare() returned stays the writable part of the ring     *)
(* until commit() or the next prepare(), also when consume() moves in_pos_ *)
(* in between (circular_buffer.hpp:168): it still has out_size_ bytes and  *)
(* starts right behind the readable bytes.                                 *)
HeldIsOutput ==
  /\ PairSize(held) = out_size_
  /\ out_size_ > 0 => held = RingPair((in_pos_ + in_len_) % cap_, out_size_)

(* The readable and the writable bytes fit the storage together.  With the *)
(* types and HeldIsOutput this is inductive, and the other invariants      *)
(* follow from it (circular_buffer.cpp:37 is what establishes it, and      *)
(* commit() and consume() at :57-61 and :69-90 have to keep it).           *)
Inv ==
  /\ TypeOK
  /\ in_len_ + out_size_ <= cap_
  /\ InStorage(held)
  /\ HeldIsOutput

(* No byte is both readable and writable: storing into the sequence from   *)
(* prepare() never changes what data() shows.                              *)
ReadableWritableDisjoint ==
  \A i \in 1..PairSize(data), j \in 1..PairSize(held) :
    PairAt(data, i) # PairAt(held, j)

(* Sequences from data() survive commit() and prepare()                    *)
(* (circular_buffer.hpp:150): unless bytes are consumed, the i-th readable *)
(* byte stays where it is.                                                 *)
DataStaysValid ==
  [][in_len_' >= in_len_ =>
       \A i \in 1..in_len_ : PairAt(data', i) = PairAt(data, i)]_vars

(* circular_buffer implements DynamicBuffer with all of the documented     *)
(* options: it throws length_error exactly when size() + n exceeds         *)
(* max_size(), and consume() keeps the output sequence.                    *)
Abstract == INSTANCE DynamicBuffer WITH
  max_size <- cap_,
  input <- PairBytes(data),
  output <- PairBytes(held),
  intact <- TRUE,
  PrepareError <- "length_error",
  Compacts <- TRUE,
  KeepsOutput <- "always",
  MayRunOut <- FALSE

(* Each call is the abstract call with the same argument: without this, a  *)
(* commit(n) that appends m bytes would pass for commit(m).                *)
EachCall ==
  /\ \A n \in 0..SizeMax :
       /\ Prepare(n) => Abstract!Prepare(n)
       /\ PrepareThrows(n) => Abstract!PrepareThrows(n)
       /\ Commit(n) => Abstract!Commit(n)
       /\ Consume(n) => Abstract!Consume(n)
  /\ \A i \in 1..PairSize(held), b \in Byte : Fill(i, b) => Abstract!Fill(i, b)

(* Both together: a caller cannot tell circular_buffer from this           *)
(* DynamicBuffer (circular_buffer.cpp:17-91).                              *)
ImplementsDynamicBuffer == Abstract!Spec /\ [][EachCall]_vars

(* DynamicBuffer.adoc:66-73: prepare(n) returns a sequence of n bytes and  *)
(* throws if size() + n exceeds max_size(); it has no other outcome.       *)
PrepareDefined == ~trapped
=============================================================================
