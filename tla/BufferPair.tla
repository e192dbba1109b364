----------------------------- MODULE BufferPair -----------------------------
(***************************************************************************)
(* Slicing a const_buffer_pair or a mutable_buffer_pair in place: the      *)
(* tag_invoke overloads for pairs (the two are the same code) and the      *)
(* do_slice of one buffer they rest on.                                    *)
(*                                                                         *)
(* A buffer is the region of the bytes at pos .. pos + n - 1.  Bytes are   *)
(* named by their position in the pair as it was first given; an empty     *)
(* buffer shows no byte wherever it points.                                *)
(*                                                                         *)
(* SliceOf has operations of the same names; those of a pair are called    *)
(* Pair... here, so that one module can speak of both.                     *)
(***************************************************************************)
EXTENDS Naturals, FiniteSets, BufferSequence

CONSTANTS
  MaxLen,        \* the most bytes either buffer has
  PairSizeMax    \* the largest std::size_t

ASSUME PairAssumption ==
  MaxLen \in Nat /\ PairSizeMax \in Nat /\ 2 * MaxLen <= PairSizeMax

VARIABLE bs      \* the pair

-----------------------------------------------------------------------------
Buffer(p, k) == [pos |-> p, n |-> k]

(* const_buffer{}: nothing, nowhere.                                       *)
EmptyBuffer == Buffer(0, 0)

(* remove_prefix of one buffer: operator+= .                               *)
WithoutPrefix(b, k) == Buffer(b.pos + Least(k, b.n), b.n - Least(k, b.n))

(* keep_prefix of one buffer.                                              *)
KeptPrefix(b, k) == Buffer(b.pos, Least(k, b.n))

BytesOf(b) == b.pos..b.pos + b.n - 1

PairContent == BytesOf(bs[1]) \cup BytesOf(bs[2])

(* size(bs).                                                               *)
PairSize == bs[1].n + bs[2].n

-----------------------------------------------------------------------------
PairInit ==
  \E a, b \in 0..MaxLen : bs = <<Buffer(0, a), Buffer(a, b)>>

(* MUTANT of SliceRemovePrefix: the second buffer stays where it is after  *)
(* it has moved to the front.                                              *)
SliceRemovePrefixCopies(k) ==
  IF k < bs[1].n
  THEN bs' = <<WithoutPrefix(bs[1], k), bs[2]>>
  ELSE bs' = <<WithoutPrefix(bs[2], k - bs[1].n), bs[2]>>

SliceRemovePrefix(k) ==
  \/ /\ k < bs[1].n
     /\ bs' = <<WithoutPrefix(bs[1], k), bs[2]>>
  \/ /\ k >= bs[1].n                 \* the second buffer moves to the front
     /\ bs' = <<WithoutPrefix(bs[2], k - bs[1].n), EmptyBuffer>>

(* MUTANT of SliceKeepPrefix: the second buffer is forgotten when the      *)
(* first is kept whole.                                                    *)
SliceKeepPrefixLeavesSecond(k) ==
  IF k <= bs[1].n
  THEN bs' = <<KeptPrefix(bs[1], k), bs[2]>>
  ELSE bs' = <<bs[1], KeptPrefix(bs[2], k - bs[1].n)>>

SliceKeepPrefix(k) ==
  \/ /\ k <= bs[1].n
     /\ bs' = <<KeptPrefix(bs[1], k), EmptyBuffer>>
  \/ /\ k > bs[1].n
     /\ bs' = <<bs[1], KeptPrefix(bs[2], k - bs[1].n)>>

(* The four customization points; the last two first compute size(bs).     *)
PairRemovePrefix(k) == SliceRemovePrefix(k)

PairKeepPrefix(k) == SliceKeepPrefix(k)

PairKeepSuffix(k) == k < PairSize /\ SliceRemovePrefix(PairSize - k)

PairRemoveSuffix(k) == k > 0 /\ SliceKeepPrefix(PairSize - Least(k, PairSize))

PairNext ==
  \E k \in 0..PairSizeMax :
    \/ PairRemovePrefix(k)
    \/ PairKeepPrefix(k)
    \/ PairKeepSuffix(k)
    \/ PairRemoveSuffix(k)

PairSpec == PairInit /\ [][PairNext]_bs

-----------------------------------------------------------------------------
(* Properties.                                                             *)

(* The types, and that size(bs) counts each byte of the pair once: no      *)
(* byte is shown by both buffers (buffer_pair.cpp:34-35).                  *)
PairTypeOK ==
  /\ bs \in [1..2 -> [pos : 0..2 * MaxLen, n : 0..MaxLen]]
  /\ Cardinality(PairContent) = PairSize

(* Each of the four operations drops the bytes it promises to drop, at     *)
(* either end, whether or not the boundary lies inside the first buffer    *)
(* (buffer_pair.cpp:25-53).                                                *)
PairAbstract == INSTANCE ByteWindow WITH
  window <- PairContent, SizeMax <- PairSizeMax

(* Each call drops what the operation of that name and argument promises.  *)
PairEachCall ==
  \A k \in 0..PairSizeMax :
    /\ PairRemovePrefix(k) => PairAbstract!RemovePrefix(k)
    /\ PairKeepPrefix(k) => PairAbstract!KeepPrefix(k)
    /\ PairRemoveSuffix(k) => PairAbstract!RemoveSuffix(k)
    /\ PairKeepSuffix(k) => PairAbstract!KeepSuffix(k)

(* Both together: a pair is the window it promises (buffer_pair.cpp:16-96, *)
(* slice.hpp:435-502).                                                     *)
PairImplementsByteWindow == PairAbstract!Spec /\ [][PairEachCall]_bs
=============================================================================
