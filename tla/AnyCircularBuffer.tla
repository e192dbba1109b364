------------------------- MODULE AnyCircularBuffer -------------------------
(***************************************************************************)
(* any_dynamic_buffer_impl<circular_buffer, N>: a circular_buffer behind   *)
(* the type-erased interface any_dynamic_buffer.                           *)
(*                                                                         *)
(* The wrapper answers data() and prepare() with spans over two arrays of  *)
(* N buffers that it fills itself: data_ after every commit() and          *)
(* consume(), out_ in prepare().  They are sequences here, of length       *)
(* data_len_ and out_len_.  They are copies, so what matters is whether    *)
(* they still describe the buffer they were copied from.                   *)
(*                                                                         *)
(* A caller may also reach through buffer() and call the ring itself, of   *)
(* which the wrapper learns nothing: "behind" names the arrays that such a *)
(* call has overtaken.  The constructor copies the ring and leaves data_   *)
(* empty, whatever the ring holds: data_ starts behind unless the ring is  *)
(* empty, and stays so until the first commit() or consume().              *)
(*                                                                         *)
(* The wrapped ring is a copy of the one it was made from, and more copies *)
(* can be made of it.  A copy has its own counters over the same storage.  *)
(* The model follows one, which its owner only reads and consumes from: to *)
(* look ahead, while the wrapped ring takes in more.  The owner gives it   *)
(* up when bytes of the wrapped ring are consumed; it is then empty here.  *)
(*                                                                         *)
(* Calls on buffer() and copies do not depend on each other: a behaviour   *)
(* has one of the two, or neither ("besides").                             *)
(***************************************************************************)
EXTENDS CircularBuffer

CONSTANTS
  N,             \* the size of the two arrays
  BesidesCap     \* the largest capacity with calls on buffer() or a copy

ASSUME AnyAssumption == N \in Nat \ {0} /\ BesidesCap \in Nat

VARIABLES
  data_,         \* the first data_len_ elements of the array data_
  out_,          \* the first out_len_ elements of the array out_
  behind,        \* history: which of the two do not describe the ring
  copy,          \* the counters of a copy of the ring
  kept,          \* history: the bytes the copy has still to show
  besides        \* what there is besides the wrapper, fixed at the start

anyVars == <<vars, data_, out_, behind, copy, kept, besides>>

-----------------------------------------------------------------------------
(* unroll(): the buffers of a sequence, as many as the array has room for. *)
Unroll(bs) == SubSeq(bs, 1, IF N < Len(bs) THEN N ELSE Len(bs))

Counters == [in_pos_ |-> in_pos_, in_len_ |-> in_len_, out_size_ |-> out_size_]

NoCounters == [in_pos_ |-> 0, in_len_ |-> 0, out_size_ |-> 0]

(* The constructor copies the ring and leaves both arrays empty.           *)
AnyInit ==
  /\ Init
  /\ data_ = <<>>
  /\ out_ = <<>>
  /\ behind = IF in_len_ = 0 THEN {} ELSE {"data_"}
  /\ besides \in {"nothing"} \cup (IF cap_ <= BesidesCap THEN {"buffer()", "copy"} ELSE {})
  /\ copy = IF besides = "copy" THEN Counters ELSE NoCounters
  /\ kept = IF besides = "copy" THEN PairBytes(data) ELSE <<>>

(* The owner of the copy gives it up when bytes it may show are consumed.  *)
CopyStands ==
  IF in_len_' < in_len_
  THEN copy' = NoCounters /\ kept' = <<>>
  ELSE UNCHANGED <<copy, kept>>

(* MUTANT of AnyPrepare: the lengths are those of the previous call.       *)
AnyPrepareStale(n) ==
  /\ Prepare(n)
  /\ out_' = IF out_ = <<>> THEN Unroll(held') ELSE out_
  /\ behind' = behind \ {"out_"}
  /\ UNCHANGED data_

AnyPrepare(n) ==
  /\ Prepare(n)
  /\ out_' = Unroll(held')
  /\ behind' = behind \ {"out_"}
  /\ UNCHANGED data_

(* prepare() of the circular buffer does not return.                       *)
AnyPrepareThrows(n) == PrepareThrows(n) /\ UNCHANGED <<data_, out_, behind>>

AnyPrepareTraps(n) == PrepareTraps(n) /\ UNCHANGED <<data_, out_, behind>>

(* MUTANT of AnyCommit: the copy of data() is not refreshed.               *)
AnyCommitOnly(n) ==
  /\ Commit(n)
  /\ behind' = behind \ {"data_"}
  /\ UNCHANGED <<data_, out_>>

AnyCommit(n) ==
  /\ Commit(n)
  /\ data_' = Unroll(data')
  /\ behind' = behind \ {"data_"}
  /\ UNCHANGED out_

AnyConsume(n) ==
  /\ Consume(n)
  /\ data_' = Unroll(data')
  /\ behind' = behind \ {"data_"}
  /\ UNCHANGED out_

AnyFill(i, b) == Fill(i, b) /\ UNCHANGED <<data_, out_, behind>>

(* The same calls, made on buffer(): the arrays stay as they are.          *)
BufferPrepare(n) ==
  /\ Prepare(n)
  /\ behind' = behind \cup {"out_"}
  /\ UNCHANGED <<data_, out_>>

BufferCommit(n) ==
  /\ Commit(n)
  /\ behind' = behind \cup {"data_"}
  /\ UNCHANGED <<data_, out_>>

BufferConsume(n) ==
  /\ Consume(n)
  /\ behind' = behind \cup {"data_"}
  /\ UNCHANGED <<data_, out_>>

(* The copy constructor, or assignment to the copy.                        *)
CopyRing ==
  /\ copy' = Counters
  /\ kept' = PairBytes(data)
  /\ UNCHANGED <<vars, data_, out_, behind>>

(* consume() of the copy.                                                  *)
CopyConsume(n) ==
  /\ copy' =
       IF n < copy.in_len_
       THEN [copy EXCEPT !.in_pos_ = (@ + n) % cap_, !.in_len_ = @ - n]
       ELSE [copy EXCEPT !.in_len_ = 0,
                         !.in_pos_ = IF copy.out_size_ # 0
                                     THEN (@ + copy.in_len_) % cap_ ELSE 0]
  /\ kept' = SubSeq(kept, n + 1, Len(kept))
  /\ UNCHANGED <<vars, data_, out_, behind>>

BufferNext ==
  /\ besides = "buffer()"
  /\ \E n \in 0..SizeMax : BufferPrepare(n) \/ BufferCommit(n) \/ BufferConsume(n)
  /\ UNCHANGED <<copy, kept>>

CopyNext ==
  /\ besides = "copy"
  /\ CopyRing \/ \E n \in 0..SizeMax : CopyConsume(n)

WrapperNext ==
  /\ \/ \E n \in 0..SizeMax :
          \/ AnyPrepare(n)
          \/ AnyPrepareThrows(n)
          \/ AnyPrepareTraps(n)
          \/ AnyCommit(n)
          \/ AnyConsume(n)
     \/ \E i \in 1..PairSize(held), b \in Byte : AnyFill(i, b)
  /\ CopyStands

AnyNext == ~trapped /\ (WrapperNext \/ BufferNext \/ CopyNext) /\ UNCHANGED besides

AnySpec == AnyInit /\ [][AnyNext]_anyVars

-----------------------------------------------------------------------------
(* What a user of the interface sees: the arrays, whatever the ring holds. *)
(* Either has at most two non-empty buffers.  A commit() can append        *)
(* something only while the ring holds a prepared sequence.                *)

AsPair(s) == [k \in 1..2 |-> IF k <= Len(s) THEN s[k] ELSE Region(0, 0)]

SeenInput == PairBytes(AsPair(data_))

SeenOutput == IF PairSize(held) = 0 THEN <<>> ELSE PairBytes(AsPair(out_))

UpToDate == behind = {}

-----------------------------------------------------------------------------
(* Properties.                                                             *)

(* The copies that data() and the last prepare() return a span of          *)
(* (dynamic_buffer.hpp:149, :160) stand for exactly the readable and the   *)
(* writable bytes, whatever was called since they were made: consume()     *)
(* must not disturb out_, prepare() need not refresh data_.  Only a call   *)
(* on buffer() (:117) overtakes one of them, and only until the wrapper    *)
(* makes that one again.  And the constructor fills neither (:85): over a  *)
(* ring that holds bytes, data() shows none of them, through any number of *)
(* calls of prepare(), up to the first commit() or consume().              *)
CopiesAreCurrent ==
  /\ "data_" \notin behind => PairBytes(AsPair(data_)) = PairBytes(data)
  /\ "out_" \notin behind /\ PairSize(held) > 0 => AsPair(out_) = held
  /\ "data_" \in behind /\ besides # "buffer()" => SeenInput = <<>> /\ in_len_ > 0

(* A copy of the ring shares its storage, and nothing tells it what the    *)
(* other does (circular_buffer.hpp:54, :85).  Until the other consumes, it *)
(* shows the bytes it was made with, whatever the other prepares, stores   *)
(* and commits, and wherever the copy itself has got to.                   *)
CopyKeepsBytes == PairBytes(RingPair(copy.in_pos_, copy.in_len_)) = kept

(* The type-erased view of a circular_buffer as a DynamicBuffer: the bytes *)
(* are those of the wrapper's own two arrays.                              *)
AnyAbstract == INSTANCE DynamicBuffer WITH
  max_size <- cap_,
  input <- SeenInput,
  output <- SeenOutput,
  intact <- TRUE,
  PrepareError <- "length_error",
  Compacts <- TRUE,
  KeepsOutput <- "always",
  MayRunOut <- FALSE

(* Each call of the wrapper is the abstract call with the same argument.   *)
AnyEachCall ==
  /\ \A n \in 0..SizeMax :
       /\ AnyPrepare(n) => AnyAbstract!Prepare(n)
       /\ AnyPrepareThrows(n) => AnyAbstract!PrepareThrows(n)
       /\ AnyCommit(n) => AnyAbstract!Commit(n)
       /\ AnyConsume(n) => AnyAbstract!Consume(n)
  /\ \A i \in 1..PairSize(held), b \in Byte :
       AnyFill(i, b) => AnyAbstract!Fill(i, b)

(* The wrapper (dynamic_buffer.hpp:146-181) is a DynamicBuffer, call by    *)
(* call, as long as both arrays are up to date.  It is not one, and the    *)
(* property does not say so, in two cases: from its construction over a    *)
(* ring that holds bytes to the first commit() or consume(), when data()   *)
(* is empty (:85) against the "current readable area" of                   *)
(* DynamicBuffer.adoc:63-64; and from a call on buffer() to the call of    *)
(* the wrapper that makes the overtaken array again.                       *)
AnyImplementsDynamicBuffer ==
  /\ UpToDate => AnyAbstract!Init
  /\ [][UpToDate /\ UpToDate' => [AnyAbstract!Next]_(AnyAbstract!vars)]_anyVars
  /\ [][UpToDate /\ UpToDate' => AnyEachCall]_anyVars
=============================================================================
