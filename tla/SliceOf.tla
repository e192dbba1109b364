------------------------------ MODULE SliceOf ------------------------------
(***************************************************************************)
(* slice_of<BufferSequence>: a buffer sequence with bytes dropped at both  *)
(* ends, and the customization points that drop them.                      *)
(*                                                                         *)
(* The loops of remove_prefix_impl and remove_suffix_impl are modelled one *)
(* iteration per step; the program makes its next call when pc = "idle".   *)
(*                                                                         *)
(* A caller also walks over the slice.  An iterator carries copies of the  *)
(* slice's members, made by begin() or end(); the model follows one of     *)
(* them, which may be older than the slicing calls that came after it.     *)
(***************************************************************************)
EXTENDS Naturals, FiniteSets, BufferSequence

CONSTANTS
  MaxBuffers,    \* the longest sequence considered
  MaxTotal,      \* the most bytes a sequence has
  SizeMax        \* the largest std::size_t

ASSUME SliceAssumption ==
  /\ MaxBuffers \in Nat /\ MaxTotal \in Nat /\ SizeMax \in Nat
  /\ 2 * MaxTotal <= SizeMax

VARIABLES
  K,             \* the number of buffers of bs_
  cut,           \* where the bytes of bs_ are cut into buffers
  begin_,        \* index of the first buffer
  end_,          \* 1 + index of the last buffer
  len_,          \* the number of buffers
  size_,         \* the total of bytes
  prefix_,       \* bytes dropped from the first buffer
  suffix_,       \* bytes dropped from the last buffer
  n,             \* the argument of the call that is running
  pc,            \* "idle", or the loop that is running
  iter,          \* the iterator of the caller: its members, without the _
  view           \* history: what the slice showed when iter was made

sliceVars == <<K, cut, begin_, end_, len_, size_, prefix_, suffix_, n, pc>>

vars == <<K, cut, begin_, end_, len_, size_, prefix_, suffix_, n, pc, iter, view>>

-----------------------------------------------------------------------------
Interval(lo, hi) == {x \in 0..MaxTotal : lo <= x /\ x < hi}

(* begin() and end(): it is an index into bs_, i one into the slice.       *)
Begin == [it |-> begin_, prefix |-> prefix_, suffix |-> suffix_, i |-> 0, n |-> len_]

End == [Begin EXCEPT !.it = end_, !.i = len_]

(* operator==, whatever slices the two came from.                          *)
Equal(x, y) ==
  /\ x.it = y.it /\ x.prefix = y.prefix /\ x.suffix = y.suffix
  /\ x.i = y.i /\ x.n = y.n

(* operator++ and operator--, for an x that their assertions accept.       *)
After(x) == [x EXCEPT !.it = @ + 1, !.i = @ + 1]

Before(x) == [x EXCEPT !.it = @ - 1, !.i = @ - 1]

(* MUTANT of Deref: the cuts are looked up in the slice instead of copied, *)
(* which would save size.                                                  *)
DerefOfSlice(x) ==
  Interval(cut[x.it] + (IF x.i = 0 THEN prefix_ ELSE 0),
           cut[x.it + 1] - (IF x.i = x.n - 1 THEN suffix_ ELSE 0))

(* operator*: the bytes of the element.                                    *)
Deref(x) ==
  Interval(cut[x.it] + (IF x.i = 0 THEN x.prefix ELSE 0),
           cut[x.it + 1] - (IF x.i = x.n - 1 THEN x.suffix ELSE 0))

(* The elements, from begin() onwards.                                     *)
Shown == [j \in 0..len_ - 1 |-> Deref([Begin EXCEPT !.it = @ + j, !.i = j])]

(* What iterating from begin() to end() visits.                            *)
Content == UNION {Shown[j] : j \in 0..len_ - 1}

(* size(bs): the sum of the sizes of the elements.                         *)
ContentSize == Cardinality(Content)

-----------------------------------------------------------------------------
(* The constructor: the whole sequence.                                    *)
Init ==
  /\ K \in 0..MaxBuffers
  /\ cut \in Cuts(K, MaxTotal)
  /\ begin_ = 0
  /\ end_ = K
  /\ len_ = K
  /\ size_ = cut[K]
  /\ prefix_ = 0
  /\ suffix_ = 0
  /\ n = 0
  /\ pc = "idle"
  /\ iter = [it |-> 0, prefix |-> 0, suffix |-> 0, i |-> 0, n |-> 0]
  /\ view = <<>>

(* MUTANT of RemovePrefixImpl: the clamp is left out.                      *)
RemovePrefixUnclamped(k) ==
  /\ n' = k + prefix_
  /\ size_' = size_ + prefix_
  /\ prefix_' = 0
  /\ pc' = "remove_prefix"
  /\ UNCHANGED <<K, cut, begin_, end_, len_, suffix_>>

(* remove_prefix_impl(k), up to its loop.                                  *)
RemovePrefixImpl(k) ==
  /\ n' = Least(k, size_) + prefix_
  /\ size_' = size_ + prefix_
  /\ prefix_' = 0
  /\ pc' = "remove_prefix"
  /\ UNCHANGED <<K, cut, begin_, end_, len_, suffix_>>

(* remove_suffix_impl(k), up to its loop, for a slice with size_ # 0.      *)
RemoveSuffixImpl(k) ==
  /\ begin_ # end_
  /\ n' = Least(k, size_) + suffix_
  /\ size_' = size_ + suffix_
  /\ suffix_' = 0
  /\ pc' = "remove_suffix"
  /\ UNCHANGED <<K, cut, begin_, end_, len_, prefix_>>

(* BOOST_ASSERT(begin_ != end_) in remove_suffix_impl fails.               *)
RemoveSuffixAsserts ==
  /\ begin_ = end_
  /\ pc' = "fault"
  /\ UNCHANGED <<K, cut, begin_, end_, len_, size_, prefix_, suffix_, n>>

(* keep_prefix_impl(0): prefix_ and suffix_ stay as they are.              *)
KeepNothing ==
  /\ end_' = begin_
  /\ len_' = 0
  /\ size_' = 0
  /\ UNCHANGED <<K, cut, begin_, prefix_, suffix_, n, pc>>

(* MUTANT of KeepPrefixImpl: the number of bytes to keep is passed on as   *)
(* the number to drop.                                                     *)
KeepPrefixSwapped(k) ==
  \/ k >= size_ /\ UNCHANGED sliceVars
  \/ k < size_ /\ k = 0 /\ KeepNothing
  \/ k < size_ /\ k # 0 /\ RemoveSuffixImpl(k)
  \/ k < size_ /\ k # 0 /\ RemoveSuffixAsserts

KeepPrefixImpl(k) ==
  \/ k >= size_ /\ UNCHANGED sliceVars
  \/ k < size_ /\ k = 0 /\ KeepNothing
  \/ k < size_ /\ k # 0 /\ RemoveSuffixImpl(size_ - k)
  \/ k < size_ /\ k # 0 /\ RemoveSuffixAsserts

(* The four customization points; the last two first compute size(bs).     *)
RemovePrefix(k) == RemovePrefixImpl(k)

KeepPrefix(k) == KeepPrefixImpl(k)

KeepSuffix(k) == k < ContentSize /\ RemovePrefixImpl(ContentSize - k)

RemoveSuffix(k) ==
  /\ k > 0
  /\ KeepPrefixImpl(ContentSize - Least(k, ContentSize))

(* The forms that return a value copy the slice and call the above on the  *)
(* copy.  The model follows the copy from there on; the slice it was made  *)
(* of stays, and an iterator of it with it.                                *)
Prefix(k) == KeepPrefix(k)

Suffix(k) == KeepSuffix(k)

SansPrefix(k) == RemovePrefix(k)

SansSuffix(k) == RemoveSuffix(k)

Call ==
  /\ pc = "idle"
  /\ \E k \in 0..SizeMax :
       \/ RemovePrefix(k) \/ SansPrefix(k)
       \/ KeepPrefix(k)   \/ Prefix(k)
       \/ KeepSuffix(k)   \/ Suffix(k)
       \/ RemoveSuffix(k) \/ SansSuffix(k)
  /\ UNCHANGED <<iter, view>>

-----------------------------------------------------------------------------
(* The caller's iterator, while no call is running.                        *)

MakeIterator ==
  /\ pc = "idle"
  /\ iter' \in {Begin, End}
  /\ view' = Shown
  /\ UNCHANGED sliceVars

Increment ==
  /\ pc = "idle"
  /\ iter.i < iter.n
  /\ iter' = After(iter)
  /\ UNCHANGED <<sliceVars, view>>

Decrement ==
  /\ pc = "idle"
  /\ iter.i > 0
  /\ iter' = Before(iter)
  /\ UNCHANGED <<sliceVars, view>>

-----------------------------------------------------------------------------
(* The loop of remove_prefix_impl: *it is the buffer at begin_.            *)

PrefixDone ==
  /\ pc = "remove_prefix"
  /\ n = 0 \/ begin_ = end_
  /\ pc' = "idle"
  /\ n' = 0
  /\ UNCHANGED <<K, cut, begin_, end_, len_, size_, prefix_, suffix_>>

(* The argument ends inside this buffer.                                   *)
PrefixPart ==
  /\ pc = "remove_prefix"
  /\ n > 0 /\ begin_ # end_
  /\ n < BufSize(cut, begin_)
  /\ prefix_' = n
  /\ size_' = size_ - n
  /\ n' = 0
  /\ pc' = "idle"
  /\ UNCHANGED <<K, cut, begin_, end_, len_, suffix_>>

(* MUTANT of PrefixWhole: an empty buffer is not skipped.                  *)
PrefixWholeStuck ==
  /\ pc = "remove_prefix"
  /\ n > 0 /\ begin_ # end_
  /\ n >= BufSize(cut, begin_)
  /\ n' = n - BufSize(cut, begin_)
  /\ size_' = size_ - BufSize(cut, begin_)
  /\ begin_' = IF BufSize(cut, begin_) = 0 THEN begin_ ELSE begin_ + 1
  /\ len_' = IF BufSize(cut, begin_) = 0 THEN len_ ELSE len_ - 1
  /\ UNCHANGED <<K, cut, end_, prefix_, suffix_, pc>>

(* The whole buffer goes.                                                  *)
PrefixWhole ==
  /\ pc = "remove_prefix"
  /\ n > 0 /\ begin_ # end_
  /\ n >= BufSize(cut, begin_)
  /\ n' = n - BufSize(cut, begin_)
  /\ size_' = size_ - BufSize(cut, begin_)
  /\ begin_' = begin_ + 1
  /\ len_' = len_ - 1
  /\ UNCHANGED <<K, cut, end_, prefix_, suffix_, pc>>

-----------------------------------------------------------------------------
(* The loop of remove_suffix_impl: *it is the buffer at end_ - 1.          *)

SuffixPart ==
  /\ pc = "remove_suffix"
  /\ end_ - 1 # begin_
  /\ n < BufSize(cut, end_ - 1)
  /\ suffix_' = n
  /\ size_' = size_ - n
  /\ n' = 0
  /\ pc' = "idle"
  /\ UNCHANGED <<K, cut, begin_, end_, len_, prefix_>>

(* MUTANT of SuffixWhole: the count of buffers is not kept up.             *)
SuffixWholeKeepsLen ==
  /\ pc = "remove_suffix"
  /\ end_ - 1 # begin_
  /\ n >= BufSize(cut, end_ - 1)
  /\ n' = n - BufSize(cut, end_ - 1)
  /\ size_' = size_ - BufSize(cut, end_ - 1)
  /\ end_' = end_ - 1
  /\ UNCHANGED <<K, cut, begin_, len_, prefix_, suffix_, pc>>

SuffixWhole ==
  /\ pc = "remove_suffix"
  /\ end_ - 1 # begin_
  /\ n >= BufSize(cut, end_ - 1)
  /\ n' = n - BufSize(cut, end_ - 1)
  /\ size_' = size_ - BufSize(cut, end_ - 1)
  /\ end_' = end_ - 1
  /\ len_' = len_ - 1
  /\ UNCHANGED <<K, cut, begin_, prefix_, suffix_, pc>>

(* The first buffer is reached: part of it stays, or nothing.              *)
SuffixFirst ==
  /\ pc = "remove_suffix"
  /\ end_ - 1 = begin_
  /\ LET part == n + prefix_ < BufSize(cut, begin_) IN
       /\ suffix_' = IF part THEN n ELSE suffix_
       /\ size_' = IF part THEN size_ - n ELSE 0
       /\ end_' = IF part THEN end_ ELSE begin_
       /\ len_' = IF part THEN len_ ELSE 0
  /\ n' = 0
  /\ pc' = "idle"
  /\ UNCHANGED <<K, cut, begin_, prefix_>>

Loop ==
  /\ \/ PrefixDone \/ PrefixPart \/ PrefixWhole
     \/ SuffixPart \/ SuffixWhole \/ SuffixFirst
  /\ UNCHANGED <<iter, view>>

Next == Call \/ Loop \/ MakeIterator \/ Increment \/ Decrement

(* A call that was made goes on.                                           *)
Spec == Init /\ [][Next]_vars /\ WF_vars(Loop)

-----------------------------------------------------------------------------
(* Properties.                                                             *)

TypeOK ==
  /\ K \in 0..MaxBuffers /\ cut \in Cuts(K, MaxTotal)
  /\ begin_ \in 0..K /\ end_ \in begin_..K /\ len_ \in 0..K
  /\ size_ \in 0..MaxTotal /\ prefix_ \in 0..MaxTotal /\ suffix_ \in 0..MaxTotal
  /\ n \in 0..MaxTotal
  /\ pc \in {"idle", "remove_prefix", "remove_suffix", "fault"}
  /\ iter \in [it : 0..K, prefix : 0..MaxTotal, suffix : 0..MaxTotal, i : 0..K, n : 0..K]

(* The members of a slice between calls, and in each turn of a loop, where *)
(* the member of the end that is worked at counts as dropped and n bytes   *)
(* are still to go.  Once the buffers are used up, prefix_ and suffix_ may *)
(* be what they were before, and size_ what was left of prefix_ by then    *)
(* (slice.hpp:151-245).                                                    *)
Consistent ==
  /\ end_ = begin_ + len_
  /\ n <= size_
  /\ pc = "idle" => n = 0
  /\ pc = "remove_prefix" => prefix_ = 0
  /\ pc = "remove_suffix" => suffix_ = 0 /\ begin_ # end_
  /\ begin_ # end_ =>
       /\ prefix_ <= BufSize(cut, begin_)
       /\ suffix_ <= BufSize(cut, end_ - 1)
       /\ cut[begin_] + prefix_ + size_ + suffix_ = cut[end_]
  /\ begin_ = end_ => size_ + prefix_ <= MaxTotal

(* size_, which the clamps of both loops rest on (slice.hpp:154, :192), is *)
(* the number of bytes the iterators show, although the two are computed   *)
(* from different members (:353-366).  This is not so for a slice without  *)
(* buffers: keep_prefix_impl(0) leaves prefix_ (:237-242), which the next  *)
(* remove_prefix() adds to size_.                                          *)
SizeIsContent == pc = "idle" /\ len_ # 0 => size_ = ContentSize

(* len_ operator++ on begin() make an iterator that compares equal to      *)
(* end(), all five members of it (slice.hpp:327-337), although begin() and *)
(* end() count on different members of the slice (:137-148, :404-424): a   *)
(* loop over the slice ends.                                               *)
RangeEnds == Equal([Begin EXCEPT !.it = @ + len_, !.i = @ + len_], End)

(* Between the begin() and the end() it belongs to, an iterator points to   *)
(* a buffer of bs_, or behind the last one.                                *)
IteratorInside ==
  /\ iter.i <= iter.n
  /\ iter.i <= iter.it
  /\ iter.it + iter.n <= K + iter.i

(* The representation of a slice and of an iterator, as one invariant.     *)
Inv == TypeOK /\ Consistent /\ IteratorInside /\ SizeIsContent /\ RangeEnds

(* Whatever slicing calls follow, an iterator shows element i of the slice *)
(* it was made of, from begin() forward and from end() backward; it        *)
(* carries what it needs (slice.hpp:287-300).                              *)
IteratorKeepsItsView ==
  /\ iter.n = Cardinality(DOMAIN view)
  /\ iter.i < iter.n => Deref(iter) = view[iter.i]

(* No call ends in a failed assertion (slice.hpp:187, :190).               *)
NoFault == pc # "fault"

(* Every loop ends, also over sequences with empty buffers                 *)
(* (slice.hpp:164, :203).                                                  *)
CallsReturn == pc \in {"remove_prefix", "remove_suffix"} ~> pc = "idle"

(* The bytes the slice will show when the running call is done.            *)
Window ==
  IF pc = "remove_prefix"
  THEN Interval(cut[begin_] + n, IF begin_ = end_ THEN 0 ELSE cut[end_] - suffix_)
  ELSE IF pc = "remove_suffix"
  THEN Interval(cut[begin_] + prefix_, cut[end_] - n)
  ELSE Content

(* The slice shows the bytes it promises: each call is one operation on    *)
(* the window, and the iterations of its loop do not change what the       *)
(* slice is going to show (slice.hpp:151-245, :353-366).                   *)
Abstract == INSTANCE ByteWindow WITH window <- Window

(* Each call drops what the operation of that name and argument promises.  *)
EachCall ==
  pc = "idle" /\ UNCHANGED <<iter, view>> => \A k \in 0..SizeMax :
    /\ RemovePrefix(k) => Abstract!RemovePrefix(k)
    /\ KeepPrefix(k) => Abstract!KeepPrefix(k)
    /\ RemoveSuffix(k) => Abstract!RemoveSuffix(k)
    /\ KeepSuffix(k) => Abstract!KeepSuffix(k)

(* Both together: a slice is the window it promises (slice.hpp:435-502).   *)
ImplementsByteWindow == Abstract!Spec /\ [][EachCall]_vars
=============================================================================
