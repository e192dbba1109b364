# Verification of Boost.Buffers in TLA+

The library in `src/` is a set of types for buffers of bytes: buffers and
sequences of buffers, algorithms that slice and copy them, dynamic buffers that
grow and shrink, and type-erased wrappers for buffers, sequences and sources.
It has no threads and persists nothing. What makes it hard is the *protocol*:
the caller holds pointers that one object handed out while it calls other
operations on the same object, sizes are unsigned counters kept beside each
other, wrappers keep copies of what they wrap, and loops walk over two
sequences cut at different places. Those are the subjects of this project.

Paths below are relative to `src/include/boost/buffers/` for `.hpp`,
`src/src/` for `.cpp` and `src/doc/modules/ROOT/pages/` for `.adoc`.

## 1. Inventory

| Component | State | Operations | What makes it correct |
|---|---|---|---|
| `DynamicBuffer` concept (`DynamicBuffer.adoc`, trait in `dynamic_buffer.hpp`) | readable bytes, writable bytes, a limit | `prepare`, `commit`, `consume`, `data` | the contract itself; each buffer below implements it |
| `circular_buffer` | storage (the caller's, shared by copies), position and length of the readable bytes, size of the writable bytes | the same, copies | nothing handed out leaves the storage or overlaps; `data()` survives `prepare`/`commit`; the prepared sequence survives `consume`; a copy keeps showing its bytes until the original consumes |
| `flat_buffer` | the same, contiguous | the same, copies | as above; a drained buffer offers all its storage |
| `string_buffer` | a caller's `std::string`, sizes | the same, move, destructor | never exposes bytes the string does not have; leaves exactly the readable bytes in the string |
| `any_dynamic_buffer` | copies of the wrapped buffer's sequences | the same, type-erased; `buffer()`, move | the copies are current whenever they are looked at (they are not always: see 5) |
| buffers, buffer pairs | pointer and size, twice | slicing, `size` | every slice is the bytes its name says |
| `slice_of` | iterators, length, byte count, bytes cut off at either end | slicing, iteration | the counters agree with the iterators; loops end; every slice is the bytes its name says; an iterator keeps showing what it was made of |
| `copy` | two iterators, two positions, a total | `copy` | the first bytes of the source, in order, and the least of three sizes |
| `any_read_source` | remembered error, the source | `read`, `rewind` | bytes in order over batches, errors sticky, calls return |
| `any_source` | shared ownership of a source, its position | `read`, `rewind`, `size`, copies | one position behind several handles; eof with the last byte |
| `any_buffers` | a sequence in the object or on the heap, iterators that share it | construction, copies, assignment, iteration | each object shows its own sequence; an iterator reaches the sequence that made it |
| `any_stream`, sinks, concepts, conversions, errors, traits | none | — | declarations and one-statement views |

How they interact. `any_dynamic_buffer` calls the buffer it wraps and copies
the sequences that come back; the caller stores bytes through those copies.
`string_buffer` calls a `std::string` that may reallocate. `any_read_source`
and `any_source` call a source the user wrote, in batches, and keep its error.
`slice_of` and `copy` iterate over sequences they know nothing of, buffer pairs
from `circular_buffer` among them. The data source of an `any_source` is both at
once: each `read` slices the data and copies from what the slice's iterators show.

### What is hard to test

`PROJECT.json` lists each of these at its line under `hazards`, with the
properties aimed at it. In short:

* **order of legal calls**: `consume` between `prepare` and `commit` (the rings
  and flat buffers reset their position when they are emptied); a `prepare` that
  throws while an older sequence is outstanding; moving or destroying a
  `string_buffer` with bytes prepared; slicing a suffix off a buffer whose
  prefix is cut; slicing an emptied slice;
* **stale copies**: what `any_dynamic_buffer` keeps, when it is moved or bypassed
  through `buffer()` too; what a reallocation leaves behind; sequences and
  iterators held across other calls; buffers that share storage;
* **numeric edges**: arguments up to the largest `size_t`, sums that would wrap,
  capacity zero, boundaries that fall on the end of a buffer, empty buffers;
* **partial failure**: an allocation or a source that fails half-way through a
  call;
* **progress**: loops in which an iteration handles no byte.

## 2. Modules

| Module | Models | Lines of code it stands for |
|---|---|---|
| `DynamicBuffer` | abstract: the concept, on two sequences of bytes | — |
| `ByteWindow` | abstract: slicing, on a set of byte positions | — |
| `BufferSequence` | helper: a sequence as the places where its bytes are cut | — |
| `CircularBuffer` | `circular_buffer`, and the caller's stores | `circular_buffer.{hpp,cpp}` |
| `FlatBuffer` | `flat_buffer`, the caller's stores, a copy that shares the storage | `flat_buffer.hpp` |
| `StringBuffer` | `string_buffer` over an external string | `string_buffer.hpp` |
| `AnyCircularBuffer` | `any_dynamic_buffer_impl` over a ring, calls on the ring through `buffer()`, a copy of the ring | `dynamic_buffer.hpp`, `circular_buffer.hpp` |
| `AnyStringBuffer` | `any_dynamic_buffer_impl` over a string, and moved in use | `dynamic_buffer.hpp` |
| `SliceOf` | `slice_of`, one loop iteration per step, and its iterators | `slice.hpp` |
| `BufferPair` | slicing of buffers and pairs in place | `buffer.hpp`, `buffer_pair.{hpp,cpp}` |
| `Copy` | `copy`, one loop iteration per step | `copy.hpp` |
| `DataModel` | the data source of an `any_source`: a slice (`SliceOf`) read by `copy` (`Copy`) | `any_source.hpp` |
| `BatchedRead` | the loop that the two sources below share: batches, and where their bytes go | `any_source.hpp`, `any_read_source.hpp` |
| `AnyReadSource` | `any_read_source` over an external source | `any_read_source.hpp` |
| `AnySource` | `any_source`: handles that share data sources and external read sources | `any_source.{hpp,cpp}` |
| `AnyBuffers` | `any_buffers` and its iterators, in memory | `any_buffers.{hpp,cpp}` |
| `SequenceLemmas` | lemmas on sequences of bytes and sequences of buffers | — |
| `CircularBufferProofs` | theorems of `CircularBuffer` and `AnyCircularBuffer` | — |
| `FlatBufferProofs` | theorems of `FlatBuffer` | — |
| `StringBufferProofs` | theorems of `StringBuffer` and `AnyStringBuffer` | — |
| `SliceProofs` | theorems of `SliceOf` and `BufferPair` | — |
| `CopyProofs` | theorems of `Copy` and `DataModel` | — |
| `SourceProofs` | theorems of `AnySource` and `AnyReadSource` | — |
| `AnyBuffersProofs` | theorems of `AnyBuffers` | — |

How to read them. Data members keep their names (`in_pos_`, `out_size_`, ...),
and there is one action per member function, split where the code branches
(`ConsumeSome`/`ConsumeAll`, `Prepare`/`PrepareThrows`/`PrepareTraps`). `map` in
`PROJECT.json` gives the lines each definition stands for. Where two modules have
functions of one name and theorems side by side, one of them has a prefix (`Pair...`
in `BufferPair`, `RS...` in `AnyReadSource`). In addition to the
object's members a module has

* `held`: the buffers the last `prepare()` returned. They are pointers in the
  caller's hands, so the model keeps them as they were returned and lets the
  caller store through them (`Fill`) at any time. `commit`, and `consume` of a
  `string_buffer`, drop them. A `flat_buffer` keeps them: the concept invalidates
  them on `consume` (`DynamicBuffer.adoc:85-88`), but nothing in the code stops a
  caller from storing through them and committing them all the same, so
  `FlatBuffer` has both steps, without a guard on the caller. Its history variable
  `drained` tells whether the last readable byte was consumed since `prepare()`,
  which is when `commit` stops appending what was prepared;
* `outcome`: how the last call ended, with the exception it threw;
* `mem` or `str`: the bytes themselves, so that "the readable bytes are those
  the caller wrote" can be said at all.

Pointers are offsets. A `size_t` is a number in `0..SizeMax`; arguments range
over all of it, and each module assumes of its sizes only what an object in
memory satisfies (`SizesAssumption`: storage is at most half of `SizeMax`).
`SliceOf`, `Copy`, `AnyReadSource` and `AnySource` name bytes by their position
instead of giving them values, which tells every two bytes apart.

`AnyStringBuffer` begins with a `string_buffer` used by itself (`Bare`), which
`Wrap` moves into the wrapper; from then on every call goes through it.
`AnySource` keeps with each source how many bytes its callers were `told` of, and
with the current `read()` the destination and which byte of the source went
where. In `AnyBuffers` memory is a function from places (the storage of each
object, heap addresses, the static empty sequence) to the sequence last put
there; an iterator records which sequence made it and whether its object was
assigned to or destroyed since.

`DataModel` begins either with a program that calls `copy` itself, on any two
sequences, or with a data source; then `stage` says where its `read` is: the slice
is made, its loop runs, `copy` runs over the elements that the slice's iterators
show. It takes the actions of `SliceOf` and `Copy` as they are.

Two buffers on one storage. In `AnyCircularBuffer` a behaviour does one of three
things besides calling the wrapper (`besides`): nothing, calls on the ring through
`buffer()`, or calls on a copy of the ring. `behind` says which of the wrapper's
two arrays do not describe the ring: those that a call on `buffer()` has overtaken,
and `data_` of a wrapper constructed over a ring that holds bytes, until the first
`commit` or `consume` fills it. In the third case, and in
`FlatBuffer`, `copy` is the copy's view and `kept` the bytes it showed when it was
made, less what it has consumed; it is given up when the original consumes (a
ring, whose space may then be handed out again) or is drained (a flat buffer).

Definitions called `MUTANT of X` are plausible mistakes in `X`. Nothing refers
to them; `PROJECT.json` lists for each property a mutant that breaks it.

### Abstract specifications

`DynamicBuffer` states the concept for a caller that knows nothing of storage.
Where the library's own buffers differ the difference is a constant, so that
each refinement says what holds:

| | throws | refuses only what cannot fit | output survives `consume` (`KeepsOutput`) | may run out of memory |
|---|---|---|---|---|
| `circular_buffer` | `length_error` | yes | always | no |
| `flat_buffer` | `invalid_argument` | no (never moves bytes to the front) | unless drained | no |
| `string_buffer` | `invalid_argument` | yes | never | yes |

`output` is what a `commit` can append. After a `flat_buffer` was drained it keeps
its length and loses its bytes: the abstract variable `intact` is then FALSE, and a
store through the old sequence (`FillLate`) may change any byte a `commit` can
append, but never a readable one.

Each `ImplementsDynamicBuffer` is the abstract specification under a mapping
that reads the memory, together with `EachCall`: the step of `commit(n)` is the
abstract `Commit(n)` with the *same* `n`, and so for every call. Without it a
`commit(n)` that appends a wrong number of bytes would be excused as the commit
of another number. `ByteWindow` does the same for slices and pairs.

For the wrapper of a ring the mapping reads the wrapper's own arrays, `data_` and
`out_`, and never the ring behind them. They do not always describe the ring, so
`AnyImplementsDynamicBuffer` is restricted, openly, to states in which both do
(`UpToDate`): the initial state, if it is one, and the steps from one such state to
another. `CopiesAreCurrent` says what holds in the others: an array that no call
has overtaken is current, and a wrapper over a ring with bytes shows none of them
until its first `commit` or `consume`.

## 3. Runs

| Run | Question | Bounds |
|---|---|---|
| `AnyCircularBuffer` | is nothing handed out outside the storage, overlapping or moved; is the ring a `DynamicBuffer`; are the cached copies current; is the wrapper a `DynamicBuffer` while its copies are up to date; does a copy of the ring keep its bytes? | rings of 0–3 bytes, with `buffer()` and copies 0–2 (`BesidesCap`), two byte values, `SizeMax` 7, arrays of 2 buffers |
| `CircularBuffer_Defined` | is `prepare(0)` defined on an empty ring? (violated) | rings of 0–1 bytes |
| `FlatBuffer` | the same for `flat_buffer`; does a commit append what was prepared, and what if the buffer was drained since; is space reclaimed; does a copy keep its bytes? | storage of 0–4 bytes, `SizeMax` 9 |
| `AnyStringBuffer` | the same over a string, with failing allocations, moves of the buffer and of the wrapper, destruction; does the prepared span always point into the current allocation; is the wrapper a `DynamicBuffer`? | strings of at most 3 bytes, any capacity up to 3 |
| `AnyStringBuffer_Live` | does `data()`? (violated) | as `AnyStringBuffer` |
| `SliceOf` | do the counters agree with the iterators, do loops end, does each call drop what it promises, does an iterator keep its view? | up to 3 buffers, 4 bytes, empty buffers included |
| `SliceOf_Fault` | does an assertion fail? (violated) | the same |
| `DataModel` | `copy`: is the result the least of three sizes, are the bytes in order, the call finite? A data source: is the stream that its reads return gapless, is each read what `AnySource` takes for granted? | all sequences up to 3 buffers and 3 bytes, `SizeMax` 6 |
| `BufferPair` | does each slice of a pair drop what it promises? | both buffers up to 8 bytes |
| `AnyReadSource` | bytes in order over batches, errors sticky, calls return? | up to 4 buffers of 3 bytes in all, batches of 2, a source of up to 3 bytes |
| `AnySource` | do all handles of a source together get each byte once and in order, eof with the last byte; do calls return? | two handles, two sources of up to 2 bytes, up to 3 buffers, batches of 2 |
| `AnyBuffers` | does each object show its own sequence; do iterators reach and compare the sequence that made them? | two objects, two iterators, sequences of 0–1 buffers, as many heap addresses as can be in use at once |

A run of a wrapper takes every step of the buffer it wraps, with every argument,
so the properties of `CircularBuffer` and `StringBuffer` are checked there.
`Inv` in a module gathers the types and the relations between the members that the
calls have to keep; its named parts say what each is about.

Why the bounds are enough. The position arithmetic of a ring distinguishes
"before the end", "at the end" and "past the end" for the first readable, the
first writable and the last byte; three bytes give every combination (a readable,
a writable and a free byte at once, each of them at the wrap), and sizes 0 and 1
the degenerate ones. An argument only matters relative to the counters
it is compared with, and `SizeMax` leaves arguments larger than any counter and
large enough for a sum to wrap (the mutant `RefusedBySum` is found). Three
buffers are a first, a last and one in between, each of which may be empty; the
loops treat all buffers in between alike. Four buffers in batches of two are a
full batch, a partial one, and a second call of the source after either; three
are a full batch and a partial one. Two handles and two sources allow a handle to
leave a source that another still reads, and a third source to be made when both
have left one. Two objects and two iterators allow a copy to outlive its
original, and an iterator to outlive its object and meet one of the next object
at the same address; the operations on an iterator distinguish its position only
from the end. Two
byte values are enough where bytes are compared with where they came from.

The runs of `AnyCircularBuffer`, `AnyStringBuffer`, `SliceOf` and `DataModel`, and
those that end in a violation, turn deadlock checking off: a ring dies in the
division by zero, a `string_buffer` is destroyed, a slice can fail its assertion, a
program's one call of `copy` returns. Where a program can always make another call (`FlatBuffer`,
`BufferPair`, `AnyReadSource`, `AnySource`, `AnyBuffers`) it is on.

Fairness. `SliceOf` assumes weak fairness of its loops, `DataModel` of the steps of
a running `read` or `copy`, and `AnyReadSource` and `AnySource` of the step that
calls the source. A call that was made runs on, in the caller's thread; the last
two also assume that the source answers. The other modules assume none. No caller
is assumed ever to make a call, and no step of a caller is fair.

## 4. Proofs

Every theorem holds for every value of the constants that satisfies the assumption
of its module, and for no others:

* `SizesAssumption`, `FlatAssumption`, `StringAssumption`, `CopyAssumption`,
  `SliceAssumption`, `PairAssumption`: sizes are natural numbers, what lies in
  memory is at most half of `SizeMax`;
* `BatchAssumption`, `AnyAssumption`: the array of buffers has room for at least one;
  a place nobody stored to is not taken for a byte;
* `AnySourceAssumption`: the empty source is none of the others;
* `AnyBuffersAssumption`: finitely many objects and iterators, and more heap
  addresses than objects and iterators together, so that an allocation always
  finds one; the places are different.

All are evaluated by the runs. The two theorems on a ring behind the wrapper have
`N > 1` as their hypothesis: a ring returns two buffers, and
`unroll` (`dynamic_buffer.hpp:94-107`) keeps the first `N` of them. Nothing in the
code sets `N` to less than its default, 8 (`:78`).

| Module | Theorem | States |
|---|---|---|
| `CircularBufferProofs` | `AlwaysInv` | the inductive invariant, type correctness included |
| | `AlwaysHeldIsOutput` | the sequence `prepare()` returned stays the writable part of the ring until `commit()`, across any `consume()` |
| | `AlwaysBuffersInStorage` | no buffer from `data()` or `prepare()` leaves the storage |
| | `AlwaysDisjoint` | no byte is both readable and writable |
| | `AlwaysDataStaysValid` | no step that does not consume moves a readable byte |
| | `CircularBufferIsDynamicBuffer` | the ring implements `DynamicBuffer`, each call the abstract call with the same argument |
| | `AlwaysCopiesAreCurrent` | the buffers the wrapper keeps are those of the ring, unless a call on `buffer()` overtook them; before the first `commit` or `consume` it shows nothing of a ring that holds bytes |
| | `AnyCircularBufferIsDynamicBuffer` | the wrapper's own arrays are those of a `DynamicBuffer`, call by call, between states in which both are up to date |
| | `AlwaysCopyKeepsBytes` | a copy of the ring keeps the bytes it was made with |
| `FlatBufferProofs` | `AlwaysInv`, `AlwaysDisjoint`, `AlwaysCopyKeepsBytes` | the invariants of the run |
| | `AlwaysCommitAppends` | `commit()` appends what was prepared, across `consume()`, unless the buffer was drained since; then always other bytes, at the front of the storage |
| | `FlatBufferIsDynamicBuffer` | `flat_buffer` implements the `DynamicBuffer` whose output survives `consume` unless drained |
| `StringBufferProofs` | `AlwaysInv` | the string reaches to the end of what is prepared, and not past its limits |
| | `StringBufferIsDynamicBuffer` | `string_buffer` implements `DynamicBuffer`, move and destruction included |
| | `AlwaysOutIsLive` | the span that the wrapper's `prepare()` returned points into the current allocation |
| | `AnyStringBufferIsDynamicBuffer` | the wrapped string implements `DynamicBuffer`, to a caller who does not look at a stale `data()` |
| `SliceProofs` | `AlwaysInv` | the counters of a slice agree with its iterators, for every sequence and order of calls |
| | `AlwaysIteratorKeepsItsView` | an iterator shows what it was made of, whatever is called later |
| | `SliceIsByteWindow` | each slicing call drops what its name and argument say |
| | `LoopsShorten` | a loop has at most one turn per buffer and one more |
| | `PairAlwaysTypeOK`, `PairIsByteWindow` | the same of buffers and pairs sliced in place |
| `CopyProofs` | `AlwaysInv`, `AlwaysCopiedInOrder`, `AlwaysResultIsLeast` | any two sequences, any `at_most` |
| | `CopyShortens` | a `copy` has at most a turn per buffer of either sequence and one more |
| | `AlwaysOneStream` | the reads of a data source return its bytes in order, each once |
| | `DataAlwaysCopies` | `copy` keeps its promises in a data source as well |
| | `AlwaysIsDataRead` | slice and `copy` together are the data source that `AnySource` takes for granted |
| | `ReadsShorten` | such a `read` ends after at most `2 * K + k1 + 6` steps |
| `SourceProofs` | `AlwaysReadsInOrder`, `AlwaysSuccessFills`, `AlwaysFailureSticks`, `RSBatchesShorten` | `AnyReadSource`, for any number of buffers in a batch |
| | `AlwaysInv`, `AlwaysDeliversInOrder`, `AlwaysEofWithLastByte`, `BatchesShorten` | `AnySource`, for any number of handles and sources |
| `AnyBuffersProofs` | `AlwaysInv`, `AlwaysUsableReaches`, `AlwaysEqualIsSame` | any number of objects and iterators |

### The ring

`TypeOK` is not inductive: `commit` adds the counters `in_len_`
and `out_size_`, which stay in range only if their *sum* does. Nor is
`HeldIsOutput`: it needs that positions stay below `cap_`. The conjunction `Inv`
(types, `in_len_ + out_size_ <= cap_`, the held buffers inside the storage,
`HeldIsOutput`) is inductive: `prepare` establishes the sum with its guard, every
other call decreases or keeps it. The one hard step is `consume`, which moves
`in_pos_` while a sequence is held: `ModTwoSteps` says that moving a position by
`k` and then by `l - k` modulo the capacity is moving it by `l`, so the end of
the readable bytes, where the held sequence starts, stays where it is; and when
everything is consumed the position is only reset if `out_size_ = 0`, which is
what the code's comment at `circular_buffer.cpp:76` is about. The other theorems
follow from `Inv` and from `RingPairAt`, which gives the offset of the i-th byte
of a pair from `data()` or `prepare()`: two bytes of the ring less than `cap_`
apart are different.

For the refinement, `View` restates the two sequences of the refinement mapping
in one coordinate: byte `i` of `data()` is slot `i - 1` of the ring counted from
`in_pos_`, byte `j` of the held sequence is slot `in_len_ + j - 1`, and different
slots are different bytes. `View` follows from `Inv` in every state
(`InvView`), so also in the next one (`InvViewNext`). Each call is then a
statement about slots: a store changes one slot, which is none of the readable
ones; `commit` moves the border between the two ranges and so appends a prefix
(`PrefixAppended`); `consume` renumbers the slots (`ConsumeMoves`) and so drops a
prefix (`PrefixDropped`). A division by zero in `prepare(0)` changes nothing the
abstract buffer has and maps to a stutter.

Behind the wrapper, `ArraysInv` says what the arrays hold: the ring's two sequences
as they are now, unless a call on `buffer()` has overtaken them, and nothing in
`data_` before it is filled the first time. It is inductive
because `prepare` fills the array of writable buffers and leaves the readable bytes
alone, `commit` and `consume` fill the other, and neither leaves a sequence the
caller may store through without refreshing it. In a state that is `UpToDate`
the wrapper's view is the ring's (`SeenIsPair`), and the steps from one such state to
another are those already proved (`SameSteps`).

A second ring on the same storage lags behind: `CopyInv` says that its bytes begin
some distance `d` into the readable bytes of the first ring and end inside them.
The first ring stores only behind its readable bytes, so it never reaches what the
copy shows, and a `consume` of the copy only increases `d`. `besides # "copy"` is
part of it, since a program that goes past the wrapper has no copy.

### flat_buffer

Everything lies in this order in the storage: what a copy shows, the readable
bytes, the buffer the caller holds. `BuffersInStorage` does not say so, and is not
inductive: a store through the held buffer must not reach the readable bytes, and
a commit is only harmless if the held buffer begins where they end. `HeldIsOutput`
says both, the second as long as the buffer was not drained since `prepare()`;
`CopyBehind` says the first for the copy. With `EmptyOffersEverything` they make
`Inv` inductive. Of a drained buffer `HeldIsOutput` says that nothing is readable,
so that a late store cannot reach a readable byte, and that the held bytes do not
begin at the front of the storage, where `commit` appends from now on: hence the
second half of `CommitAppendsPrepared`. The refinement then only reads two adjacent
regions, with the same two lemmas on prefixes as the ring; draining moves the
second of them, which the abstract `Consume` allows "unless drained" and no
other call does.

### string_buffer

The readable bytes are the beginning of the string and the prepared ones follow, so
`resize()` changes neither and `erase()` drops a prefix of both. `StringReachesOutput`
bounds the sizes by the length of the string and `WithinLimit` bounds the length by
the limits; neither is inductive alone. `FitsInv` is what every call comes
down to. A move is the abstract `Consume(in_size_)`, the destructor the abstract
`Consume(0)`, which discards what was only prepared.

The wrapper's copies are as old as the call that made them. `CopiesInv` says of each
what it is a copy of: `out_` of the sequence the caller holds, while there is one;
`data_` of the readable bytes in *some* allocation, and of their present number
unless the buffer was moved. That is all that is true of `data_` (`DataIsLive` is
violated, see below), and enough: the refinement lets the caller look at `data_`
only while its allocation is the current one.

### Slices and pairs

A slice is shown to be a window: the bytes it shows are all those between `Lo`, the
first byte of its first buffer that is not cut off, and `Hi`, the end of its last.
`Shape` is inductive: types, `Consistent` (`len_` is the distance of the iterators,
`size_` that of `Lo` and `Hi`, what is cut off at either end lies inside the
buffer) and `IteratorInside`. `size_` alone would not do: a loop takes a whole
buffer off at once and needs to know what it still had. That counting the window byte
by byte gives `size_`, which is what `Inv` promises, follows from `Shape` and
needs `BufferAt`: every byte below the end lies in some buffer, the last that
begins at or before it. It is the one place where a sequence of any length must be
searched, and it is done by counting (`LastOfInitial`), not by induction.

An iterator holds all it needs: `ViewInv` says that the view it was made of is what
`Element` gives at each index for the fields it carries, so no later call on the
slice can matter.

For the refinement, `First` and `Last` are where the window *will* be when the
running call is done, so a call moves one of them once, when it is made, and the
turns of its loop move neither (`CallMoves`). How many bytes then lie before and
after a byte of the window is subtraction (`WindowMoves`). `EndsMove` does the same for the
abstract side, and `PairMoves` for a pair: where both of its buffers have bytes the second
begins where the first ends (`Adjacent`), which every slicing function keeps.

### copy, and the data source

`Cuts` states of two cuts at any distance that they ascend, and not of neighbours
only, so that no induction over the buffers is needed. In `Copy` the invariant
`InStep` says that both iterators have passed exactly `total` bytes; that an
iterator never passes the end of its buffer is `ItAdvances`, used for both sides.
The loop ends because `total` is `at_most` or one iterator is at its end, where it
has passed the whole sequence: that is `ResultIsLeast`.

For the composition the lemmas on slices are used as they are, with nobody holding an
iterator (`S == INSTANCE SliceProofs`). `DataInv` follows `stage`: when the slice
is made it shows everything, while its loop runs its window is what was not read
yet, and when `copy` runs its content is. `ElementsAreCuts` connects the two: the
elements which the slice's iterators show, its last ones cut short or empty, are a
sequence of buffers with as many bytes as the slice, so `copy` may be given them and
`ResultIsLeast` says how many arrive. `BytesRead` says which: byte `i` of such a
sequence is the byte `nread_ + i` of the data. A read then extends what earlier ones
returned by exactly what is new (`GoesOn`). That such a read is one of
`AnySource`'s (`IsDataRead`) is where the two models of a data source meet.

### The sources

In `AnyReadSource` and `AnySource` what makes the invariant inductive is
`BatchesMeet`: a batch after which the loop goes on was filled, so `result` is where
the next buffer begins, and the source is `result` bytes from where the call
found it. `EachByteOnce` follows for the source that is read, since no other is
touched, and handles can only be changed between reads (`IdleShared`), when
positions are what callers were told. `EofWithLastByte` needs it to know that the
bytes told are the bytes read.

### any_buffers

Each action that moves a pointer ends by freeing what nobody points to. The proof
takes it in two halves: the state that the action asks for is `Consistent`, which is
`Inv` but for the clause that nothing leaks, and `Update` makes `Inv` of any
consistent state (`UpdateInv`): it frees nothing that can still be reached.
`HeapHasRoom` is the counting: an address in use has an owner, owners are fewer than
addresses, so one is free and no construction is ever stuck. The rest is said once
for the two things that happen to an object, to be given a sequence (`PutInv`)
and to let go of one (`DropInv`), for both of which iterators into its storage become
stale (`StaleIterators`) and those into the heap do not.

### Loops end

That a call returns is liveness, which the provers cannot show, and it has two
halves. The one that is about the code is proved: `LoopsShorten`, `CopyShortens`,
`ReadsShorten`, `BatchesShorten` and `RSBatchesShorten` say that while a call runs
nothing but its own steps happens, and that each takes one off a natural number which the
theorem names, also a step that handles no byte. The other half, that a caller's
thread runs on, is the fairness of the modules, and the runs put both together.

### Only model-checked

* Liveness: `CallsReturn` (`SliceOf`, `DataModel`) and `ReadsReturn`
  (`AnyReadSource`, `AnySource`). It rests on `ENABLED`, which the provers do not have;
  what they can show of it is above.
* What the three runs with a violation show.

Every other property of a run is stated by a theorem. No module uses `RECURSIVE`.
The invariants of the proofs that no run lists (`ArraysInv`, `CopyInv`, `CopiesInv`,
`ViewInv`, `DataInv`) hold in every state of those runs' instances, which TLC was
asked apart from the runs; `DataInv` for example in all 78694 states of `DataModel`.
They are stronger than what the runs check, and proved, so no run is spent on them.

## 5. Where code and documentation part

Three are shown by runs (`findings` in `PROJECT.json`):

* a `circular_buffer` of capacity 0, the default-constructed one included,
  divides by zero in `prepare(0)` (`circular_buffer.cpp:42`);
* `any_dynamic_buffer::prepare` does not refresh the copy behind `data()`, which
  after a reallocation of the string points into freed memory
  (`dynamic_buffer.hpp:158`);
* `slice_of` keeps `prefix_` when `keep_prefix(0)` empties it; a later
  `remove_prefix` counts it into `size_` and the next `keep_prefix` fails an
  assertion (`slice.hpp:190`, `:239`).

The following are in the models, the first two stated by properties that pass, but
are not runs of their own:

* `flat_buffer::consume` of everything rewinds although bytes are prepared
  (`flat_buffer.hpp:151`), and a later `commit` appends other bytes than
  those prepared: whatever is at the front of the storage.
  `DynamicBuffer.adoc:85-88` invalidates the sequence, so this breaks no promise to a
  caller that follows it, but the code accepts the calls and `circular_buffer` handles
  them (`circular_buffer.cpp:76-82`). `CommitAppendsPrepared` says exactly when it
  happens, the refinement names it (`KeepsOutput` is "unless drained").
* `any_dynamic_buffer::data()` is empty before the first `commit` or `consume`
  whatever the wrapped buffer holds, through any number of calls of `prepare`
  (`dynamic_buffer.hpp:85`, `:107-114`, `:146-151`), while `DynamicBuffer.adoc:63-64`
  has it represent the input sequence. A wrapper over a ring that holds bytes is
  therefore no `DynamicBuffer` at first. `CopiesAreCurrent` states it, and
  `AnyImplementsDynamicBuffer` and its theorem leave those states out.
* `flat_buffer::prepare` refuses what would fit after moving bytes to the front
  (`flat_buffer.hpp:115`); `DynamicBuffer.adoc:73` has it throw only when
  `size() + n` exceeds `max_size()`. `flat_buffer` and `string_buffer` throw
  `invalid_argument`, the document says `length_error`.
* `circular_buffer::capacity()` is what is left to be written
  (`circular_buffer.hpp:110`), the document describes it as what the buffer can
  hold without allocating (`DynamicBuffer.adoc:56-59`).
* The move constructor of `string_buffer` (`string_buffer.hpp:53-59`) hands over
  the string but not the sizes: the moved-to buffer has no readable bytes. The
  refinement treats it as the consumption of everything.
* `any_read_source` asserts that a source fills its destination or reports an
  error (`any_read_source.hpp:71`, `:83`); `ReadSource.adoc:40-41` does not say
  so. A `read` into no buffers returns with the caller's `ec` untouched
  (`:63`, against `ReadSource.adoc:42`).
* An iterator of `any_buffers` does everything through the sequence it came from,
  its own destruction included (`any_buffers.hpp:460`). After a small sequence was
  assigned to or destroyed, destroying an iterator of it calls into whatever is
  in that storage. `AnyBuffers` has the program not do so (`Reaches`); for a
  sequence on the heap nothing needs to be avoided (`UsableReaches`).
* A sequence that lives in an `any_buffers` is never destroyed: the deleter does
  nothing (`any_buffers.hpp:164-166`), and assignment constructs the next one over
  it (`:248-250`). One that owns memory, a `std::vector` of buffers for example,
  leaks it.
* Assigning an `any_source` to itself by move leaves it empty (`any_source.cpp:108`).
* `any_buffers.hpp:33` speaks of checks of alignment and of moves that do not
  throw; the code compares sizes. `any_source.hpp:37` and `:134` mention a
  `get_buffers` that does not exist. `slice_of::keep_suffix_impl` has no caller.

## 6. Not modelled, and why

* The bytes behind `any_source::data()`, and `size()`: they change no state.
* What `unroll` drops: the runs have `N = 2` and neither wrapped buffer has more
  than two regions.
* Destructors of wrapped sequences and what they own.
* A copy of a `circular_buffer` or `flat_buffer` that writes: two buffers that both
  write overwrite each other, and nothing in the code prevents it. Copies are
  followed as readers, one at a time.
* A wrapped buffer that is called through `buffer()` while a copy of it is read:
  each is modelled, not both at once.
* `any_stream`, the sinks: interfaces that nothing in the library implements.
* Type traits, concepts, conversions, error category, configuration: no state.
* Memory of overlapping sequences in `copy`: `memcpy` excludes it.

## 7. Plan

Done: the dynamic buffers, their abstract specification and their wrapper; the
algorithms on sequences; the type-erased sources and sequences; the composition of
slice, copy and data source; proofs of every safety property and every refinement
that a run checks.

What is left, in this order:

1. A composition: `any_read_source` filling the sequence a buffer prepared. Both
   sides are checked and proved separately, and what the source needs of the sequence
   (that it stays where it is until `commit`) is `AlwaysHeldIsOutput`.
2. `AnySource` over `DataModel` as a refinement between the two specifications, of
   which `AlwaysIsDataRead` is the step.
