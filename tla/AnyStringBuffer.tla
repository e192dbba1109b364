-------------------------- MODULE AnyStringBuffer --------------------------
(***************************************************************************)
(* any_dynamic_buffer_impl<string_buffer, N>: a string_buffer behind the   *)
(* type-erased interface any_dynamic_buffer.                               *)
(*                                                                         *)
(* The wrapper keeps a copy of the buffers data() returned, made after the *)
(* last commit() or consume().  Here such a copy also carries the string's *)
(* allocation it points into, named by the capacity of that allocation.    *)
(* The string_buffer is used by itself first, then moved into the wrapper, *)
(* which drops its readable bytes (StringBuffer, Move), and used through   *)
(* the wrapper from then on.                                               *)
(*                                                                         *)
(* A prepare() that reallocates the string leaves those copies behind: a   *)
(* caller does not look at data() from then to the next commit() or        *)
(* consume().  Nor does one that moves the wrapper itself: the copies are  *)
(* taken along, but they show the readable bytes that the move has lost.   *)
(***************************************************************************)
EXTENDS StringBuffer

VARIABLES
  wrapped,       \* the wrapper has been constructed
  moved,         \* the wrapper was moved since data_ was made
  data_,         \* the copies of the buffers that data() returned
  out_           \* the copies of the buffers that prepare() returned

anyVars == <<vars, wrapped, moved, data_, out_>>

-----------------------------------------------------------------------------
(* The copies of one region of the string's current allocation: unroll()   *)
(* of a sequence of one buffer.                                            *)
Copied(r) == <<[pos |-> r.pos, len |-> r.len, allocation |-> strcap]>>

AnyInit ==
  /\ Init
  /\ wrapped = FALSE
  /\ moved = FALSE
  /\ data_ = <<>>
  /\ out_ = <<>>

(* A call of the string_buffer itself.                                     *)
Bare == ~wrapped /\ Next /\ UNCHANGED <<wrapped, moved, data_, out_>>

(* The constructor moves the string_buffer; both arrays are empty.         *)
Wrap ==
  /\ ~wrapped
  /\ wrapped' = TRUE
  /\ Move
  /\ UNCHANGED <<moved, data_, out_>>

(* MUTANT of AnyPrepare: the copy is not made again when only the content  *)
(* or the place of the output sequence can have changed, not its size.     *)
AnyPrepareReuses(n) ==
  /\ Prepare(n)
  /\ out_' = IF out_ # <<>> /\ out_[1].len = n THEN out_ ELSE Copied(held)'
  /\ UNCHANGED <<wrapped, moved, data_>>

AnyPrepare(n) ==
  /\ Prepare(n)
  /\ out_' = Copied(held)'
  /\ UNCHANGED <<wrapped, moved, data_>>

AnyPrepareThrows(n) ==
  /\ PrepareThrows(n) \/ PrepareRunsOut(n)
  /\ UNCHANGED <<wrapped, moved, data_, out_>>

AnyFill(i, b) == Fill(i, b) /\ UNCHANGED <<wrapped, moved, data_, out_>>

AnyCommit(n) ==
  /\ Commit(n)
  /\ data_' = Copied(data)'
  /\ moved' = FALSE
  /\ UNCHANGED <<wrapped, out_>>

(* MUTANT of AnyConsume: the copy is not made again when nothing is left.  *)
AnyConsumeKeepsLast(n) ==
  /\ Consume(n)
  /\ data_' = IF n < in_size_ THEN Copied(data)' ELSE data_
  /\ moved' = FALSE
  /\ UNCHANGED <<wrapped, out_>>

AnyConsume(n) ==
  /\ Consume(n)
  /\ data_' = Copied(data)'
  /\ moved' = FALSE
  /\ UNCHANGED <<wrapped, out_>>

(* The implicit move constructor: b_ is moved, the arrays are copied.      *)
AnyMove == Move /\ moved' = TRUE /\ UNCHANGED <<wrapped, data_, out_>>

AnyDestroy == Destroy /\ data_' = <<>> /\ out_' = <<>> /\ UNCHANGED <<wrapped, moved>>

AnyCall ==
  /\ wrapped
  /\ \/ \E n \in 0..SizeMax :
          \/ AnyPrepare(n)
          \/ AnyPrepareThrows(n)
          \/ AnyCommit(n)
          \/ AnyConsume(n)
     \/ \E i \in 1..held.len, b \in Byte : AnyFill(i, b)
     \/ AnyMove
     \/ AnyDestroy

AnyNext == alive /\ (Bare \/ Wrap \/ AnyCall)

AnySpec == AnyInit /\ [][AnyNext]_anyVars

-----------------------------------------------------------------------------
IsLive(copies) == \A k \in 1..Len(copies) : copies[k].allocation = strcap

(* The bytes a user of the interface reads; one that does not look behind  *)
(* a pointer into an allocation that was given back, or at copies from     *)
(* before a move, sees the string's.                                       *)
SeenInput ==
  IF data_ # <<>> /\ IsLive(data_) /\ ~moved THEN RegionBytes(data_[1])
                                             ELSE RegionBytes(data)

SeenOutput ==
  IF held.len = 0 THEN <<>>
  ELSE RegionBytes(IF wrapped THEN out_[1] ELSE held)

-----------------------------------------------------------------------------
(* Properties.                                                             *)

(* The span that the last prepare() returned (dynamic_buffer.hpp:160)      *)
(* describes the string's current allocation for as long as the caller may *)
(* write to it; and the copy behind data() has the right size, at least.   *)
OutIsLive ==
  /\ wrapped /\ held.len > 0 => /\ IsLive(out_)
                                /\ out_[1].pos = held.pos
                                /\ out_[1].len = held.len
  /\ data_ # <<>> /\ ~moved => data_[1].len = in_size_

(* What data() returns (dynamic_buffer.hpp:149) points into the string's   *)
(* current allocation: no prepare() since the copy was made has moved the  *)
(* string.  DynamicBuffer.adoc:63-64: data() represents the memory         *)
(* associated with the input sequence.                                     *)
DataIsLive == wrapped /\ in_size_ > 0 => IsLive(data_)

(* To such a caller the type-erased view of a string_buffer is still a     *)
(* DynamicBuffer.                                                          *)
AnyAbstract == INSTANCE DynamicBuffer WITH
  max_size <- max_size_,
  input <- IF alive THEN SeenInput ELSE str,
  output <- SeenOutput,
  intact <- TRUE,
  PrepareError <- "invalid_argument",
  Compacts <- TRUE,
  KeepsOutput <- "never",
  MayRunOut <- TRUE

(* Each call of the wrapper is the abstract call with the same argument.   *)
AnyEachCall ==
  wrapped =>
  /\ \A n \in 0..SizeMax :
       /\ AnyPrepare(n) => AnyAbstract!Prepare(n)
       /\ AnyPrepareThrows(n) =>
            AnyAbstract!PrepareThrows(n) \/ AnyAbstract!PrepareRunsOut(n)
       /\ AnyCommit(n) => AnyAbstract!Commit(n)
       /\ AnyConsume(n) => AnyAbstract!Consume(n)
  /\ \A i \in 1..held.len, b \in Byte :
       AnyFill(i, b) => AnyAbstract!Fill(i, b)

(* Both together, for the wrapper (dynamic_buffer.hpp:146-181).            *)
AnyImplementsDynamicBuffer == AnyAbstract!Spec /\ [][AnyEachCall]_anyVars
=============================================================================
