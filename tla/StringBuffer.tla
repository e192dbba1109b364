---------------------------- MODULE StringBuffer ----------------------------
(***************************************************************************)
(* string_buffer: a dynamic buffer over a std::string the caller owns.     *)
(*                                                                         *)
(* One action per member function that changes state, the move constructor *)
(* and the destructor included, and one for the caller storing a byte      *)
(* through the buffer the last prepare() returned ("held").                *)
(*                                                                         *)
(* The string is external: it is modelled by its bytes and its capacity,   *)
(* as far as size(), capacity(), resize() and erase() show them.  Neither  *)
(* resize() nor erase() gives capacity back, so a reallocation always      *)
(* increases strcap, and strcap tells one allocation from the next.        *)
(*                                                                         *)
(* Of the objects that a chain of moves leaves behind only the last has a  *)
(* string (s_); the variables are that object's.  owner changes with each  *)
(* move.                                                                   *)
(***************************************************************************)
EXTENDS Naturals, Sequences

CONSTANTS
  Byte,          \* the values of a byte
  Zero,          \* the byte std::string::resize() appends
  StrMax,        \* std::string::max_size()
  SizeMax        \* the largest std::size_t

ASSUME StringAssumption ==
  /\ Zero \in Byte
  /\ StrMax \in Nat /\ SizeMax \in Nat /\ 2 * StrMax <= SizeMax

VARIABLES
  str,           \* the bytes of the string
  strcap,        \* the capacity of the string
  max_size_,
  in_size_,      \* number of readable bytes
  out_size_,     \* number of writable bytes
  held,          \* the buffer the last prepare() returned
  outcome,       \* how the last call ended
  owner,         \* which of two consecutive owners of the string this is
  alive          \* FALSE when the last owner has been destroyed

vars == <<str, strcap, max_size_, in_size_, out_size_, held, outcome, owner,
          alive>>

-----------------------------------------------------------------------------
(* The string.                                                             *)

Resized(s, n) == [i \in 1..n |-> IF i <= Len(s) THEN s[i] ELSE Zero]

Erased(s, n) == SubSeq(s, n + 1, Len(s))

(* The capacities the string may have after growing to n characters.       *)
GrownCap(n) == IF n <= strcap THEN {strcap} ELSE n..StrMax

-----------------------------------------------------------------------------
Region(p, n) == [pos |-> p, len |-> n]

NoRegion == Region(0, 0)

(* Regions are offsets into the string.                                    *)
RegionBytes(r) == SubSeq(str, r.pos + 1, r.pos + r.len)

data == Region(0, in_size_)

capacity == (IF strcap <= max_size_ THEN strcap ELSE max_size_) - in_size_

-----------------------------------------------------------------------------
(* The constructor, given a string and a limit.  A string that is longer   *)
(* than the limit is cut.                                                  *)
Init ==
  /\ \E limit \in 0..SizeMax :
       max_size_ = IF limit > StrMax THEN StrMax ELSE limit
  /\ \E n \in 0..StrMax : \E s \in [1..n -> Byte] :
       /\ str = IF n > max_size_ THEN Resized(s, max_size_) ELSE s
       /\ strcap \in n..StrMax
  /\ in_size_ = Len(str)
  /\ out_size_ = 0
  /\ held = NoRegion
  /\ outcome = "returned"
  /\ owner = 0
  /\ alive = TRUE

Refused(n) == n > max_size_ - in_size_

(* MUTANT of Prepare: the string is resized to the requested size only.    *)
PrepareResizesToN(n) ==
  /\ ~Refused(n)
  /\ str' = IF Len(str) < n THEN Resized(str, n) ELSE str
  /\ strcap' \in GrownCap(n)
  /\ out_size_' = n
  /\ held' = Region(in_size_, n)
  /\ outcome' = "returned"
  /\ UNCHANGED <<max_size_, in_size_, owner, alive>>

Prepare(n) ==
  /\ ~Refused(n)
  /\ str' = IF Len(str) < in_size_ + n THEN Resized(str, in_size_ + n) ELSE str
  /\ strcap' \in GrownCap(in_size_ + n)
  /\ out_size_' = n
  /\ held' = Region(in_size_, n)
  /\ outcome' = "returned"
  /\ UNCHANGED <<max_size_, in_size_, owner, alive>>

PrepareThrows(n) ==
  /\ Refused(n)
  /\ outcome' = "invalid_argument"
  /\ UNCHANGED <<str, strcap, max_size_, in_size_, out_size_, held, owner,
                 alive>>

(* The reallocation in resize() fails; the string is as it was, and        *)
(* out_size_ has not been assigned yet.                                    *)
PrepareRunsOut(n) ==
  /\ ~Refused(n)
  /\ in_size_ + n > strcap
  /\ outcome' = "bad_alloc"
  /\ UNCHANGED <<str, strcap, max_size_, in_size_, out_size_, held, owner,
                 alive>>

(* The caller stores a byte through the buffer it holds.                   *)
Fill(i, b) ==
  /\ i \in 1..held.len
  /\ str' = [str EXCEPT ![held.pos + i] = b]
  /\ UNCHANGED <<strcap, max_size_, in_size_, out_size_, held, outcome, owner,
                 alive>>

Commit(n) ==
  /\ in_size_' = in_size_ + (IF n < out_size_ THEN n ELSE out_size_)
  /\ out_size_' = 0
  /\ held' = NoRegion               \* documented as invalidated
  /\ outcome' = "returned"
  /\ UNCHANGED <<str, strcap, max_size_, owner, alive>>

(* n < in_size_: the bytes are erased, and everything behind them moves.   *)
ConsumeSome(n) ==
  /\ n < in_size_
  /\ str' = Erased(str, n)
  /\ in_size_' = in_size_ - n
  /\ out_size_' = 0
  /\ held' = NoRegion
  /\ outcome' = "returned"
  /\ UNCHANGED <<strcap, max_size_, owner, alive>>

ConsumeAll(n) ==
  /\ n >= in_size_
  /\ in_size_' = 0
  /\ out_size_' = 0
  /\ held' = NoRegion
  /\ outcome' = "returned"
  /\ UNCHANGED <<str, strcap, max_size_, owner, alive>>

Consume(n) == ConsumeSome(n) \/ ConsumeAll(n)

(* string_buffer b1(std::move(b0)): s_ and max_size_ are handed over, but  *)
(* the sizes of b1 keep their initializers: readable bytes are lost.       *)
Move ==
  /\ in_size_' = 0
  /\ out_size_' = 0
  /\ held' = NoRegion
  /\ outcome' = "returned"
  /\ owner' = 1 - owner
  /\ UNCHANGED <<str, strcap, max_size_, alive>>

(* MUTANT of Destroy: the string keeps the bytes that were only prepared.  *)
DestroyLeavesString ==
  /\ alive' = FALSE
  /\ in_size_' = 0
  /\ out_size_' = 0
  /\ held' = NoRegion
  /\ outcome' = "returned"
  /\ UNCHANGED <<str, strcap, max_size_, owner>>

(* The destructor of the object that has the string: the string is left    *)
(* with the readable bytes.                                                *)
Destroy ==
  /\ alive' = FALSE
  /\ str' = Resized(str, in_size_)
  /\ in_size_' = 0
  /\ out_size_' = 0
  /\ held' = NoRegion
  /\ outcome' = "returned"
  /\ UNCHANGED <<strcap, max_size_, owner>>

Next ==
  /\ alive
  /\ \/ \E n \in 0..SizeMax :
          \/ Prepare(n)
          \/ PrepareThrows(n)
          \/ PrepareRunsOut(n)
          \/ Commit(n)
          \/ Consume(n)
     \/ \E i \in 1..held.len, b \in Byte : Fill(i, b)
     \/ Move
     \/ Destroy

Spec == Init /\ [][Next]_vars

-----------------------------------------------------------------------------
(* Properties.                                                             *)

(* The types of the variables.                                             *)
TypeOK ==
  /\ str \in Seq(Byte)
  /\ strcap \in 0..StrMax
  /\ max_size_ \in 0..StrMax
  /\ in_size_ \in 0..StrMax
  /\ out_size_ \in 0..StrMax
  /\ held \in [pos : 0..StrMax, len : 0..StrMax]
  /\ outcome \in {"returned", "invalid_argument", "bad_alloc"}
  /\ owner \in 0..1
  /\ alive \in BOOLEAN

(* The string always reaches to the end of the prepared bytes, so that the *)
(* next commit() can only expose bytes of the string: prepare() must not   *)
(* resize to less than in_size_ + n (string_buffer.hpp:118), and the       *)
(* erase() in consume() (:138) takes away no more bytes than in_size_      *)
(* loses.                                                                  *)
StringReachesOutput ==
  /\ in_size_ + out_size_ <= Len(str)
  /\ held.pos + held.len <= Len(str)
  /\ held.len = out_size_
  /\ out_size_ > 0 => held.pos = in_size_

(* The string never grows past the limit, nor past its own capacity, and   *)
(* capacity() (string_buffer.hpp:97) does not underflow.                  *)
WithinLimit ==
  /\ Len(str) <= max_size_
  /\ Len(str) <= strcap
  /\ capacity \in Nat

(* The sizes, the string and its limits agree (string_buffer.hpp:111-146): *)
(* the types, the string up to the prepared bytes, and the limits.         *)
Inv == TypeOK /\ StringReachesOutput /\ WithinLimit

(* string_buffer implements DynamicBuffer, with an output sequence that    *)
(* consume() discards; to be moved is to be consumed whole (:53-59); and   *)
(* its destructor leaves in the string exactly the readable bytes.         *)
Abstract == INSTANCE DynamicBuffer WITH
  max_size <- max_size_,
  input <- IF alive THEN RegionBytes(data) ELSE str,
  output <- RegionBytes(held),
  intact <- TRUE,
  PrepareError <- "invalid_argument",
  Compacts <- TRUE,
  KeepsOutput <- "never",
  MayRunOut <- TRUE

(* Each call is the abstract call with the same argument: without this, a  *)
(* commit(n) that appends m bytes would pass for commit(m).                *)
EachCall ==
  /\ \A n \in 0..SizeMax :
       /\ Prepare(n) => Abstract!Prepare(n)
       /\ PrepareThrows(n) => Abstract!PrepareThrows(n)
       /\ PrepareRunsOut(n) => Abstract!PrepareRunsOut(n)
       /\ Commit(n) => Abstract!Commit(n)
       /\ Consume(n) => Abstract!Consume(n)
  /\ \A i \in 1..held.len, b \in Byte : Fill(i, b) => Abstract!Fill(i, b)

(* Both together: a caller cannot tell string_buffer from such a           *)
(* DynamicBuffer (string_buffer.hpp:45-146).                               *)
ImplementsDynamicBuffer == Abstract!Spec /\ [][EachCall]_vars
=============================================================================
