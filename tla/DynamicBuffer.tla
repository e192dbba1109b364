--------------------------- MODULE DynamicBuffer ---------------------------
(***************************************************************************)
(* What a DynamicBuffer promises its caller, stated on the bytes alone.    *)
(*                                                                         *)
(* The readable bytes are the sequence "input"; the writable bytes handed  *)
(* out by the last prepare() are the sequence "output".  Nothing is said   *)
(* of where the bytes live: circular_buffer, flat_buffer and string_buffer *)
(* are each shown to implement this specification under a refinement       *)
(* mapping that reads their memory.                                        *)
(*                                                                         *)
(* The library's models of the concept differ in four respects, which are  *)
(* constants here so that each refinement states exactly what holds:       *)
(*   PrepareError  the exception prepare() throws;                         *)
(*   Compacts      TRUE if prepare() refuses only what cannot fit, i.e.    *)
(*                 when size() + n exceeds max_size();                     *)
(*   KeepsOutput   what consume() does with the output sequence: leaves it *)
(*                 in place "always", "never", or "unless drained", when   *)
(*                 taking the last readable byte leaves it its length, but *)
(*                 not its bytes;                                          *)
(*   MayRunOut     TRUE if prepare() allocates, and so may fail.           *)
(*                                                                         *)
(* By the concept consume() invalidates the output sequence, but nothing   *)
(* stops a caller from committing it all the same, and buffers with        *)
(* counters then append something: what, is said by KeepsOutput.           *)
(***************************************************************************)
EXTENDS Naturals, Sequences

CONSTANTS
  Byte,          \* the values of a byte
  SizeMax,       \* the largest std::size_t: the arguments are 0..SizeMax
  PrepareError,
  Compacts,
  KeepsOutput,
  MayRunOut

VARIABLES
  max_size,      \* fixed when the buffer is constructed
  input,         \* the readable bytes
  output,        \* the bytes that a commit() can append
  intact,        \* FALSE if they are not the bytes prepare() handed out
  outcome        \* how the last call ended: "returned" or the exception

vars == <<max_size, input, output, intact, outcome>>

Least(a, b) == IF a < b THEN a ELSE b

Init ==
  /\ max_size \in Nat
  /\ input \in Seq(Byte)
  /\ Len(input) <= max_size
  /\ output = <<>>
  /\ intact = TRUE
  /\ outcome = "returned"

(* prepare(n): a new output sequence of n bytes with any content.          *)
Prepare(n) ==
  /\ Len(input) + n <= max_size
  /\ output' \in [1..n -> Byte]
  /\ intact' = TRUE
  /\ outcome' = "returned"
  /\ UNCHANGED <<max_size, input>>

(* prepare(n) throws, and nothing the caller can see has changed.          *)
PrepareThrows(n) ==
  /\ Compacts => Len(input) + n > max_size
  /\ outcome' = PrepareError
  /\ UNCHANGED <<max_size, input, output, intact>>

(* prepare(n) cannot allocate: it throws, and again nothing has changed.   *)
PrepareRunsOut(n) ==
  /\ MayRunOut
  /\ Len(input) + n <= max_size
  /\ outcome' = "bad_alloc"
  /\ UNCHANGED <<max_size, input, output, intact>>

(* The caller stores b in the i-th writable byte.                          *)
Fill(i, b) ==
  /\ intact
  /\ i \in 1..Len(output)
  /\ output' = [output EXCEPT ![i] = b]
  /\ UNCHANGED <<max_size, input, intact, outcome>>

(* The caller stores through a sequence that has lost its place: the store *)
(* may hit any byte that a commit() can append, and never a readable one.  *)
FillLate ==
  /\ ~intact
  /\ output' \in [1..Len(output) -> Byte]
  /\ UNCHANGED <<max_size, input, intact, outcome>>

(* commit(n): the first n writable bytes become readable, the rest go.     *)
Commit(n) ==
  /\ input' = input \o SubSeq(output, 1, Least(n, Len(output)))
  /\ output' = <<>>
  /\ intact' = TRUE
  /\ outcome' = "returned"
  /\ UNCHANGED max_size

Drains(n) == Len(input) > 0 /\ n >= Len(input)

(* consume(n): the first n readable bytes go.                              *)
Consume(n) ==
  /\ input' = SubSeq(input, Least(n, Len(input)) + 1, Len(input))
  /\ IF KeepsOutput = "unless drained" /\ Drains(n)
     THEN intact' = FALSE /\ output' \in [1..Len(output) -> Byte]
     ELSE /\ output' = IF KeepsOutput = "never" THEN <<>> ELSE output
          /\ UNCHANGED intact
  /\ outcome' = "returned"
  /\ UNCHANGED max_size

Next ==
  \/ \E n \in 0..SizeMax :
       \/ Prepare(n)
       \/ PrepareThrows(n)
       \/ PrepareRunsOut(n)
       \/ Commit(n)
       \/ Consume(n)
  \/ \E i \in 1..Len(output), b \in Byte : Fill(i, b)
  \/ FillLate

Spec == Init /\ [][Next]_vars
=============================================================================
