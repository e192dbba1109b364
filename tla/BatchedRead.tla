---------------------------- MODULE BatchedRead ----------------------------
(***************************************************************************)
(* The loop of any_source::read() and any_read_source::read(), which have  *)
(* the same code: the buffers of the destination are passed on in batches  *)
(* of at most N, and each batch is a call of the source.  What the source  *)
(* is and what follows from its error is said by the modules that extend   *)
(* this one.                                                               *)
(***************************************************************************)
EXTENDS Integers, BufferSequence

CONSTANTS
  N,             \* the size of the array of buffers (16 in the code)
  MaxBuffers,    \* the longest destination considered
  MaxTotal,      \* the most bytes a destination or a source has
  Untouched

ASSUME BatchAssumption ==
  /\ N \in Nat \ {0} /\ MaxBuffers \in Nat /\ MaxTotal \in Nat
  /\ Untouched \notin Nat

Error == {"ok", "eof", "failed"}

VARIABLES
  k1, cut1,      \* the destination of the current or the last read()
  it,            \* the first buffer of it not yet passed to the source
  result,        \* bytes read so far
  first,         \* the first byte of the source that the call may read
  written,       \* which byte of the source is at each position of dest
  ec,            \* the error code of the caller
  pc             \* "idle" or "reading"

(* The end of the batch that starts at it: N buffers, or what is left.     *)
BatchEnd == Least(it + N, k1)

Room == cut1[BatchEnd] - cut1[it]

(* The destination when the source has stored its bytes from p0 on, got of *)
(* them, in the buffers of the batch.                                      *)
Stored(p0, got) ==
  [p \in DOMAIN written |->
     IF cut1[it] <= p /\ p < cut1[it] + got THEN p0 + (p - cut1[it]) ELSE written[p]]

-----------------------------------------------------------------------------
(* The bytes that read() reports are, in order, those that follow the byte *)
(* it began with, although they were read in several batches               *)
(* (any_source.hpp:192-210, any_read_source.hpp:65-90); the rest of dest   *)
(* is untouched.                                                           *)
DeliversInOrder ==
  \A p \in DOMAIN written :
    written[p] = IF p < result THEN first + p ELSE Untouched

(* A read() that was started returns.                                      *)
ReadsReturn == pc = "reading" ~> pc = "idle"
=============================================================================
