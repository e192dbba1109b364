-------------------------------- MODULE Copy --------------------------------
(***************************************************************************)
(* copy(dest, src, at_most): the loop over two buffer sequences whose      *)
(* buffers are cut at different places, one iteration per step.            *)
(*                                                                         *)
(* Bytes are named by where they came from: written[p] is the position in  *)
(* src of the byte the call stored at position p of dest, or Untouched.    *)
(* The memory regions of src and dest do not overlap (memcpy requires it). *)
(***************************************************************************)
EXTENDS Naturals, BufferSequence

CONSTANTS
  MaxBuffers,    \* the longest sequence considered
  MaxTotal,      \* the most bytes a sequence has
  SizeMax,       \* the largest std::size_t
  Untouched

ASSUME CopyAssumption ==
  /\ MaxBuffers \in Nat /\ MaxTotal \in Nat /\ SizeMax \in Nat
  /\ 2 * MaxTotal <= SizeMax
  /\ Untouched \notin Nat

VARIABLES
  k0, cut0,      \* src
  k1, cut1,      \* dest
  at_most,
  it0, pos0,     \* the current buffer of src, and the bytes read from it
  it1, pos1,     \* the current buffer of dest, and the bytes stored in it
  total,
  written,
  done           \* the call has returned

args == <<k0, cut0, k1, cut1, at_most>>

vars == <<args, it0, pos0, it1, pos1, total, written, done>>

-----------------------------------------------------------------------------
Init ==
  /\ k0 \in 0..MaxBuffers /\ cut0 \in Cuts(k0, MaxTotal)
  /\ k1 \in 0..MaxBuffers /\ cut1 \in Cuts(k1, MaxTotal)
  /\ at_most \in 0..SizeMax
  /\ it0 = 0 /\ pos0 = 0
  /\ it1 = 0 /\ pos1 = 0
  /\ total = 0
  /\ written = [p \in 0..cut1[k1] - 1 |-> Untouched]
  /\ done = FALSE

(* The sizes of b0 and b1 after their += .                                 *)
Left0 == BufSize(cut0, it0) - pos0

Left1 == BufSize(cut1, it1) - pos1

(* MUTANT of Amount: at_most is compared with the amount of one buffer.    *)
AmountPerBuffer == Least(Least(Left0, Left1), at_most)

(* MUTANT of Amount: the room in dest is not considered.                   *)
AmountOfSource == Least(Left0, at_most - total)

Amount == Least(Least(Left0, Left1), at_most - total)

Going == total < at_most /\ it0 # k0 /\ it1 # k1

(* MUTANT of NextIt: a buffer is left only when bytes were copied.         *)
NextItIfCopied(it, left) == IF Amount = left /\ Amount > 0 THEN it + 1 ELSE it

(* The iterator after copying Amount of the left bytes of its buffer.      *)
NextIt(it, left) == IF Amount = left THEN it + 1 ELSE it

(* MUTANT of NextPos: the position is kept when the next buffer is taken.  *)
NextPosKept(pos, left) == IF Amount = left THEN pos ELSE pos + Amount

(* And the position in that buffer.                                        *)
NextPos(pos, left) == IF Amount = left THEN 0 ELSE pos + Amount

Iterate ==
  /\ ~done
  /\ Going
  /\ LET from == cut0[it0] + pos0
         to == cut1[it1] + pos1
     IN written' = [p \in DOMAIN written |->
                      IF to <= p /\ p < to + Amount
                      THEN from + (p - to) ELSE written[p]]
  /\ total' = total + Amount
  /\ it1' = NextIt(it1, Left1) /\ pos1' = NextPos(pos1, Left1)
  /\ it0' = NextIt(it0, Left0) /\ pos0' = NextPos(pos0, Left0)
  /\ UNCHANGED <<args, done>>

Return ==
  /\ ~done
  /\ ~Going
  /\ done' = TRUE
  /\ UNCHANGED <<args, it0, pos0, it1, pos1, total, written>>

Next == Iterate \/ Return

Spec == Init /\ [][Next]_vars

-----------------------------------------------------------------------------
(* Properties.                                                             *)

(* The types of the variables.                                             *)
TypeOK ==
  /\ k0 \in 0..MaxBuffers /\ cut0 \in Cuts(k0, MaxTotal)
  /\ k1 \in 0..MaxBuffers /\ cut1 \in Cuts(k1, MaxTotal)
  /\ at_most \in 0..SizeMax
  /\ it0 \in 0..k0 /\ pos0 \in 0..MaxTotal
  /\ it1 \in 0..k1 /\ pos1 \in 0..MaxTotal
  /\ total \in 0..MaxTotal
  /\ DOMAIN written = 0..cut1[k1] - 1
  /\ done \in BOOLEAN

(* The two positions never part, however differently the sequences are     *)
(* cut: both iterators have passed exactly the bytes that were copied      *)
(* (copy.hpp:83-101), and each position lies inside its buffer.            *)
InStep ==
  /\ total <= at_most
  /\ cut0[it0] + pos0 = total
  /\ cut1[it1] + pos1 = total
  /\ it0 = k0 => pos0 = 0
  /\ it1 = k1 => pos1 = 0
  /\ it0 # k0 => pos0 <= BufSize(cut0, it0)
  /\ it1 # k1 => pos1 <= BufSize(cut1, it1)

(* Both, as one invariant of the loop (copy.hpp:59-102): no iterator leaves *)
(* its sequence, no position its buffer, and the two stay together.        *)
Inv == TypeOK /\ InStep

(* The bytes of dest that were stored are the first total bytes of src, in *)
(* order, and no other byte of dest was touched.                           *)
CopiedInOrder ==
  \A p \in DOMAIN written :
    written[p] = IF p < total THEN p ELSE Untouched

(* copy.hpp:32: the result is exactly min(size(dest), size(src), at_most). *)
ResultIsLeast ==
  done => total = Least(Least(cut0[k0], cut1[k1]), at_most)
=============================================================================
