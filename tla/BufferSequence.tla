--------------------------- MODULE BufferSequence ---------------------------
(***************************************************************************)
(* Buffer sequences, as algorithms that walk over them see them.           *)
(*                                                                         *)
(* A sequence of k buffers is the function that says where the             *)
(* concatenation of its bytes is cut: buffer i, counting from 0, has the   *)
(* bytes at positions cut[i] .. cut[i+1] - 1.  Buffers may be empty.       *)
(***************************************************************************)
EXTENDS Naturals

(* The sequences of k buffers that have at most m bytes.                   *)
Cuts(k, m) ==
  {cut \in [0..k -> 0..m] :
     cut[0] = 0 /\ \A i, j \in 0..k : i <= j => cut[i] <= cut[j]}

BufSize(cut, i) == cut[i + 1] - cut[i]

Least(a, b) == IF a < b THEN a ELSE b
=============================================================================
