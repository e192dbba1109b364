----------------------------- MODULE ByteWindow -----------------------------
(***************************************************************************)
(* What the slicing operations promise: a slice of a buffer sequence is a  *)
(* window on the bytes of the sequence, and each operation drops bytes at  *)
(* one end of the window.  Bytes are named by their position.              *)
(***************************************************************************)
EXTENDS Naturals, FiniteSets

CONSTANT SizeMax   \* the largest std::size_t: the arguments are 0..SizeMax

VARIABLE window    \* the positions of the bytes in the slice

Before(x) == Cardinality({y \in window : y < x})

After(x) == Cardinality({y \in window : y > x})

RemovePrefix(n) == window' = {x \in window : Before(x) >= n}

KeepPrefix(n) == window' = {x \in window : Before(x) < n}

RemoveSuffix(n) == window' = {x \in window : After(x) >= n}

KeepSuffix(n) == window' = {x \in window : After(x) < n}

Next ==
  \E n \in 0..SizeMax :
    \/ RemovePrefix(n)
    \/ KeepPrefix(n)
    \/ RemoveSuffix(n)
    \/ KeepSuffix(n)

(* A slice may start as any window.                                        *)
Spec == [][Next]_window
=============================================================================
