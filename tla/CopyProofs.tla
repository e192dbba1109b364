----------------------------- MODULE CopyProofs -----------------------------
(***************************************************************************)
(* What Copy promises, for sequences of any number of buffers, of any      *)
(* sizes, and for every at_most: the positions in the two sequences stay   *)
(* together, so the bytes arrive in order and all that fit are copied.     *)
(*                                                                         *)
(* And what DataModel promises that is composed of it and of SliceOf: the  *)
(* lemmas of both are used as they are.  What SliceProofs knows of the     *)
(* window of a slice says which bytes copy() is given, its theorem on the  *)
(* elements that they are a sequence of buffers, and AlwaysResultIsLeast   *)
(* how many of them arrive.                                                *)
(***************************************************************************)
EXTENDS DataModel, SequenceLemmas

(* SliceProofs is about a slice and an iterator that somebody holds; here  *)
(* nobody holds one, but the slice is the same.                            *)
NoIterator == [it |-> 0, prefix |-> 0, suffix |-> 0, i |-> 0, n |-> 0]

S == INSTANCE SliceProofs WITH
  iter <- NoIterator, view <- <<>>, MaxLen <- MaxTotal, PairSizeMax <- SizeMax,
  bs <- <<>>

(* The sequences of the call.                                              *)
LEMMA CutsFit ==
  ASSUME NEW k \in Nat, NEW c \in Cuts(k, MaxTotal)
  PROVE  /\ c[0] = 0
         /\ \A i \in 0..k : c[i] \in Nat /\ c[i] \in 0..MaxTotal /\ c[i] <= c[k]
         /\ \A i \in 0..k - 1 : i + 1 \in 0..k /\ c[i] <= c[i + 1]
<1>1. MaxTotal \in Nat
  BY CopyAssumption
<1> QED
  BY <1>1, CutsAscend

(* Where one of the two iterators is.                                      *)
At(k, c, it, pos) ==
  /\ k \in Nat /\ c \in Cuts(k, MaxTotal)
  /\ it \in 0..k /\ pos \in 0..MaxTotal
  /\ c[it] + pos = total
  /\ it = k => pos = 0
  /\ it # k => pos <= BufSize(c, it)

(* What is left of its buffer.                                             *)
LEMMA LeftOf ==
  ASSUME NEW k, NEW c, NEW it, NEW pos, At(k, c, it, pos), total \in Nat, it # k
  PROVE  BufSize(c, it) - pos \in Nat
<1>1. it \in 0..k - 1 /\ it \in 0..k /\ it + 1 \in 0..k
  BY DEF At
<1>2. c[it] \in Nat /\ c[it + 1] \in Nat /\ c[it] <= c[it + 1]
  BY <1>1, CutsFit DEF At
<1> QED
  BY <1>2 DEF At, BufSize

(* It passes the bytes that are copied, and stops in front of the next     *)
(* buffer when there is nothing left of this one.                          *)
LEMMA ItAdvances ==
  ASSUME NEW k, NEW c, NEW it, NEW pos, At(k, c, it, pos), total \in Nat, it # k,
         NEW a \in Nat, a <= BufSize(c, it) - pos,
         NEW i, i = IF a = BufSize(c, it) - pos THEN it + 1 ELSE it,
         NEW p, p = IF a = BufSize(c, it) - pos THEN 0 ELSE pos + a
  PROVE  /\ i \in 0..k /\ p \in 0..MaxTotal
         /\ c[i] + p = total + a
         /\ i = k => p = 0
         /\ i # k => p <= BufSize(c, i)
<1>1. it \in 0..k - 1 /\ it \in 0..k /\ it + 1 \in 0..k /\ k \in Nat /\ pos \in Nat
  BY DEF At
<1>2. /\ c[it] \in 0..MaxTotal /\ c[it + 1] \in 0..MaxTotal /\ c[it] <= c[it + 1]
      /\ MaxTotal \in Nat
  BY <1>1, CutsFit, CopyAssumption DEF At
<1>3. BufSize(c, it) = c[it + 1] - c[it] /\ c[it] + pos = total
  BY DEF At, BufSize
<1>4. CASE a = BufSize(c, it) - pos
  <2>1. i = it + 1 /\ p = 0
    BY <1>4
  <2>2. i # k => BufSize(c, i) \in Nat
    <3> SUFFICES ASSUME i # k PROVE BufSize(c, i) \in Nat
      OBVIOUS
    <3>1. i \in 0..k - 1 /\ i \in 0..k
      BY <1>1, <2>1
    <3>2. c[i] \in Nat /\ c[i + 1] \in Nat /\ c[i] <= c[i + 1]
      BY <1>1, <3>1, CutsFit DEF At
    <3> QED
      BY <3>2 DEF BufSize
  <2>3. c[i] + p = total + a
    BY <1>1, <1>2, <1>3, <1>4, <2>1
  <2> QED
    BY <1>1, <1>2, <2>1, <2>2, <2>3
<1>5. CASE a # BufSize(c, it) - pos
  <2>1. i = it /\ p = pos + a
    BY <1>5
  <2>2. p \in Nat /\ p <= BufSize(c, it) /\ p <= MaxTotal
    BY <1>1, <1>2, <1>3, <2>1
  <2> QED
    BY <1>1, <1>2, <1>3, <2>1, <2>2
<1> QED
  BY <1>4, <1>5

-----------------------------------------------------------------------------
(* The invariant of the loop.                                              *)

LEMMA InvAt ==
  Inv => /\ At(k0, cut0, it0, pos0) /\ At(k1, cut1, it1, pos1)
         /\ total \in Nat /\ at_most \in Nat /\ total <= at_most
         /\ MaxTotal \in Nat /\ MaxBuffers \in Nat /\ Untouched \notin Nat
BY CopyAssumption DEF Inv, TypeOK, InStep, At

(* A call that has copied nothing.                                         *)
Fresh ==
  /\ k0 \in 0..MaxBuffers /\ cut0 \in Cuts(k0, MaxTotal)
  /\ k1 \in 0..MaxBuffers /\ cut1 \in Cuts(k1, MaxTotal)
  /\ at_most \in 0..SizeMax
  /\ it0 = 0 /\ pos0 = 0 /\ it1 = 0 /\ pos1 = 0 /\ total = 0
  /\ written = [p \in 0..cut1[k1] - 1 |-> Untouched]

LEMMA InitFresh == Init => Fresh /\ done = FALSE
BY DEF Init, Fresh

LEMMA FreshInv == Fresh /\ done \in BOOLEAN => Inv
<1> SUFFICES ASSUME Fresh, done \in BOOLEAN PROVE Inv
  OBVIOUS
<1>1. k0 \in Nat /\ k1 \in Nat /\ MaxTotal \in Nat
  BY CopyAssumption DEF Fresh
<1>2. cut0[0] = 0 /\ cut1[0] = 0
  BY <1>1, CutsFit DEF Fresh
<1>3. k0 # 0 => BufSize(cut0, 0) \in Nat
  <2> SUFFICES ASSUME k0 # 0 PROVE BufSize(cut0, 0) \in Nat
    OBVIOUS
  <2>1. 0 \in 0..k0 - 1 /\ 0 + 1 \in 0..k0
    BY <1>1
  <2>2. cut0[0 + 1] \in Nat
    BY <1>1, <2>1, CutsFit DEF Fresh
  <2> QED
    BY <1>2, <2>2 DEF BufSize
<1>4. k1 # 0 => BufSize(cut1, 0) \in Nat
  <2> SUFFICES ASSUME k1 # 0 PROVE BufSize(cut1, 0) \in Nat
    OBVIOUS
  <2>1. 0 \in 0..k1 - 1 /\ 0 + 1 \in 0..k1
    BY <1>1
  <2>2. cut1[0 + 1] \in Nat
    BY <1>1, <2>1, CutsFit DEF Fresh
  <2> QED
    BY <1>2, <2>2 DEF BufSize
<1>5. at_most \in Nat /\ at_most \in 0..SizeMax
  BY CopyAssumption DEF Fresh
<1>6. TypeOK
  <2>1. 0 \in 0..k0 /\ 0 \in 0..k1 /\ 0 \in 0..MaxTotal
    BY <1>1
  <2>2. DOMAIN written = 0..cut1[k1] - 1
    BY DEF Fresh
  <2> QED
    BY <1>5, <2>1, <2>2 DEF Fresh, TypeOK
<1>7. InStep
  <2>1. total = 0 /\ it0 = 0 /\ pos0 = 0 /\ it1 = 0 /\ pos1 = 0
    BY DEF Fresh
  <2>2. total <= at_most
    BY <1>5, <2>1
  <2>3. cut0[it0] + pos0 = total /\ cut1[it1] + pos1 = total
    BY <1>2, <2>1
  <2>4. it0 # k0 => pos0 <= BufSize(cut0, it0)
    BY <1>3, <2>1
  <2>5. it1 # k1 => pos1 <= BufSize(cut1, it1)
    BY <1>4, <2>1
  <2> QED
    BY <2>1, <2>2, <2>3, <2>4, <2>5 DEF InStep
<1> QED
  BY <1>6, <1>7 DEF Inv

LEMMA InitInv == Init => Inv
BY InitFresh, FreshInv

(* What an iteration copies: no more than is left on either side, and      *)
(* exactly what is left of at_most or of a buffer.                         *)
LEMMA AmountFits ==
  ASSUME Inv, Going
  PROVE  /\ Left0 \in Nat /\ Left1 \in Nat /\ Amount \in Nat
         /\ Amount <= Left0 /\ Amount <= Left1 /\ total + Amount <= at_most
<1>1. /\ total \in Nat /\ at_most \in Nat /\ at_most - total \in Nat
  BY InvAt
<1>2. Left0 \in Nat /\ Left1 \in Nat
  BY InvAt, LeftOf DEF Going, Left0, Left1
<1> DEFINE l == Least(Left0, Left1)
<1>3. l \in Nat /\ l <= Left0 /\ l <= Left1
  BY <1>2, LeastOf
<1> HIDE DEF l
<1>4. Least(l, at_most - total) \in Nat
      /\ Least(l, at_most - total) <= l /\ Least(l, at_most - total) <= at_most - total
  BY <1>1, <1>3, LeastOf
<1>5. Amount = Least(l, at_most - total)
  BY DEF Amount, l
<1> QED
  BY <1>1, <1>2, <1>3, <1>4, <1>5

(* A position inside a buffer is not behind the end of the sequence.       *)
LEMMA PositionInside ==
  ASSUME NEW k \in Nat, NEW c \in Cuts(k, MaxTotal),
         NEW it \in 0..k, NEW pos \in Nat, NEW t \in Nat, c[it] + pos = t,
         it = k => pos = 0, it # k => pos <= BufSize(c, it)
  PROVE  t <= c[k] /\ c[k] \in Nat /\ t \in 0..MaxTotal /\ (it = k => t = c[k])
<1>1. k \in 0..k /\ MaxTotal \in Nat
  BY CopyAssumption
<1>2. c[k] \in Nat /\ c[k] \in 0..MaxTotal
  BY <1>1, CutsFit
<1>3. CASE it = k
  BY <1>1, <1>2, <1>3
<1>4. CASE it # k
  <2>1. it \in 0..k - 1 /\ it + 1 \in 0..k
    BY <1>4
  <2>2. c[it] \in Nat /\ c[it + 1] \in Nat /\ c[it + 1] <= c[k]
    BY <2>1, CutsFit
  <2>3. pos <= c[it + 1] - c[it]
    BY <1>4 DEF BufSize
  <2> QED
    BY <1>1, <1>2, <1>4, <2>2, <2>3
<1> QED
  BY <1>3, <1>4

LEMMA AtMostAll ==
  ASSUME NEW k, NEW c, NEW it, NEW pos, At(k, c, it, pos), total \in Nat
  PROVE  total <= c[k] /\ c[k] \in Nat /\ (it = k => total = c[k])
<1>1. pos \in Nat
  BY CopyAssumption DEF At
<1> QED
  BY <1>1, PositionInside DEF At

LEMMA NextInv == Inv /\ [Next]_vars => Inv'
<1> SUFFICES ASSUME Inv, [Next]_vars PROVE Inv'
  OBVIOUS
<1>1. CASE Iterate
  <2>1. /\ Amount \in Nat /\ total + Amount <= at_most
        /\ Amount <= BufSize(cut0, it0) - pos0 /\ Amount <= BufSize(cut1, it1) - pos1
    BY <1>1, AmountFits DEF Iterate, Left0, Left1
  <2>2. /\ k0' = k0 /\ cut0' = cut0 /\ k1' = k1 /\ cut1' = cut1 /\ at_most' = at_most
        /\ done' = done /\ total' = total + Amount
        /\ DOMAIN written' = DOMAIN written /\ it0 # k0 /\ it1 # k1
    BY <1>1 DEF Iterate, args, Going
  <2>3. /\ it0' = IF Amount = BufSize(cut0, it0) - pos0 THEN it0 + 1 ELSE it0
        /\ pos0' = IF Amount = BufSize(cut0, it0) - pos0 THEN 0 ELSE pos0 + Amount
        /\ it1' = IF Amount = BufSize(cut1, it1) - pos1 THEN it1 + 1 ELSE it1
        /\ pos1' = IF Amount = BufSize(cut1, it1) - pos1 THEN 0 ELSE pos1 + Amount
    BY <1>1 DEF Iterate, NextIt, NextPos, Left0, Left1
  <2>4. /\ it0' \in 0..k0 /\ pos0' \in 0..MaxTotal /\ cut0[it0'] + pos0' = total + Amount
        /\ it0' = k0 => pos0' = 0
        /\ it0' # k0 => pos0' <= BufSize(cut0, it0')
    BY <2>1, <2>2, <2>3, InvAt, ItAdvances
  <2>5. /\ it1' \in 0..k1 /\ pos1' \in 0..MaxTotal /\ cut1[it1'] + pos1' = total + Amount
        /\ it1' = k1 => pos1' = 0
        /\ it1' # k1 => pos1' <= BufSize(cut1, it1')
    BY <2>1, <2>2, <2>3, InvAt, ItAdvances
  <2>6. total' \in 0..MaxTotal
    <3>1. total + Amount \in Nat /\ k0 \in Nat /\ cut0 \in Cuts(k0, MaxTotal)
      BY <2>1, InvAt DEF At
    <3>2. pos0' \in Nat
      BY <2>4, CopyAssumption
    <3>3. total + Amount \in 0..MaxTotal
      BY <2>4, <3>1, <3>2, PositionInside
    <3> QED
      BY <2>2, <3>3
  <2>7. TypeOK'
    BY <2>2, <2>4, <2>5, <2>6 DEF Inv, TypeOK
  <2>8. InStep'
    BY <2>1, <2>2, <2>4, <2>5 DEF InStep, BufSize
  <2> QED
    BY <2>7, <2>8 DEF Inv
<1>2. CASE Return
  BY <1>2 DEF Return, args, Inv, TypeOK, InStep, BufSize
<1>3. CASE UNCHANGED vars
  BY <1>3 DEF vars, args, Inv, TypeOK, InStep, BufSize
<1> QED
  BY <1>1, <1>2, <1>3 DEF Next

(* Neither iterator leaves its sequence, neither position its buffer, and  *)
(* both have passed the bytes that were copied, and no others              *)
(* (copy.hpp:59-102), for any two sequences and every at_most.             *)
THEOREM AlwaysInv == Spec => []Inv
<1> QED
  BY InitInv, NextInv, PTL DEF Spec

-----------------------------------------------------------------------------
(* What arrives.                                                           *)

LEMMA FreshCopied == Fresh => CopiedInOrder
BY CopyAssumption, CutsFit DEF Fresh, CopiedInOrder

LEMMA InitCopied == Init => CopiedInOrder
BY InitFresh, FreshCopied

(* An iteration stores the bytes that follow those already stored.         *)
LEMMA NextCopied == Inv /\ CopiedInOrder /\ [Next]_vars => CopiedInOrder'
<1> SUFFICES ASSUME Inv, CopiedInOrder, [Next]_vars PROVE CopiedInOrder'
  OBVIOUS
<1>1. CASE Iterate
  <2>1. /\ cut0[it0] + pos0 = total /\ cut1[it1] + pos1 = total /\ total \in Nat
    BY InvAt DEF At
  <2>2. Amount \in Nat
    BY <1>1, AmountFits DEF Iterate
  <2>3. /\ total' = total + Amount
        /\ written' = [p \in DOMAIN written |->
                        IF total <= p /\ p < total + Amount
                        THEN total + (p - total) ELSE written[p]]
    BY <1>1, <2>1 DEF Iterate
  <2> SUFFICES ASSUME NEW p \in DOMAIN written
               PROVE  written'[p] = IF p < total' THEN p ELSE Untouched
    BY <2>3 DEF CopiedInOrder
  <2>4. p \in Nat
    BY InvAt, AtMostAll DEF Inv, TypeOK
  <2>5. written[p] = IF p < total THEN p ELSE Untouched
    BY DEF CopiedInOrder
  <2>6. written'[p] = IF total <= p /\ p < total + Amount
                      THEN total + (p - total) ELSE written[p]
    BY <2>3
  <2> HIDE DEF Amount
  <2> QED
    BY <2>1, <2>2, <2>3, <2>4, <2>5, <2>6
<1>2. CASE Return
  BY <1>2 DEF Return, CopiedInOrder
<1>3. CASE UNCHANGED vars
  BY <1>3 DEF vars, CopiedInOrder
<1> QED
  BY <1>1, <1>2, <1>3 DEF Next

(* The stored bytes are the first bytes of src, in order, and nothing else *)
(* of dest is touched (copy.hpp:89-93).                                    *)
THEOREM AlwaysCopiedInOrder == Spec => []CopiedInOrder
<1> QED
  BY InitInv, NextInv, InitCopied, NextCopied, PTL DEF Spec

LEMMA InitResult == Init => ResultIsLeast
BY DEF Init, ResultIsLeast

(* The loop ends because one of the three sizes is used up.                *)
LEMMA EndIsLeast ==
  ASSUME Inv, ~Going
  PROVE  total = Least(Least(cut0[k0], cut1[k1]), at_most)
<1>1. /\ total <= cut0[k0] /\ cut0[k0] \in Nat /\ (it0 = k0 => total = cut0[k0])
      /\ total <= cut1[k1] /\ cut1[k1] \in Nat /\ (it1 = k1 => total = cut1[k1])
      /\ total \in Nat /\ at_most \in Nat /\ total <= at_most
  BY InvAt, AtMostAll
<1>2. total = at_most \/ it0 = k0 \/ it1 = k1
  BY <1>1 DEF Going
<1> QED
  BY <1>1, <1>2 DEF Least

LEMMA NextResult == Inv /\ ResultIsLeast /\ [Next]_vars => ResultIsLeast'
<1> SUFFICES ASSUME Inv, ResultIsLeast, [Next]_vars PROVE ResultIsLeast'
  OBVIOUS
<1>1. CASE Iterate
  BY <1>1 DEF Iterate, ResultIsLeast, Inv, TypeOK
<1>2. CASE Return
  BY <1>2, EndIsLeast DEF Return, ResultIsLeast, args
<1>3. CASE UNCHANGED vars
  BY <1>3 DEF vars, args, ResultIsLeast
<1> QED
  BY <1>1, <1>2, <1>3 DEF Next

(* A call that returns has copied the least of size(dest), size(src) and   *)
(* at_most (copy.hpp:32), wherever the two sequences are cut.              *)
THEOREM AlwaysResultIsLeast == Spec => []ResultIsLeast
<1> QED
  BY InitInv, NextInv, InitResult, NextResult, PTL DEF Spec

-----------------------------------------------------------------------------
(* How long a call takes.                                                  *)

(* The most steps that a call has left: one for each buffer, one for the   *)
(* turn that uses up at_most, one to return.                               *)
Turns ==
  (k0 - it0) + (k1 - it1) + (IF total < at_most THEN 1 ELSE 0)
             + (IF done THEN 0 ELSE 1)

LEMMA TurnsShorten == Inv /\ Next => Turns \in Nat /\ Turns' \in Nat /\ Turns' < Turns
<1> SUFFICES ASSUME Inv, Next PROVE Turns \in Nat /\ Turns' \in Nat /\ Turns' < Turns
  OBVIOUS
<1>1. /\ k0 \in Nat /\ k1 \in Nat /\ it0 \in 0..k0 /\ it1 \in 0..k1
      /\ total \in Nat /\ at_most \in Nat /\ total <= at_most /\ ~done
  BY InvAt DEF At, Next, Iterate, Return
<1>2. CASE Return
  BY <1>1, <1>2 DEF Return, args, Turns
<1>3. CASE Iterate
  <2>1. /\ Left0 \in Nat /\ Left1 \in Nat /\ Amount \in Nat
        /\ total + Amount <= at_most /\ total < at_most
    BY <1>3, AmountFits DEF Iterate, Going
  <2>2. Amount = Left0 \/ Amount = Left1 \/ Amount = at_most - total
    BY DEF Amount, Least
  <2>3. /\ k0' = k0 /\ k1' = k1 /\ at_most' = at_most /\ done' = done
        /\ total' = total + Amount /\ it0 # k0 /\ it1 # k1
        /\ it0' = IF Amount = Left0 THEN it0 + 1 ELSE it0
        /\ it1' = IF Amount = Left1 THEN it1 + 1 ELSE it1
    BY <1>3 DEF Iterate, args, Going, NextIt
  <2> HIDE DEF Amount, Left0, Left1
  <2>4. Turns = (k0 - it0) + (k1 - it1) + 1 + 1
    BY <1>1, <2>1 DEF Turns
  <2>5. /\ it0' \in 0..k0 /\ it1' \in 0..k1 /\ it0 <= it0' /\ it1 <= it1'
        /\ it0' = it0 + 1 \/ it1' = it1 + 1 \/ total + Amount = at_most
    BY <1>1, <2>1, <2>2, <2>3
  <2>6. PICK i \in 0..k0 : i = it0'
    BY <2>5
  <2>7. PICK j \in 0..k1 : j = it1'
    BY <2>5
  <2>8. PICK b \in {0, 1} : b = IF total + Amount < at_most THEN 1 ELSE 0
    OBVIOUS
  <2>9. Turns' = (k0 - i) + (k1 - j) + b + 1
    BY <1>1, <2>3, <2>6, <2>7, <2>8 DEF Turns
  <2>10. /\ it0 <= i /\ it1 <= j
         /\ i = it0 + 1 \/ j = it1 + 1 \/ b = 0
    BY <1>1, <2>1, <2>5, <2>6, <2>7, <2>8
  <2> QED
    BY <1>1, <2>4, <2>9, <2>10
<1> QED
  BY <1>2, <1>3 DEF Next

(* Each turn leaves a buffer or uses up at_most, also over empty buffers,  *)
(* where it copies no byte (copy.hpp:83-101): a call takes at most         *)
(* k0 + k1 + 1 turns, however many bytes the sequences have.               *)
THEOREM CopyShortens == Spec => [][Turns' \in Nat /\ Turns' < Turns]_vars
<1>1. Inv /\ [Next]_vars => [Turns' \in Nat /\ Turns' < Turns]_vars
  BY TurnsShorten
<1> QED
  BY <1>1, AlwaysInv, PTL DEF Spec

-----------------------------------------------------------------------------
(* DataModel: the reads of a data source, one after another.               *)

(* The slice as sans_prefix() makes it.                                    *)
Whole ==
  /\ begin_ = 0 /\ end_ = K /\ len_ = K /\ size_ = DataSize
  /\ prefix_ = 0 /\ suffix_ = 0

(* The data, and what reads have returned of it.                           *)
DataOK ==
  /\ user \in {"program", "data_model"}
  /\ K \in 0..MaxBuffers /\ cut \in Cuts(K, MaxTotal)
  /\ nread_ \in 0..DataSize
  /\ taken = [i \in 1..nread_ |-> i - 1]

(* The bytes that were not read yet.                                       *)
Rest == nread_..DataSize - 1

(* Where a read() is.                                                      *)
ReadOK ==
  /\ stage \in {"idle", "sliced", "loop", "copy"}
  /\ user = "program" => stage = "copy"
  /\ user = "data_model" => at_most = SizeMax
  /\ stage = "idle" => done /\ pc = "idle" /\ n = 0
  /\ stage = "sliced" => done /\ pc = "idle" /\ n = 0 /\ Whole /\ Fresh
  /\ stage = "loop" =>
       /\ done /\ Fresh
       /\ S!Shape /\ pc \in {"idle", "remove_prefix"} /\ S!Window = Rest
  /\ stage = "copy" /\ user = "data_model" =>
       /\ S!Shape /\ pc = "idle" /\ S!Content = Rest
       /\ cut0[k0] = DataSize - nread_

DataInv == Inv /\ CopiedInOrder /\ ResultIsLeast /\ DataOK /\ ReadOK

(* SliceProofs speaks of the same sequences, and counts as this module.    *)
LEMMA SliceFits == S!SliceAssumption /\ S!PairAssumption
BY CopyAssumption DEF S!SliceAssumption, S!PairAssumption

LEMMA SameSequences ==
  ASSUME NEW k, NEW m
  PROVE  S!Cuts(k, m) = Cuts(k, m) /\ S!Least(k, m) = Least(k, m)
BY DEF S!Cuts, Cuts, S!Least, Least

LEMMA SameSize ==
  ASSUME NEW W
  PROVE  S!Cardinality(W) = Cardinality(W)
BY Zenon DEF S!Cardinality, Cardinality

LEMMA DataFits ==
  ASSUME DataOK
  PROVE  /\ K \in Nat /\ MaxTotal \in Nat /\ DataSize \in 0..MaxTotal
         /\ DataSize \in Nat /\ nread_ \in Nat /\ nread_ <= DataSize
         /\ DataSize <= SizeMax /\ cut[0] = 0
<1>1. K \in Nat /\ cut \in Cuts(K, MaxTotal) /\ MaxTotal \in Nat /\ SizeMax \in Nat
      /\ 2 * MaxTotal <= SizeMax
  BY CopyAssumption DEF DataOK
<1>2. cut[0] = 0 /\ cut[K] \in 0..MaxTotal
  BY <1>1, CutsAscend
<1> QED
  BY <1>1, <1>2 DEF DataOK, DataSize

(* The new slice shows all of the data.                                    *)
LEMMA WholeIs ==
  ASSUME DataOK, Whole, pc = "idle", n = 0
  PROVE  S!Shape /\ S!First = 0 /\ S!Last = DataSize
<1>1. S!Init
  BY SameSequences DEF S!Init, DataOK, Whole, DataSize, NoIterator
<1>2. S!Shape
  BY <1>1, SliceFits, S!InitShape
<1>3. CASE K = 0
  BY <1>2, <1>3, DataFits DEF Whole, DataSize, S!First, S!Last
<1>4. CASE K # 0
  <2>1. S!First = cut[0] + 0 /\ S!Last = DataSize - 0
    BY <1>4 DEF Whole, DataSize, S!First, S!Last, S!Lo, S!Hi
  <2> QED
    BY <1>2, <2>1, DataFits
<1> QED
  BY <1>3, <1>4

(* What is the same before and after most of the steps.                    *)
LEMMA DataSame ==
  DataOK /\ UNCHANGED <<data, nread_, taken>> => DataOK' /\ Rest' = Rest
BY DEF DataOK, Rest, data, DataSize

LEMMA CopySame ==
  Inv /\ CopiedInOrder /\ ResultIsLeast /\ UNCHANGED vars
    => Inv' /\ CopiedInOrder' /\ ResultIsLeast'
BY DEF vars, args, Inv, TypeOK, InStep, BufSize, CopiedInOrder, ResultIsLeast

LEMMA FreshSame == Fresh /\ UNCHANGED vars => Fresh'
BY DEF vars, args, Fresh

LEMMA NextFresh == (Fresh /\ done \in BOOLEAN)' => Inv' /\ CopiedInOrder'
BY FreshInv, FreshCopied, PTL

(* read() begins: nothing is copied yet, the slice is all of the data.     *)
LEMMA ReadData ==
  ASSUME DataInv, NEW k \in 1..MaxBuffers, NEW c \in Cuts(k, MaxTotal), Read(k, c)
  PROVE  DataInv'
<1>1. /\ stage = "idle" /\ done /\ pc = "idle" /\ n = 0 /\ user = "data_model"
  BY DEF DataInv, DataOK, ReadOK, Read
<1>2. /\ k1' = k /\ cut1' = c /\ k0' = 0 /\ cut0' = NoCut
      /\ at_most' = at_most /\ done' = done /\ total' = 0
      /\ it0' = 0 /\ pos0' = 0 /\ it1' = 0 /\ pos1' = 0
      /\ written' = [p \in 0..c[k] - 1 |-> Untouched]
  BY DEF Read
<1>3. /\ k \in 0..MaxBuffers /\ k \in Nat /\ 0 \in 0..MaxBuffers /\ MaxTotal \in Nat
      /\ NoCut \in Cuts(0, MaxTotal) /\ NoCut[0] = 0
      /\ at_most \in 0..SizeMax /\ at_most \in Nat /\ c[k] \in Nat
  <2>1. k \in Nat /\ k \in 0..MaxBuffers /\ 0 \in 0..MaxBuffers /\ MaxTotal \in Nat
        /\ k \in 0..k
    BY CopyAssumption
  <2>2. NoCut \in Cuts(0, MaxTotal) /\ NoCut[0] = 0
    BY <2>1 DEF NoCut, Cuts
  <2>3. at_most \in 0..SizeMax /\ at_most \in Nat
    BY CopyAssumption DEF DataInv, Inv, TypeOK
  <2>4. c[k] \in Nat
    BY <2>1, CutsFit
  <2> QED
    BY <2>1, <2>2, <2>3, <2>4
<1>4. Fresh' /\ done' \in BOOLEAN /\ done'
  BY <1>1, <1>2, <1>3 DEF Fresh, DataInv, Inv, TypeOK
<1>5. Inv' /\ CopiedInOrder'
  BY <1>4, NextFresh
<1>6. ResultIsLeast'
  <2>1. Least(Least(0, c[k]), at_most) = 0
    BY <1>3 DEF Least
  <2> QED
    BY <1>2, <1>3, <2>1 DEF ResultIsLeast
<1>7. DataOK'
  BY DataSame DEF Read, DataInv
<1>8. ReadOK'
  BY <1>1, <1>2, <1>4 DEF Read, Whole, DataSize, data, DataInv, DataOK, ReadOK
<1> QED
  BY <1>5, <1>6, <1>7, <1>8 DEF DataInv

(* remove_prefix() drops what earlier reads returned.                      *)
LEMMA DropReadData == DataInv /\ DropRead => DataInv'
<1> SUFFICES ASSUME DataInv, DropRead PROVE DataInv'
  OBVIOUS
<1>1. /\ stage = "sliced" /\ done /\ pc = "idle" /\ n = 0 /\ Whole /\ Fresh
      /\ user = "data_model" /\ DataOK /\ at_most = SizeMax
  BY DEF DataInv, DataOK, ReadOK, DropRead
<1>2. S!Shape /\ S!First = 0 /\ S!Last = DataSize
  BY <1>1, WholeIs
<1>3. S!RemovePrefixImpl(nread_)
  BY DEF DropRead, Slice!RemovePrefix, Slice!RemovePrefixImpl, Slice!Least,
         S!RemovePrefixImpl, S!Least
<1>4. nread_ \in Nat /\ NoIterator' = NoIterator
  BY <1>1, DataFits DEF NoIterator
<1>5. S!Shape'
  BY <1>1, <1>2, <1>3, <1>4, SliceFits, S!RemovePrefixShape
<1>6. S!First' = nread_ /\ S!Last' = DataSize
  <2>1. S!First' = S!First + S!Least(nread_, S!Last - S!First) /\ S!Last' = S!Last
    BY <1>1, <1>2, <1>3, <1>4, SliceFits, S!RemovePrefixMoves
  <2>2. 0 + S!Least(nread_, DataSize - 0) = nread_
    BY <1>1, DataFits DEF S!Least
  <2> QED
    BY <1>2, <2>1, <2>2
<1>7. S!Window' = nread_..DataSize - 1
  BY <1>5, <1>6, SliceFits, S!NextEnds DEF S!Ends
<1>8. UNCHANGED <<vars, data, nread_, taken>> /\ stage' = "loop"
  BY DEF DropRead
<1>9. DataOK' /\ Rest' = Rest
  BY <1>1, <1>8, DataSame
<1>10. Inv' /\ CopiedInOrder' /\ ResultIsLeast' /\ Fresh'
  BY <1>1, <1>8, CopySame, FreshSame DEF DataInv
<1>11. ReadOK'
  <2>1. pc' = "remove_prefix" /\ done' /\ at_most' = at_most /\ user' = user
    BY <1>1, <1>3, <1>8 DEF S!RemovePrefixImpl, vars, args, data
  <2>2. S!Window' = Rest'
    BY <1>7, <1>9 DEF Rest
  <2> QED
    BY <1>1, <1>5, <1>8, <1>10, <2>1, <2>2 DEF ReadOK
<1> QED
  BY <1>9, <1>10, <1>11 DEF DataInv

(* The turns of its loop leave the window as it is.                        *)
LEMMA SliceLoopData == DataInv /\ SliceLoop => DataInv'
<1> SUFFICES ASSUME DataInv, SliceLoop PROVE DataInv'
  OBVIOUS
<1>1. /\ stage = "loop" /\ done /\ Fresh /\ S!Shape /\ S!Window = Rest
      /\ user = "data_model" /\ DataOK /\ at_most = SizeMax
      /\ pc \in {"idle", "remove_prefix"}
  BY DEF DataInv, DataOK, ReadOK, SliceLoop
<1>2. S!PrefixDone \/ S!PrefixPart \/ S!PrefixWhole
  <2>1. Slice!PrefixDone \/ Slice!PrefixPart \/ Slice!PrefixWhole
    BY <1>1 DEF SliceLoop, Slice!Loop, Slice!SuffixPart, Slice!SuffixWhole,
                Slice!SuffixFirst
  <2> QED
    BY <2>1 DEF Slice!PrefixDone, Slice!PrefixPart, Slice!PrefixWhole, Slice!BufSize,
                S!PrefixDone, S!PrefixPart, S!PrefixWhole, S!BufSize
<1>3. S!Shape'
  <2>1. NoIterator' = NoIterator
    BY DEF NoIterator
  <2> QED
    BY <1>1, <1>2, <2>1, SliceFits, S!PrefixShape
<1>4. S!Window' = S!Window
  BY <1>1, <1>2, <1>3, SliceFits, S!PrefixMoves
<1>5. pc' \in {"idle", "remove_prefix"}
  BY <1>2 DEF S!PrefixDone, S!PrefixPart, S!PrefixWhole
<1>6. UNCHANGED <<vars, data, nread_, taken, stage>>
  BY DEF SliceLoop
<1>7. DataOK' /\ Rest' = Rest
  BY <1>1, <1>6, DataSame
<1>8. Inv' /\ CopiedInOrder' /\ ResultIsLeast' /\ Fresh'
  BY <1>1, <1>6, CopySame, FreshSame DEF DataInv
<1>9. ReadOK'
  <2>1. done' /\ at_most' = at_most /\ user' = user /\ stage' = "loop"
    BY <1>1, <1>6 DEF vars, args, data
  <2> QED
    BY <1>1, <1>3, <1>4, <1>5, <1>7, <1>8, <2>1 DEF ReadOK
<1> QED
  BY <1>7, <1>8, <1>9 DEF DataInv

LEMMA SameSlice == Slice!Shown = S!Shown /\ Slice!Content = S!Content
<1>1. ASSUME NEW x PROVE Slice!Deref(x) = S!Deref(x)
  BY DEF Slice!Deref, S!Deref, Slice!Interval, S!Interval
<1>2. Slice!Shown = S!Shown
  BY <1>1 DEF Slice!Shown, S!Shown, Slice!Begin, S!Begin
<1> QED
  BY <1>2 DEF Slice!Content, S!Content

LEMMA SliceSame ==
  ASSUME S!Shape, UNCHANGED <<K, cut, slice>>
  PROVE  S!Shape' /\ S!Content' = S!Content
<1>1. UNCHANGED S!vars
  BY DEF slice, S!vars, NoIterator
<1>2. S!Shape'
  BY <1>1, SliceFits, S!NextShape
<1>3. S!Content' = S!Content
  BY <1>1 DEF S!vars, S!Content, S!Shown, S!Deref, S!Begin, S!Interval
<1> QED
  BY <1>2, <1>3

(* What the slice still shows is the source of copy(), buffer by buffer.   *)
LEMMA CallCopyData == DataInv /\ CallCopy => DataInv'
<1> SUFFICES ASSUME DataInv, CallCopy PROVE DataInv'
  OBVIOUS
<1>1. /\ stage = "loop" /\ Fresh /\ S!Shape /\ S!Window = Rest
      /\ user = "data_model" /\ DataOK /\ at_most = SizeMax /\ pc = "idle"
  BY DEF DataInv, DataOK, ReadOK, CallCopy
<1>2. S!Content = Rest
  BY <1>1 DEF S!Window
<1>3. Elements = S!ElementEnds
  BY SameSlice, SameSize DEF Elements, S!ElementEnds
<1>4. /\ S!ElementEnds \in Cuts(len_, MaxTotal)
      /\ S!ElementEnds[len_] = DataSize - nread_
  <2>1. /\ S!ElementEnds \in S!Cuts(len_, MaxTotal)
        /\ S!ElementEnds[len_] = S!ContentSize
    BY <1>1, SliceFits, S!ElementsAreCuts
  <2>2. S!Cardinality(Rest) = DataSize - nread_
    BY <1>1, DataFits, SliceFits, S!WindowCounts DEF Rest
  <2> QED
    BY <1>2, <2>1, <2>2, SameSequences DEF S!ContentSize
<1>5. len_ \in 0..MaxBuffers
  BY <1>1, SliceFits, S!Fits
<1>6. /\ k0' = len_ /\ cut0' = Elements /\ done' = FALSE /\ stage' = "copy"
      /\ UNCHANGED <<k1, cut1, at_most, it0, pos0, it1, pos1, total, written>>
      /\ UNCHANGED <<data, nread_, taken, slice>>
  BY DEF CallCopy
<1>7. Fresh' /\ done' \in BOOLEAN
  BY <1>1, <1>3, <1>4, <1>5, <1>6 DEF Fresh
<1>8. Inv' /\ CopiedInOrder'
  BY <1>7, NextFresh
<1>9. ResultIsLeast'
  BY <1>6 DEF ResultIsLeast
<1>10. DataOK' /\ Rest' = Rest
  BY <1>1, <1>6, DataSame
<1>11. S!Shape' /\ S!Content' = S!Content
  BY <1>1, <1>6, SliceSame DEF data
<1>12. ReadOK'
  <2>1. user' = user /\ DataSize' = DataSize /\ nread_' = nread_ /\ pc' = pc
    BY <1>6 DEF data, DataSize, slice
  <2>2. cut0'[k0'] = DataSize - nread_
    BY <1>3, <1>4, <1>6
  <2> QED
    BY <1>1, <1>2, <1>6, <1>10, <1>11, <2>1, <2>2 DEF ReadOK
<1> QED
  BY <1>8, <1>9, <1>10, <1>12 DEF DataInv

(* The loop of copy(), called by the program or by read().                 *)
LEMMA CopyLoopData == DataInv /\ CopyLoop => DataInv'
<1> SUFFICES ASSUME DataInv, CopyLoop PROVE DataInv'
  OBVIOUS
<1>1. /\ Next /\ stage = "copy" /\ stage' = stage
      /\ UNCHANGED <<data, nread_, taken, slice>>
      /\ Inv /\ CopiedInOrder /\ ResultIsLeast /\ DataOK /\ ReadOK
  BY DEF DataInv, CopyLoop
<1>2. Inv' /\ CopiedInOrder' /\ ResultIsLeast'
  BY <1>1, NextInv, NextCopied, NextResult
<1>3. DataOK' /\ Rest' = Rest
  BY <1>1, DataSame
<1>4. at_most' = at_most /\ k0' = k0 /\ cut0' = cut0
  BY <1>1 DEF Next, Iterate, Return, args
<1>5. /\ user' = user /\ DataSize' = DataSize /\ nread_' = nread_ /\ pc' = pc
      /\ UNCHANGED <<K, cut, slice>>
  BY <1>1 DEF data, DataSize, slice
<1>6. user = "data_model" => S!Shape' /\ S!Content' = S!Content
  BY <1>1, <1>5, SliceSame DEF ReadOK
<1>7. ReadOK'
  BY <1>1, <1>3, <1>4, <1>5, <1>6 DEF ReadOK
<1> QED
  BY <1>2, <1>3, <1>7 DEF DataInv

(* The byte with q bytes before it.                                        *)
LEMMA NthByte ==
  ASSUME NEW l \in Nat, NEW u \in Nat, l <= u, NEW q \in 0..u - l - 1
  PROVE  (CHOOSE x \in l..u - 1 : Cardinality({y \in l..u - 1 : y < x}) = q) = l + q
<1>1. ASSUME NEW x \in l..u - 1
      PROVE  Cardinality({y \in l..u - 1 : y < x}) = x - l
  <2>1. S!Cardinality({y \in l..u - 1 : y < x}) = x - l
    BY SliceFits, S!WindowCounts
  <2> QED
    BY <2>1, SameSize
<1>2. l + q \in l..u - 1 /\ (l + q) - l = q /\ \A x \in l..u - 1 : x - l = q => x = l + q
  OBVIOUS
<1>3. /\ \E x \in l..u - 1 : Cardinality({y \in l..u - 1 : y < x}) = q
      /\ \A x \in l..u - 1 : Cardinality({y \in l..u - 1 : y < x}) = q => x = l + q
  BY <1>1, <1>2
<1> QED
  BY <1>3

(* What a read() has copied when copy() is done: all there is room for, of *)
(* the bytes that were not read yet.                                       *)
LEMMA BytesRead ==
  ASSUME DataInv, stage = "copy", done, user = "data_model"
  PROVE  /\ cut1[k1] \in Nat /\ total = Least(cut1[k1], DataSize - nread_)
         /\ total \in Nat /\ total <= DataSize - nread_
         /\ \A p \in 1..total : DataAt(written[p - 1]) = nread_ + (p - 1)
<1>1. /\ DataOK /\ S!Content = Rest /\ at_most = SizeMax
      /\ cut0[k0] = DataSize - nread_
      /\ total = Least(Least(cut0[k0], cut1[k1]), at_most)
      /\ DOMAIN written = 0..cut1[k1] - 1
      /\ CopiedInOrder /\ k1 \in Nat /\ cut1 \in Cuts(k1, MaxTotal)
  BY CopyAssumption DEF DataInv, ReadOK, Inv, TypeOK, ResultIsLeast
<1>2. /\ nread_ \in Nat /\ DataSize \in Nat /\ nread_ <= DataSize
      /\ DataSize <= SizeMax /\ SizeMax \in Nat
      /\ cut1[k1] \in Nat /\ cut1[k1] <= SizeMax
  <2>1. k1 \in 0..k1
    BY <1>1
  <2> QED
    BY <1>1, <2>1, DataFits, CutsFit, CopyAssumption
<1>3. /\ total = Least(cut1[k1], DataSize - nread_)
      /\ total \in Nat /\ total <= DataSize - nread_ /\ total <= cut1[k1]
  BY <1>1, <1>2 DEF Least
<1>4. ASSUME NEW p \in 1..total PROVE DataAt(written[p - 1]) = nread_ + (p - 1)
  <2>1. PICK q \in 0..DataSize - nread_ - 1 : q = p - 1 /\ q < total
    BY <1>2, <1>3
  <2>2. written[q] = q
    BY <1>1, <1>2, <1>3, <2>1 DEF CopiedInOrder
  <2>3. DataAt(q) = CHOOSE x \in Rest : Cardinality({y \in Rest : y < x}) = q
    BY <1>1, SameSlice DEF DataAt
  <2>4. DataAt(q) = nread_ + q
    BY <1>2, <2>3, NthByte DEF Rest
  <2> QED
    BY <2>1, <2>2, <2>4
<1> QED
  BY <1>2, <1>3, <1>4

(* The first l bytes, and the next m after them.                           *)
LEMMA GoesOn ==
  ASSUME NEW l \in Nat, NEW m \in Nat
  PROVE  [i \in 1..l |-> i - 1] \o [i \in 1..m |-> l + (i - 1)]
           = [i \in 1..l + m |-> i - 1]
<1> DEFINE s == [i \in 1..l |-> i - 1]
           t == [i \in 1..m |-> l + (i - 1)]
           u == [i \in 1..l + m |-> i - 1]
<1>1. /\ s \in Seq(Nat) /\ Len(s) = l /\ \A i \in 1..l : s[i] = i - 1
      /\ t \in Seq(Nat) /\ Len(t) = m /\ \A i \in 1..m : t[i] = l + (i - 1)
      /\ u \in Seq(Nat) /\ Len(u) = l + m /\ \A i \in 1..l + m : u[i] = i - 1
  OBVIOUS
<1> HIDE DEF s, t, u
<1>2. /\ s \o t \in Seq(Nat) /\ Len(s \o t) = l + m
      /\ \A i \in 1..l + m : (s \o t)[i] = IF i <= l THEN s[i] ELSE t[i - l]
  BY <1>1, ConcatProperties
<1>3. \A i \in 1..l + m : (s \o t)[i] = u[i]
  <2> SUFFICES ASSUME NEW i \in 1..l + m PROVE (s \o t)[i] = u[i]
    OBVIOUS
  <2>1. CASE i <= l
    <3>1. i \in 1..l
      BY <2>1
    <3> QED
      BY <1>1, <1>2, <2>1, <3>1
  <2>2. CASE ~(i <= l)
    <3>1. i - l \in 1..m /\ l + (i - l - 1) = i - 1
      BY <2>2
    <3> QED
      BY <1>1, <1>2, <2>2, <3>1
  <2> QED
    BY <2>1, <2>2
<1>4. s \o t = u
  BY <1>1, <1>2, <1>3, SeqEqual
<1> QED
  BY <1>4 DEF s, t, u

(* read() returns: what it copied follows what was read before.            *)
LEMMA ReadReturnsData == DataInv /\ ReadReturns => DataInv'
<1> SUFFICES ASSUME DataInv, ReadReturns PROVE DataInv'
  OBVIOUS
<1>1. /\ stage = "copy" /\ done /\ user = "data_model" /\ stage' = "idle"
      /\ nread_' = nread_ + total
      /\ taken' = taken \o [p \in 1..total |-> DataAt(written[p - 1])]
      /\ UNCHANGED <<vars, data, slice>>
  BY DEF ReadReturns, CountRead
<1>2. /\ DataOK /\ S!Shape /\ pc = "idle" /\ at_most = SizeMax /\ n = 0
  BY <1>1 DEF DataInv, ReadOK, S!Shape, S!Consistent
<1>3. /\ total \in Nat /\ total <= DataSize - nread_
      /\ \A p \in 1..total : DataAt(written[p - 1]) = nread_ + (p - 1)
  BY <1>1, BytesRead
<1>4. nread_ \in Nat /\ DataSize \in Nat
  BY <1>2, DataFits
<1>5. taken' = [i \in 1..nread_ + total |-> i - 1]
  <2>1. [p \in 1..total |-> DataAt(written[p - 1])]
          = [p \in 1..total |-> nread_ + (p - 1)]
    BY <1>3
  <2> QED
    BY <1>1, <1>2, <1>3, <1>4, <2>1, GoesOn DEF DataOK
<1>6. DataOK'
  <2>1. user' = user /\ K' = K /\ cut' = cut /\ DataSize' = DataSize
    BY <1>1 DEF data, DataSize
  <2>2. nread_' \in 0..DataSize
    BY <1>1, <1>3, <1>4
  <2> QED
    BY <1>1, <1>2, <1>5, <2>1, <2>2 DEF DataOK
<1>7. Inv' /\ CopiedInOrder' /\ ResultIsLeast'
  BY <1>1, CopySame DEF DataInv
<1>8. ReadOK'
  BY <1>1, <1>2 DEF ReadOK, vars, args, data, slice
<1> QED
  BY <1>6, <1>7, <1>8 DEF DataInv

LEMMA RewindData == DataInv /\ Rewind => DataInv'
<1> SUFFICES ASSUME DataInv, Rewind PROVE DataInv'
  OBVIOUS
<1>1. /\ stage = "idle" /\ stage' = stage /\ nread_' = 0 /\ taken' = <<>>
      /\ UNCHANGED <<vars, data, slice>>
  BY DEF Rewind
<1>2. DataOK'
  <2>1. user' = user /\ K' = K /\ cut' = cut /\ DataSize' = DataSize
    BY <1>1 DEF data, DataSize
  <2>2. 0 \in 0..DataSize
    BY DataFits DEF DataInv
  <2> QED
    BY <1>1, <2>1, <2>2 DEF DataInv, DataOK
<1>3. Inv' /\ CopiedInOrder' /\ ResultIsLeast'
  BY <1>1, CopySame DEF DataInv
<1>4. ReadOK'
  BY <1>1 DEF DataInv, ReadOK, vars, args, data, slice
<1> QED
  BY <1>2, <1>3, <1>4 DEF DataInv

LEMMA SameData == DataInv /\ UNCHANGED dataVars => DataInv'
<1> SUFFICES ASSUME DataInv, UNCHANGED dataVars PROVE DataInv'
  OBVIOUS
<1>1. /\ UNCHANGED <<vars, data, slice>> /\ nread_' = nread_ /\ taken' = taken
      /\ stage' = stage /\ UNCHANGED <<K, cut, slice>>
      /\ user' = user /\ DataSize' = DataSize /\ pc' = pc /\ n' = n
  BY DEF dataVars, data, slice, DataSize
<1>2. DataOK' /\ Rest' = Rest
  BY <1>1, DataSame DEF DataInv
<1>3. Inv' /\ CopiedInOrder' /\ ResultIsLeast'
  BY <1>1, CopySame DEF DataInv
<1>4. /\ done' = done /\ at_most' = at_most /\ k0' = k0 /\ cut0' = cut0
      /\ Fresh => Fresh'
      /\ Whole => Whole'
  BY <1>1, FreshSame DEF vars, args, slice, Whole
<1>5. S!Shape => S!Shape' /\ S!Content' = S!Content /\ S!Window' = S!Window
  <2>1. UNCHANGED S!vars
    BY <1>1 DEF slice, S!vars, NoIterator
  <2> QED
    BY <1>1, <2>1, SliceSame DEF S!vars, S!Window, S!Interval
<1>6. ReadOK'
  BY <1>1, <1>2, <1>4, <1>5 DEF DataInv, ReadOK
<1> QED
  BY <1>2, <1>3, <1>6 DEF DataInv

LEMMA InitData == DataInit => DataInv
<1> SUFFICES ASSUME DataInit PROVE DataInv
  OBVIOUS
<1>1. /\ nread_ = 0 /\ taken = <<>> /\ n = 0 /\ pc = "idle"
      /\ ProgramInit \/ DataModelInit
  BY DEF DataInit
<1>2. MaxTotal \in Nat /\ MaxBuffers \in Nat /\ SizeMax \in Nat
      /\ NoCut \in Cuts(0, MaxTotal) /\ NoCut[0] = 0
  BY CopyAssumption DEF NoCut, Cuts
<1>3. K \in 0..MaxBuffers /\ cut \in Cuts(K, MaxTotal)
  BY <1>1, <1>2 DEF ProgramInit, DataModelInit
<1>4. DataOK
  <2>1. K \in 0..K /\ K \in Nat
    BY <1>2, <1>3
  <2>2. DataSize \in Nat
    BY <1>2, <1>3, <2>1, CutsFit DEF DataSize
  <2>3. user \in {"program", "data_model"}
    BY <1>1 DEF ProgramInit, DataModelInit
  <2> QED
    BY <1>1, <1>3, <2>2, <2>3 DEF DataOK
<1>5. CASE ProgramInit
  <2>1. Inv /\ CopiedInOrder /\ ResultIsLeast
    BY <1>5, InitInv, InitCopied, InitResult DEF ProgramInit
  <2>2. ReadOK
    BY <1>5 DEF ProgramInit, ReadOK
  <2> QED
    BY <1>4, <2>1, <2>2 DEF DataInv
<1>6. CASE DataModelInit
  <2>1. Fresh /\ done \in BOOLEAN
    BY <1>2, <1>6 DEF DataModelInit, Fresh
  <2>2. ResultIsLeast
    <3>1. Least(Least(0, 0), SizeMax) = 0
      BY <1>2 DEF Least
    <3> QED
      BY <1>2, <1>6, <3>1 DEF DataModelInit, ResultIsLeast
  <2>3. ReadOK
    BY <1>1, <1>6 DEF DataModelInit, ReadOK
  <2> QED
    BY <1>4, <2>1, <2>2, <2>3, FreshInv, FreshCopied DEF DataInv
<1> QED
  BY <1>1, <1>5, <1>6

LEMMA NextData == DataInv /\ [DataNext]_dataVars => DataInv'
<1> SUFFICES ASSUME DataInv, [DataNext]_dataVars PROVE DataInv'
  OBVIOUS
<1>1. ASSUME NEW k \in 1..MaxBuffers, NEW c \in Cuts(k, MaxTotal), Read(k, c)
      PROVE  DataInv'
  BY <1>1, ReadData
<1> QED
  BY <1>1, DropReadData, SliceLoopData, CallCopyData, CopyLoopData,
     ReadReturnsData, RewindData, SameData
  DEF DataNext, Step

LEMMA AlwaysDataInv == DataSpec => []DataInv
BY InitData, NextData, PTL DEF DataSpec

(* The reads of a data source return its bytes one after another, each     *)
(* once, for data and destinations cut anywhere: where remove_prefix()     *)
(* leaves the slice, the elements its iterators show, what copy() makes of *)
(* them and what nread_ counts agree (any_source.hpp:280-292).             *)
THEOREM AlwaysOneStream == DataSpec => []OneStream
<1>1. DataInv => OneStream
  BY DEF DataInv, DataOK, OneStream
<1> QED
  BY <1>1, AlwaysDataInv, PTL

(* What the slice shows is a source for which copy() keeps its promises    *)
(* (copy.hpp:32, :59-102).                                                 *)
THEOREM DataAlwaysCopies == DataSpec => [](Inv /\ CopiedInOrder /\ ResultIsLeast)
<1>1. DataInv => Inv /\ CopiedInOrder /\ ResultIsLeast
  BY DEF DataInv
<1> QED
  BY <1>1, AlwaysDataInv, PTL

(* A data_model does what AnySource takes for granted of a data source: it *)
(* copies all there is room for, and says eof with the last byte           *)
(* (any_source.hpp:280-292).                                               *)
THEOREM AlwaysIsDataRead == DataSpec => IsDataRead
<1>1. ASSUME DataInv, stage = "copy", stage' = "idle", [DataNext]_dataVars
      PROVE  Any!DataRead(1, total, ec')
  <2>1. ReadReturns
    BY <1>1 DEF DataNext, Step, Read, DropRead, SliceLoop, CallCopy, CopyLoop,
                Rewind, dataVars
  <2>2. /\ nread_' = nread_ + total
        /\ ec' = IF nread_' >= DataSize THEN "eof" ELSE "ok"
        /\ total = Least(cut1[k1], DataSize - nread_) /\ cut1[k1] \in Nat
    BY <1>1, <2>1, BytesRead DEF ReadReturns, CountRead
  <2>3. Any!Room = cut1[k1]
    <3>1. k1 \in Nat /\ k1 <= MaxBuffers /\ MaxBuffers \in Nat
          /\ cut1 \in Cuts(k1, MaxTotal)
      BY <1>1, CopyAssumption DEF DataInv, Inv, TypeOK
    <3>2. cut1[0] = 0
      BY <3>1, CutsFit
    <3>3. Any!BatchEnd = k1
      BY <3>1 DEF Any!BatchEnd, Any!Least
    <3> QED
      BY <2>2, <3>2, <3>3 DEF Any!Room
  <2> QED
    BY <2>2, <2>3 DEF Any!DataRead, Any!Least, Least
<1>2. DataInv /\ [DataNext]_dataVars =>
        [stage = "copy" /\ stage' = "idle" => Any!DataRead(1, total, ec')]_dataVars
  BY <1>1
<1> QED
  BY <1>2, AlwaysDataInv, PTL DEF DataSpec, IsDataRead

-----------------------------------------------------------------------------
(* How long a read() takes.                                                *)

(* The most steps that a call has left: those of copy(), before it those   *)
(* of the loop of remove_prefix(), and those between the two.  The elements *)
(* of the slice are no more than its buffers.                              *)
Work ==
  CASE stage = "idle"   -> 0
    [] stage = "copy"   -> Turns + 1
    [] stage = "loop"   -> (len_ + k1 + 4) + (IF pc = "idle" THEN 0 ELSE len_ + 1)
    [] stage = "sliced" -> (K + k1 + 4) + (K + 2)

(* While a call runs, it alone takes steps, and each one brings it nearer  *)
(* to its end: a read() over data of K buffers into k1 of them takes at    *)
(* most 2 * K + k1 + 6, whatever was read before (any_source.hpp:280-292,  *)
(* slice.hpp:164, copy.hpp:84).                                            *)
THEOREM ReadsShorten ==
  DataSpec => [][stage # "idle" => Work' \in Nat /\ Work' < Work]_dataVars
<1>1. ASSUME DataInv, DataInv', stage # "idle", DataNext
      PROVE  Work' \in Nat /\ Work' < Work
  <2>1. /\ K \in Nat /\ k0 \in Nat /\ k1 \in Nat
        /\ it0 \in 0..k0 /\ it1 \in 0..k1
    BY <1>1, InvAt, DataFits DEF DataInv, At
  <2>2. CASE DropRead
    <3>1. /\ stage = "sliced" /\ stage' = "loop" /\ len_ = K /\ len_' = len_
          /\ k1' = k1 /\ pc' = "remove_prefix"
      BY <1>1, <2>2 DEF DropRead, Slice!RemovePrefix, Slice!RemovePrefixImpl, vars,
                        args, DataInv, ReadOK, Whole
    <3>2. Work = (K + k1 + 4) + (K + 2) /\ Work' = (K + k1 + 4) + (K + 1)
      BY <3>1 DEF Work
    <3> QED
      BY <2>1, <3>2
  <2>3. CASE SliceLoop
    <3>1. /\ stage = "loop" /\ stage' = "loop" /\ k1' = k1 /\ S!Shape /\ S!Shape'
          /\ pc \in {"idle", "remove_prefix"}
      BY <1>1, <2>3 DEF SliceLoop, vars, args, DataInv, ReadOK
    <3>2. Slice!PrefixDone \/ Slice!PrefixPart \/ Slice!PrefixWhole
      BY <2>3, <3>1 DEF SliceLoop, Slice!Loop, Slice!SuffixPart, Slice!SuffixWhole,
                        Slice!SuffixFirst
    <3>3. len_ \in Nat /\ (begin_ # end_ => len_ # 0)
      BY <3>1, SliceFits, S!Fits, S!WindowIs
    <3>4. CASE Slice!PrefixWhole
      <4>1. len_' = len_ - 1 /\ pc = "remove_prefix" /\ pc' = pc /\ len_ # 0
        BY <3>3, <3>4 DEF Slice!PrefixWhole
      <4>2. Work = (len_ + k1 + 4) + (len_ + 1)
            /\ Work' = (len_ - 1 + k1 + 4) + (len_ - 1 + 1)
        BY <3>1, <4>1 DEF Work
      <4> QED
        BY <2>1, <3>3, <4>1, <4>2
    <3>5. CASE Slice!PrefixDone \/ Slice!PrefixPart
      <4>1. len_' = len_ /\ pc = "remove_prefix" /\ pc' = "idle"
        BY <3>5 DEF Slice!PrefixDone, Slice!PrefixPart
      <4>2. Work = (len_ + k1 + 4) + (len_ + 1) /\ Work' = (len_ + k1 + 4) + 0
        BY <3>1, <4>1 DEF Work
      <4> QED
        BY <2>1, <3>3, <4>2
    <3> QED
      BY <3>2, <3>4, <3>5
  <2>4. CASE CallCopy
    <3>1. /\ stage = "loop" /\ stage' = "copy" /\ pc = "idle" /\ S!Shape
          /\ k0' = len_ /\ done' = FALSE /\ k1' = k1 /\ at_most' = at_most
          /\ it0' = 0 /\ it1' = 0 /\ total' = 0
      BY <1>1, <2>4 DEF CallCopy, DataInv, ReadOK, Fresh
    <3>2. len_ \in Nat
      BY <3>1, SliceFits, S!Fits
    <3>3. Work = (len_ + k1 + 4) + 0
      BY <3>1 DEF Work
    <3>4. Turns' = (len_ - 0) + (k1 - 0) + (IF 0 < at_most THEN 1 ELSE 0) + 1
      BY <3>1 DEF Turns
    <3>5. Work' = Turns' + 1
      BY <3>1 DEF Work
    <3> QED
      BY <2>1, <3>2, <3>3, <3>4, <3>5
  <2>5. CASE CopyLoop
    <3>1. stage = "copy" /\ stage' = "copy" /\ Next
      BY <2>5 DEF CopyLoop
    <3>2. Turns \in Nat /\ Turns' \in Nat /\ Turns' < Turns
      BY <1>1, <3>1, TurnsShorten DEF DataInv
    <3>3. PICK a \in Nat, b \in Nat : a = Turns /\ b = Turns' /\ b < a
      BY <3>2
    <3>4. Work = a + 1 /\ Work' = b + 1
      BY <3>1, <3>3 DEF Work
    <3>5. b < a
      BY <3>3
    <3>6. b + 1 \in Nat /\ b + 1 < a + 1
      BY <3>5
    <3> QED
      BY <3>4, <3>6
  <2>6. CASE ReadReturns
    <3>1. stage = "copy" /\ stage' = "idle"
      BY <2>6 DEF ReadReturns
    <3>2. Turns \in Nat
      BY <1>1, <2>1 DEF Turns
    <3>3. Work = Turns + 1 /\ Work' = 0
      BY <3>1 DEF Work
    <3> QED
      BY <3>2, <3>3
  <2> QED
    BY <1>1, <2>2, <2>3, <2>4, <2>5, <2>6 DEF DataNext, Step, Read, Rewind
<1>2. DataInv /\ [DataNext]_dataVars =>
        [stage # "idle" => Work' \in Nat /\ Work' < Work]_dataVars
  BY <1>1, NextData
<1> QED
  BY <1>2, AlwaysDataInv, PTL DEF DataSpec
=============================================================================
