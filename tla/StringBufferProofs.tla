------------------------- MODULE StringBufferProofs -------------------------
(***************************************************************************)
(* What StringBuffer promises about the caller's string, for every set of  *)
(* byte values, every limit and every order of calls, moves included.      *)
(*                                                                         *)
(* Inv of StringBuffer is inductive: StringReachesOutput bounds the sizes  *)
(* by the length of the string, WithinLimit the length by the limits.      *)
(*                                                                         *)
(* Then the refinement of DynamicBuffer, and the wrapper: its copies are   *)
(* as old as the calls that last made them (CopiesInv).                    *)
(***************************************************************************)
EXTENDS AnyStringBuffer, SequenceLemmas

-----------------------------------------------------------------------------
(* The operations of the string.                                           *)

LEMMA ResizedString ==
  ASSUME NEW s \in Seq(Byte), NEW n \in Nat
  PROVE  Resized(s, n) \in Seq(Byte) /\ Len(Resized(s, n)) = n
<1>1. s \in [1..Len(s) -> Byte] /\ Len(s) \in Nat
  BY LenProperties
<1>2. Resized(s, n) \in [1..n -> Byte]
  BY <1>1, StringAssumption DEF Resized
<1> QED
  BY <1>2

LEMMA ErasedString ==
  ASSUME NEW s \in Seq(Byte), NEW n \in 0..Len(s)
  PROVE  Erased(s, n) \in Seq(Byte) /\ Len(Erased(s, n)) = Len(s) - n
<1> DEFINE a == n + 1
<1>1. Len(s) \in Nat
  BY LenProperties
<1>2. a \in Nat \ {0} /\ Len(s) \in 0..Len(s) /\ a <= Len(s) + 1
  BY <1>1
<1>3. /\ SubSeq(s, a, Len(s)) \in Seq(Byte)
      /\ Len(SubSeq(s, a, Len(s))) = Len(s) - a + 1
  <2> HIDE DEF a
  <2> QED
    BY <1>2, PartOf, Zenon
<1> QED
  BY <1>1, <1>3 DEF Erased

LEMMA ErasedBytes ==
  ASSUME NEW s \in Seq(Byte), NEW n \in 0..Len(s), NEW i \in 1..Len(s) - n
  PROVE  Erased(s, n)[i] = s[n + i]
<1> DEFINE a == n + 1
<1>1. Len(s) \in Nat
  BY LenProperties
<1>2. a \in Nat \ {0} /\ Len(s) \in 0..Len(s) /\ a <= Len(s) + 1
  BY <1>1
<1>3. \A j \in 1..(Len(s) - a + 1) : SubSeq(s, a, Len(s))[j] = s[a + j - 1]
  <2> HIDE DEF a
  <2> QED
    BY <1>2, PartOf, Zenon
<1>4. i \in 1..(Len(s) - a + 1) /\ a + i - 1 = n + i
  BY <1>1
<1> QED
  BY <1>3, <1>4 DEF Erased

(* The sizes and limits, as far as the bounds need them.                   *)
LEMMA Bounds ==
  Inv => /\ str \in Seq(Byte) /\ Len(str) \in Nat
         /\ strcap \in Nat /\ max_size_ \in Nat /\ StrMax \in Nat
         /\ in_size_ \in Nat /\ out_size_ \in Nat
         /\ strcap <= StrMax /\ max_size_ <= StrMax
         /\ Len(str) <= max_size_ /\ Len(str) <= strcap
         /\ in_size_ + out_size_ <= Len(str)
         /\ held.pos \in Nat /\ held.len \in Nat
         /\ held.pos + held.len <= Len(str)
BY StringAssumption, LenProperties DEF Inv, TypeOK, StringReachesOutput, WithinLimit

(* What is left to show of a step: the string, the sizes and the buffer    *)
(* that is held fit together again.                                        *)
Fits(s, c, m, in, out, hd) ==
  /\ s \in Seq(Byte) /\ c \in 0..StrMax /\ m \in 0..StrMax
  /\ in \in Nat /\ out \in Nat
  /\ (out = 0 /\ hd = NoRegion) \/ hd = Region(in, out)
  /\ in + out <= Len(s) /\ Len(s) <= m /\ Len(s) <= c

FitsTogether ==
  /\ Fits(str, strcap, max_size_, in_size_, out_size_, held)
  /\ outcome \in {"returned", "invalid_argument", "bad_alloc"}
  /\ owner \in 0..1 /\ alive \in BOOLEAN

LEMMA FitsInv == FitsTogether => Inv
<1> SUFFICES ASSUME FitsTogether PROVE Inv
  OBVIOUS
<1> USE DEF FitsTogether
<1>1. /\ Len(str) \in Nat /\ StrMax \in Nat /\ strcap \in Nat /\ max_size_ \in Nat
      /\ strcap <= StrMax
  BY StringAssumption, LenProperties DEF Fits
<1>2. in_size_ \in 0..StrMax /\ out_size_ \in 0..StrMax
  BY <1>1 DEF Fits
<1>3. /\ held \in [pos : 0..StrMax, len : 0..StrMax]
      /\ held.pos + held.len <= Len(str)
      /\ held.len = out_size_ /\ (out_size_ > 0 => held.pos = in_size_)
  <2>1. CASE out_size_ = 0 /\ held = NoRegion
    BY <1>1, <2>1 DEF NoRegion, Region
  <2>2. CASE held = Region(in_size_, out_size_)
    BY <1>1, <1>2, <2>2 DEF Region, Fits
  <2> QED
    BY <2>1, <2>2 DEF Fits
<1>4. capacity \in Nat
  BY <1>1, <1>2 DEF capacity, Fits
<1>5. TypeOK
  BY <1>2, <1>3 DEF TypeOK, Fits
<1>6. StringReachesOutput
  BY <1>3 DEF StringReachesOutput, Fits
<1>7. WithinLimit
  BY <1>4 DEF WithinLimit, Fits
<1> QED
  BY <1>5, <1>6, <1>7 DEF Inv

LEMMA FitsInvNext == FitsTogether' => Inv'
BY FitsInv, PTL

LEMMA InitInv == Init => Inv
<1> SUFFICES ASSUME Init PROVE Inv
  OBVIOUS
<1>1. StrMax \in Nat /\ SizeMax \in Nat
  BY StringAssumption
<1>2. max_size_ \in 0..StrMax
  <2>1. PICK limit \in 0..SizeMax :
          max_size_ = IF limit > StrMax THEN StrMax ELSE limit
    BY DEF Init
  <2> QED
    BY <1>1, <2>1
<1> DEFINE From(n, s) == /\ str = IF n > max_size_ THEN Resized(s, max_size_) ELSE s
                         /\ strcap \in n..StrMax
<1>2a. PICK n \in 0..StrMax : \E s \in [1..n -> Byte] : From(n, s)
  BY DEF Init
<1>3. PICK s \in [1..n -> Byte] : From(n, s)
  BY <1>2a
<1>4. s \in Seq(Byte) /\ Len(s) = n /\ n \in Nat
  BY <1>1, <1>3
<1>5. str \in Seq(Byte) /\ Len(str) \in Nat /\ Len(str) <= max_size_ /\ Len(str) <= n
  <2>1. CASE n > max_size_
    <3>1. str \in Seq(Byte) /\ Len(str) = max_size_
      BY <1>1, <1>2, <1>3, <1>4, <2>1, ResizedString
    <3> QED
      BY <1>1, <1>2, <1>4, <2>1, <3>1
  <2>2. CASE ~(n > max_size_)
    BY <1>1, <1>2, <1>3, <1>4, <2>2
  <2> QED
    BY <2>1, <2>2
<1>6. Fits(str, strcap, max_size_, in_size_, out_size_, held)
  <2>1. in_size_ = Len(str) /\ out_size_ = 0 /\ held = NoRegion
    BY DEF Init
  <2> QED
    BY <1>1, <1>2, <1>3, <1>4, <1>5, <2>1 DEF Fits
<1> QED
  BY <1>6, FitsInv DEF Init, FitsTogether

-----------------------------------------------------------------------------
(* The calls.                                                              *)

(* prepare(): the string is as long as what is readable and writable.      *)
LEMMA PrepareKeepsInv ==
  ASSUME Inv, NEW n \in Nat, Prepare(n)
  PROVE  Inv'
<1>1. /\ str \in Seq(Byte) /\ Len(str) \in Nat
      /\ strcap \in Nat /\ max_size_ \in 0..StrMax /\ StrMax \in Nat
      /\ in_size_ \in Nat /\ strcap <= StrMax
      /\ Len(str) <= max_size_ /\ Len(str) <= strcap
      /\ max_size_ \in Nat /\ max_size_ <= StrMax
  BY Bounds DEF Inv, TypeOK
<1> DEFINE e == in_size_ + n
<1>2. e \in Nat /\ e <= max_size_
  BY <1>1 DEF Prepare, Refused
<1>3. /\ str' = IF Len(str) < e THEN Resized(str, e) ELSE str
      /\ strcap' \in GrownCap(e)
      /\ max_size_' = max_size_ /\ in_size_' = in_size_ /\ out_size_' = n
      /\ held' = Region(in_size_, n)
  BY DEF Prepare
<1> HIDE DEF e
<1>4. strcap' \in 0..StrMax /\ e <= strcap' /\ strcap <= strcap'
  <2>1. CASE e <= strcap
    BY <1>1, <1>2, <1>3, <2>1 DEF GrownCap
  <2>2. CASE ~(e <= strcap)
    BY <1>1, <1>2, <1>3, <2>2 DEF GrownCap
  <2> QED
    BY <2>1, <2>2
<1>5. str' \in Seq(Byte) /\ Len(str') \in Nat /\ e <= Len(str')
      /\ (Len(str') = e \/ Len(str') = Len(str))
  <2>1. CASE Len(str) < e
    <3>1. str' \in Seq(Byte) /\ Len(str') = e
      BY <1>1, <1>2, <1>3, <2>1, ResizedString
    <3> QED
      BY <1>2, <3>1
  <2>2. CASE ~(Len(str) < e)
    BY <1>1, <1>2, <1>3, <2>2
  <2> QED
    BY <2>1, <2>2
<1>6. Len(str') <= max_size_ /\ Len(str') <= strcap'
  BY <1>1, <1>2, <1>4, <1>5
<1>7. Fits(str, strcap, max_size_, in_size_, out_size_, held)'
  <2>1. in_size_ + n <= Len(str')
    BY <1>5 DEF e
  <2> QED
    BY <1>1, <1>3, <1>4, <1>5, <1>6, <2>1 DEF Fits, Region, NoRegion
<1>8. outcome' = "returned" /\ owner' = owner /\ alive' = alive
  BY DEF Prepare
<1> QED
  BY <1>7, <1>8, FitsInvNext DEF FitsTogether, Inv, TypeOK

(* The calls after which nothing is prepared, and the string is not longer *)
(* than before.                                                            *)
LEMMA DropKeepsInv ==
  ASSUME Inv, str' \in Seq(Byte), Len(str') <= Len(str),
         strcap' = strcap, max_size_' = max_size_,
         in_size_' \in Nat, in_size_' <= Len(str'), out_size_' = 0,
         held' = NoRegion, outcome' = "returned", owner' \in 0..1,
         alive' \in BOOLEAN
  PROVE  Inv'
<1>1. /\ Len(str) \in Nat /\ Len(str') \in Nat
      /\ strcap \in Nat /\ max_size_ \in Nat
      /\ Len(str) <= max_size_ /\ Len(str) <= strcap
  BY Bounds, LenProperties
<1>2. strcap \in 0..StrMax /\ max_size_ \in 0..StrMax
  BY DEF Inv, TypeOK
<1>3. Len(str') <= max_size_ /\ Len(str') <= strcap
  BY <1>1
<1>4. Fits(str, strcap, max_size_, in_size_, out_size_, held)'
  BY <1>1, <1>2, <1>3 DEF Fits, Region, NoRegion
<1> QED
  BY <1>4, FitsInvNext DEF FitsTogether

LEMMA CommitKeepsInv ==
  ASSUME Inv, NEW n \in Nat, Commit(n)
  PROVE  Inv'
<1>1. in_size_' = in_size_ + (IF n < out_size_ THEN n ELSE out_size_)
  BY DEF Commit
<1>2. in_size_' \in Nat /\ in_size_' <= Len(str)
  BY <1>1, Bounds
<1>3. Len(str) <= Len(str) /\ str \in Seq(Byte)
  BY Bounds
<1> QED
  BY <1>2, <1>3, DropKeepsInv DEF Commit, Inv, TypeOK

LEMMA ConsumeKeepsInv ==
  ASSUME Inv, NEW n \in Nat, Consume(n)
  PROVE  Inv'
<1>1. /\ str \in Seq(Byte) /\ Len(str) \in Nat /\ in_size_ \in Nat
      /\ in_size_ <= Len(str)
  BY Bounds
<1>2. CASE ConsumeSome(n)
  <2>1. n \in 0..Len(str) /\ in_size_ - n \in Nat
    BY <1>1, <1>2 DEF ConsumeSome
  <2>2. str' \in Seq(Byte) /\ Len(str') = Len(str) - n
    BY <1>1, <1>2, <2>1, ErasedString DEF ConsumeSome
  <2>3. Len(str') <= Len(str) /\ in_size_ - n <= Len(str')
    BY <1>1, <2>2
  <2> QED
    BY <1>2, <2>1, <2>2, <2>3, DropKeepsInv DEF ConsumeSome, Inv, TypeOK
<1>3. CASE ConsumeAll(n)
  <2>1. 0 \in Nat /\ 0 <= Len(str) /\ Len(str) <= Len(str)
    BY <1>1
  <2> QED
    BY <1>1, <1>3, <2>1, DropKeepsInv DEF ConsumeAll, Inv, TypeOK
<1> QED
  BY <1>2, <1>3 DEF Consume

LEMMA MoveKeepsInv == Inv /\ Move => Inv'
<1> SUFFICES ASSUME Inv, Move PROVE Inv'
  OBVIOUS
<1>1. str \in Seq(Byte) /\ 0 <= Len(str) /\ Len(str) <= Len(str)
  BY Bounds
<1>2. 1 - owner \in 0..1
  BY DEF Inv, TypeOK
<1> QED
  BY <1>1, <1>2, DropKeepsInv DEF Move, Inv, TypeOK

LEMMA DestroyKeepsInv == Inv /\ Destroy => Inv'
<1> SUFFICES ASSUME Inv, Destroy PROVE Inv'
  OBVIOUS
<1>1. /\ str \in Seq(Byte) /\ in_size_ \in Nat /\ in_size_ <= Len(str)
  BY Bounds
<1>2. str' \in Seq(Byte) /\ Len(str') = in_size_
  BY <1>1, ResizedString DEF Destroy
<1>3. Len(str') <= Len(str) /\ 0 <= Len(str')
  BY <1>1, <1>2
<1> QED
  BY <1>2, <1>3, DropKeepsInv DEF Destroy, Inv, TypeOK

(* A byte stored through the held buffer is a byte of the string.          *)
LEMMA FillKeepsInv ==
  ASSUME Inv, NEW i \in 1..held.len, NEW b \in Byte, Fill(i, b)
  PROVE  Inv'
<1>1. /\ str \in Seq(Byte) /\ Len(str) \in Nat
      /\ held.pos \in Nat /\ held.len \in Nat /\ held.pos + held.len <= Len(str)
  BY Bounds
<1>2. str' \in Seq(Byte) /\ Len(str') = Len(str)
  <2>1. held.pos + i \in 1..Len(str)
    BY <1>1
  <2> QED
    BY <1>1, <2>1, ExceptSeq DEF Fill
<1> QED
  BY <1>2 DEF Fill, Inv, TypeOK, StringReachesOutput, WithinLimit, capacity, Region

LEMMA NextInv == Inv /\ [Next]_vars => Inv'
<1> SUFFICES ASSUME Inv, [Next]_vars PROVE Inv'
  OBVIOUS
<1>1. ASSUME NEW n \in 0..SizeMax,
             \/ Prepare(n) \/ PrepareThrows(n) \/ PrepareRunsOut(n)
             \/ Commit(n) \/ Consume(n)
      PROVE  Inv'
  <2>1. n \in Nat
    BY StringAssumption
  <2>2. CASE Prepare(n)
    BY <2>1, <2>2, PrepareKeepsInv
  <2>3. CASE PrepareThrows(n)
    BY <2>3 DEF PrepareThrows, Inv, TypeOK, StringReachesOutput, WithinLimit, capacity
  <2>4. CASE PrepareRunsOut(n)
    BY <2>4 DEF PrepareRunsOut, Inv, TypeOK, StringReachesOutput, WithinLimit, capacity
  <2>5. CASE Commit(n)
    BY <2>1, <2>5, CommitKeepsInv
  <2>6. CASE Consume(n)
    BY <2>1, <2>6, ConsumeKeepsInv
  <2> QED
    BY <1>1, <2>2, <2>3, <2>4, <2>5, <2>6
<1>2. ASSUME NEW i \in 1..held.len, NEW b \in Byte, Fill(i, b)
      PROVE  Inv'
  BY <1>2, FillKeepsInv
<1>3. CASE UNCHANGED vars
  BY <1>3 DEF vars, Inv, TypeOK, StringReachesOutput, WithinLimit, capacity
<1> QED
  BY <1>1, <1>2, <1>3, MoveKeepsInv, DestroyKeepsInv DEF Next

(* The string always has the bytes that are readable or prepared, and      *)
(* never more than its limits allow, whatever is committed, consumed,      *)
(* moved or refused (string_buffer.hpp:45-146).                            *)
THEOREM AlwaysInv == Spec => []Inv
<1> QED
  BY InitInv, NextInv, PTL DEF Spec

-----------------------------------------------------------------------------
(* string_buffer implements DynamicBuffer.  The readable bytes are the      *)
(* beginning of the string and the prepared bytes follow them, so resizing  *)
(* the string changes neither.                                              *)

(* The sequences of the refinement mapping.                                *)
Input == IF alive THEN RegionBytes(data) ELSE str

Output == RegionBytes(held)

(* What they are, byte by byte.                                            *)
View ==
  /\ alive => /\ Input \in Seq(Byte) /\ Len(Input) = in_size_
              /\ \A i \in 1..in_size_ : Input[i] = str[i]
  /\ Output \in Seq(Byte) /\ Output \in [1..held.len -> Byte]
  /\ Len(Output) = held.len
  /\ \A i \in 1..held.len : Output[i] = str[held.pos + i]

LEMMA BytesOf ==
  ASSUME str \in Seq(Byte), NEW p \in Nat, NEW l \in Nat, p + l <= Len(str)
  PROVE  /\ RegionBytes(Region(p, l)) \in Seq(Byte)
         /\ RegionBytes(Region(p, l)) \in [1..l -> Byte]
         /\ Len(RegionBytes(Region(p, l))) = l
         /\ \A i \in 1..l : RegionBytes(Region(p, l))[i] = str[p + i]
<1> DEFINE a == p + 1
           e == p + l
           q == RegionBytes(Region(p, l))
<1>1. Len(str) \in Nat
  BY LenProperties
<1>2. a \in Nat \ {0} /\ e \in 0..Len(str) /\ a <= e + 1
  BY <1>1
<1>3. q = SubSeq(str, a, e)
  BY DEF RegionBytes, Region
<1>4. /\ q \in Seq(Byte) /\ Len(q) = e - a + 1
      /\ \A i \in 1..(e - a + 1) : q[i] = str[a + i - 1]
  <2> HIDE DEF a, e, q
  <2> QED
    BY <1>2, <1>3, PartOf, Zenon
<1> HIDE DEF q
<1>5. Len(q) = l
  BY <1>4
<1>6. q \in [1..l -> Byte]
  BY <1>4, <1>5, LenProperties
<1>7. ASSUME NEW i \in 1..l PROVE q[i] = str[p + i]
  <2>1. i \in 1..(e - a + 1) /\ a + i - 1 = p + i
    OBVIOUS
  <2> QED
    BY <1>4, <2>1
<1> QED
  BY <1>4, <1>5, <1>6, <1>7 DEF q

LEMMA InvView == Inv => View
<1> SUFFICES ASSUME Inv PROVE View
  OBVIOUS
<1>1. /\ str \in Seq(Byte) /\ Len(str) \in Nat
      /\ in_size_ \in Nat /\ in_size_ <= Len(str)
      /\ held.pos \in Nat /\ held.len \in Nat /\ held.pos + held.len <= Len(str)
  BY Bounds
<1>2. data = Region(0, in_size_) /\ 0 + in_size_ <= Len(str)
  BY <1>1 DEF data
<1>3. /\ RegionBytes(data) \in Seq(Byte) /\ Len(RegionBytes(data)) = in_size_
      /\ \A i \in 1..in_size_ : RegionBytes(data)[i] = str[0 + i]
  BY <1>1, <1>2, BytesOf
<1>4. held = Region(held.pos, held.len)
  BY DEF Inv, TypeOK, Region
<1>5. /\ Output \in Seq(Byte) /\ Output \in [1..held.len -> Byte]
      /\ Len(Output) = held.len
      /\ \A i \in 1..held.len : Output[i] = str[held.pos + i]
  <2>1. /\ RegionBytes(Region(held.pos, held.len)) \in Seq(Byte)
        /\ RegionBytes(Region(held.pos, held.len)) \in [1..held.len -> Byte]
        /\ Len(RegionBytes(Region(held.pos, held.len))) = held.len
        /\ \A i \in 1..held.len :
             RegionBytes(Region(held.pos, held.len))[i] = str[held.pos + i]
    BY <1>1, BytesOf
  <2> QED
    BY <1>4, <2>1 DEF Output
<1>6. \A i \in 1..in_size_ : RegionBytes(data)[i] = str[i]
  BY <1>1, <1>3
<1> QED
  BY <1>3, <1>5, <1>6 DEF View, Input

LEMMA InvViewNext == Inv' => View'
BY InvView, PTL

(* No bytes are prepared.                                                  *)
LEMMA NothingHeld ==
  ASSUME held' = NoRegion
  PROVE  Output' = <<>>
<1>1. held' = Region(0, 0)
  BY DEF NoRegion
<1> QED
  BY <1>1 DEF Output, RegionBytes, Region

(* The same readable bytes, where the string begins as it did.             *)
LEMMA SameInput ==
  ASSUME Inv, Inv', alive, alive', in_size_' = in_size_,
         \A i \in 1..in_size_ : str'[i] = str[i]
  PROVE  Input' = Input
<1>1. /\ Input \in Seq(Byte) /\ Len(Input) = in_size_
      /\ Input' \in Seq(Byte) /\ Len(Input') = in_size_
      /\ \A i \in 1..in_size_ : Input[i] = str[i] /\ Input'[i] = str'[i]
  BY InvView, InvViewNext DEF View
<1>2. \A i \in 1..Len(Input) : Input[i] = Input'[i]
  BY <1>1
<1> HIDE DEF Input
<1> QED
  BY <1>1, <1>2, SeqEqual

LEMMA PrepareStep ==
  ASSUME Inv, Inv', alive, NEW n \in 0..SizeMax, Prepare(n)
  PROVE  Abstract!Prepare(n)
<1>1. View /\ View'
  BY InvView, InvViewNext
<1>2. /\ str \in Seq(Byte) /\ Len(str) \in Nat /\ in_size_ \in Nat /\ n \in Nat
      /\ max_size_ \in Nat /\ in_size_ <= Len(str) /\ in_size_ <= max_size_
  BY Bounds, StringAssumption
<1>3. /\ str' = IF Len(str) < in_size_ + n THEN Resized(str, in_size_ + n) ELSE str
      /\ in_size_' = in_size_ /\ alive' = alive /\ max_size_' = max_size_
      /\ held' = Region(in_size_, n) /\ outcome' = "returned"
      /\ ~(n > max_size_ - in_size_)
  BY DEF Prepare, Refused
<1>4. \A i \in 1..in_size_ : str'[i] = str[i]
  BY <1>2, <1>3 DEF Resized
<1>5. Input' = Input
  BY <1>3, <1>4, SameInput
<1>6. Len(Input) + n <= max_size_
  BY <1>1, <1>2, <1>3 DEF View
<1>7. Output' \in [1..n -> Byte]
  BY <1>1, <1>3 DEF View, Region
<1> QED
  BY <1>3, <1>5, <1>6, <1>7 DEF Abstract!Prepare, Input, Output

LEMMA RefusalSteps ==
  ASSUME Inv, alive, NEW n \in 0..SizeMax
  PROVE  /\ PrepareThrows(n) => Abstract!PrepareThrows(n)
         /\ PrepareRunsOut(n) => Abstract!PrepareRunsOut(n)
<1>1. Len(Input) = in_size_ /\ in_size_ \in Nat /\ max_size_ \in Nat /\ n \in Nat
  BY InvView, Bounds, StringAssumption DEF View
<1>2. UNCHANGED <<str, in_size_, held, alive>> => Input' = Input /\ Output' = Output
  BY DEF Input, Output, RegionBytes, data, Region
<1>3. ASSUME PrepareThrows(n) PROVE Abstract!PrepareThrows(n)
  BY <1>1, <1>2, <1>3 DEF PrepareThrows, Refused, Abstract!PrepareThrows, Input, Output
<1>4. ASSUME PrepareRunsOut(n) PROVE Abstract!PrepareRunsOut(n)
  <2>1. Len(Input) + n <= max_size_
    BY <1>1, <1>4 DEF PrepareRunsOut, Refused
  <2> QED
    BY <1>2, <1>4, <2>1 DEF PrepareRunsOut, Abstract!PrepareRunsOut, Input, Output
<1> QED
  BY <1>3, <1>4

LEMMA FillStep ==
  ASSUME Inv, Inv', alive, NEW j \in 1..held.len, NEW b \in Byte, Fill(j, b)
  PROVE  Abstract!Fill(j, b)
<1>1. View /\ View'
  BY InvView, InvViewNext
<1>2. /\ str \in Seq(Byte) /\ Len(str) \in Nat /\ in_size_ \in Nat
      /\ held.pos \in Nat /\ held.len \in Nat /\ held.pos + held.len <= Len(str)
  BY Bounds
<1>3. /\ str' = [str EXCEPT ![held.pos + j] = b]
      /\ UNCHANGED <<max_size_, in_size_, out_size_, held, outcome, alive>>
  BY DEF Fill
<1>4. held.pos = in_size_
  BY <1>2 DEF Inv, StringReachesOutput, Region
<1>5. ASSUME NEW x \in 1..Len(str)
      PROVE  str'[x] = IF x = held.pos + j THEN b ELSE str[x]
  <2>1. held.pos + j \in 1..Len(str)
    BY <1>2
  <2> QED
    BY <1>2, <1>3, <2>1, ExceptSeq
<1>6. Input' = Input
  <2>1. ASSUME NEW i \in 1..in_size_ PROVE str'[i] = str[i]
    <3>1. i \in 1..Len(str) /\ i # held.pos + j
      BY <1>2, <1>4, Bounds
    <3> QED
      BY <1>5, <3>1
  <2> QED
    BY <1>3, <2>1, SameInput
<1>7. Output' = [Output EXCEPT ![j] = b]
  <2>1. ASSUME NEW i \in 1..held.len
        PROVE  Output'[i] = IF i = j THEN b ELSE Output[i]
    <3>1. Output'[i] = str'[held.pos + i] /\ Output[i] = str[held.pos + i]
      BY <1>1, <1>3 DEF View
    <3>2. held.pos + i \in 1..Len(str) /\ (held.pos + i = held.pos + j <=> i = j)
      BY <1>2
    <3> QED
      BY <1>5, <3>1, <3>2
  <2>2. Output \in [1..held.len -> Byte] /\ Output' \in [1..held.len -> Byte]
    BY <1>1, <1>3 DEF View
  <2> QED
    BY <2>1, <2>2
<1>8. j \in 1..Len(Output)
  BY <1>1 DEF View
<1> QED
  BY <1>3, <1>6, <1>7, <1>8 DEF Abstract!Fill, Input, Output

LEMMA CommitStep ==
  ASSUME Inv, Inv', alive, NEW n \in 0..SizeMax, Commit(n)
  PROVE  Abstract!Commit(n)
<1>1. View /\ View'
  BY InvView, InvViewNext
<1>2. /\ in_size_ \in Nat /\ out_size_ \in Nat /\ n \in Nat
      /\ held.pos \in Nat /\ held.len \in Nat
  BY Bounds, StringAssumption
<1> DEFINE m == IF n < out_size_ THEN n ELSE out_size_
           s == Input
           t == Output
           u == Input'
<1>3. /\ s \in Seq(Byte) /\ Len(s) = in_size_
      /\ t \in Seq(Byte) /\ Len(t) = out_size_
      /\ \A i \in 1..in_size_ : s[i] = str[i]
      /\ \A i \in 1..out_size_ : t[i] = str[in_size_ + i]
  <2>1. held.len = out_size_ /\ (out_size_ > 0 => held.pos = in_size_)
    BY DEF Inv, StringReachesOutput
  <2> QED
    BY <1>1, <1>2, <2>1 DEF View
<1>4. /\ m \in 0..out_size_ /\ m = Abstract!Least(n, out_size_)
  BY <1>2 DEF Abstract!Least
<1>5. /\ in_size_' = in_size_ + m /\ str' = str /\ alive' = alive /\ held' = NoRegion
      /\ max_size_' = max_size_ /\ outcome' = "returned"
  BY DEF Commit
<1> HIDE DEF m
<1>6. /\ u \in Seq(Byte) /\ Len(u) = in_size_ + m
      /\ \A i \in 1..in_size_ + m : u[i] = str[i]
  BY <1>1, <1>5 DEF View
<1> HIDE DEF s, t, u
<1>7. u = s \o SubSeq(t, 1, m)
  <2>1. ASSUME NEW i \in 1..in_size_ PROVE u[i] = s[i]
    <3>1. i \in 1..in_size_ + m
      BY <1>2, <1>4
    <3> QED
      BY <1>3, <1>6, <3>1
  <2>2. ASSUME NEW i \in 1..m PROVE u[in_size_ + i] = t[i]
    <3>1. i \in 1..out_size_ /\ in_size_ + i \in 1..in_size_ + m
      BY <1>2, <1>4
    <3> QED
      BY <1>3, <1>6, <3>1
  <2>3. /\ s \in Seq(Byte) /\ t \in Seq(Byte) /\ u \in Seq(Byte)
        /\ m \in 0..Len(t) /\ Len(u) = Len(s) + m
        /\ \A i \in 1..Len(s) : u[i] = s[i]
        /\ \A i \in 1..m : u[Len(s) + i] = t[i]
    BY <1>3, <1>4, <1>6, <2>1, <2>2
  <2> QED
    BY <2>3, PrefixAppended
<1>8. Output' = <<>>
  BY <1>5, NothingHeld
<1>9. m = Abstract!Least(n, Len(t))
  BY <1>3, <1>4
<1> QED
  BY <1>5, <1>7, <1>8, <1>9 DEF s, t, u, Abstract!Commit, Input, Output

LEMMA ConsumeStep ==
  ASSUME Inv, Inv', alive, NEW n \in 0..SizeMax, Consume(n)
  PROVE  Abstract!Consume(n)
<1>1. View /\ View'
  BY InvView, InvViewNext
<1>2. /\ in_size_ \in Nat /\ n \in Nat /\ str \in Seq(Byte) /\ Len(str) \in Nat
      /\ in_size_ <= Len(str)
  BY Bounds, StringAssumption
<1> DEFINE m == IF n < in_size_ THEN n ELSE in_size_
           s == Input
           u == Input'
<1>3. /\ s \in Seq(Byte) /\ Len(s) = in_size_ /\ \A i \in 1..in_size_ : s[i] = str[i]
  BY <1>1 DEF View
<1>4. /\ m \in 0..in_size_ /\ in_size_' = in_size_ - m /\ alive' = alive
      /\ held' = NoRegion /\ max_size_' = max_size_ /\ outcome' = "returned"
      /\ m < in_size_ => m = n /\ str' = Erased(str, n)
  <2>1. CASE ConsumeSome(n)
    <3>1. n < in_size_
      BY <2>1 DEF ConsumeSome
    <3> QED
      BY <1>2, <2>1, <3>1 DEF ConsumeSome
  <2>2. CASE ConsumeAll(n)
    <3>1. ~(n < in_size_)
      BY <1>2, <2>2 DEF ConsumeAll
    <3> QED
      BY <1>2, <2>2, <3>1 DEF ConsumeAll
  <2> QED
    BY <2>1, <2>2 DEF Consume
<1>5. m = Abstract!Least(n, Len(s))
  BY <1>2, <1>3 DEF Abstract!Least
<1> HIDE DEF m
<1>6. /\ u \in Seq(Byte) /\ Len(u) = in_size_ - m
      /\ \A i \in 1..in_size_ - m : u[i] = str'[i]
  BY <1>1, <1>4 DEF View
<1> HIDE DEF s, u
<1>7. ASSUME NEW i \in 1..in_size_ - m PROVE u[i] = s[i + m]
  <2>1. m < in_size_ /\ m \in Nat
    BY <1>2, <1>4
  <2>2. i \in 1..Len(str) - m /\ i + m \in 1..in_size_ /\ m \in 0..Len(str)
    BY <1>2, <1>4, <2>1
  <2>3. Erased(str, m)[i] = str[m + i]
    BY <1>2, <2>2, ErasedBytes
  <2> QED
    BY <1>3, <1>4, <1>6, <2>1, <2>2, <2>3
<1>8. u = SubSeq(s, m + 1, Len(s))
  <2>1. /\ s \in Seq(Byte) /\ u \in Seq(Byte)
        /\ m \in 0..Len(s) /\ Len(u) = Len(s) - m
        /\ \A i \in 1..Len(u) : u[i] = s[i + m]
    BY <1>3, <1>4, <1>6, <1>7
  <2> QED
    BY <2>1, PrefixDropped
<1>9. Output' = <<>>
  BY <1>4, NothingHeld
<1> QED
  BY <1>4, <1>5, <1>8, <1>9 DEF s, u, Abstract!Consume, Input, Output

(* To be moved is to be consumed whole.                                    *)
LEMMA MoveStep ==
  ASSUME Inv, Inv', alive, Move
  PROVE  Abstract!Consume(in_size_) /\ in_size_ \in 0..SizeMax
<1>1. View /\ View'
  BY InvView, InvViewNext
<1>2. /\ in_size_ \in Nat /\ in_size_ \in 0..SizeMax
  BY Bounds, StringAssumption
<1>3. /\ in_size_' = 0 /\ alive' = alive /\ held' = NoRegion
      /\ max_size_' = max_size_ /\ outcome' = "returned"
  BY DEF Move
<1>4. Input \in Seq(Byte) /\ Len(Input) = in_size_
  BY <1>1 DEF View
<1>5. Input' = <<>>
  <2>1. Input' \in Seq(Byte) /\ Len(Input') = 0
    BY <1>1, <1>3 DEF View
  <2> QED
    BY <2>1, EmptySeq
<1>6. SubSeq(Input, in_size_ + 1, Len(Input)) = <<>>
  <2> HIDE DEF Input
  <2> QED
    BY <1>2, <1>4, Dropped
<1>7. Abstract!Least(in_size_, Len(Input)) = in_size_
  BY <1>2, <1>4 DEF Abstract!Least
<1>8. Output' = <<>>
  BY <1>3, NothingHeld
<1> QED
  BY <1>2, <1>3, <1>5, <1>6, <1>7, <1>8 DEF Abstract!Consume, Input, Output

(* The destructor leaves the readable bytes, and drops what was prepared.  *)
LEMMA DestroyStep ==
  ASSUME Inv, Inv', alive, Destroy
  PROVE  Abstract!Consume(0) /\ 0 \in 0..SizeMax
<1>1. View
  BY InvView
<1>2. /\ in_size_ \in Nat /\ str \in Seq(Byte) /\ Len(str) \in Nat
      /\ in_size_ <= Len(str)
  BY Bounds
<1>3. /\ str' = Resized(str, in_size_) /\ ~alive' /\ held' = NoRegion
      /\ max_size_' = max_size_ /\ outcome' = "returned"
  BY DEF Destroy
<1>4. /\ Input \in Seq(Byte) /\ Len(Input) = in_size_
      /\ \A i \in 1..in_size_ : Input[i] = str[i]
  BY <1>1 DEF View
<1>5. Input' = Input
  <2>1. /\ Input' = Resized(str, in_size_)
    BY <1>3 DEF Input
  <2>2. Resized(str, in_size_) \in Seq(Byte) /\ Len(Resized(str, in_size_)) = in_size_
    BY <1>2, ResizedString
  <2>3. \A i \in 1..in_size_ : Resized(str, in_size_)[i] = str[i]
    BY <1>2 DEF Resized
  <2> HIDE DEF Input
  <2>4. \A i \in 1..Len(Input) : Input'[i] = Input[i]
    BY <1>4, <2>1, <2>3
  <2> QED
    BY <1>4, <2>1, <2>2, <2>4, SeqEqual
<1>6. SubSeq(Input, 0 + 1, Len(Input)) = Input /\ Abstract!Least(0, Len(Input)) = 0
  <2> HIDE DEF Input
  <2>1. 0 \in 0..Len(Input) /\ Len(Input) = Len(Input) - 0
        /\ \A i \in 1..Len(Input) : Input[i] = Input[i + 0]
    BY <1>2, <1>4
  <2>2. Input = SubSeq(Input, 0 + 1, Len(Input))
    BY <1>4, <2>1, PrefixDropped
  <2>3. Abstract!Least(0, Len(Input)) = 0
    BY <1>2, <1>4 DEF Abstract!Least
  <2> QED
    BY <2>2, <2>3
<1>7. Output' = <<>> /\ 0 \in 0..SizeMax
  BY <1>3, NothingHeld, StringAssumption
<1> QED
  BY <1>3, <1>5, <1>6, <1>7 DEF Abstract!Consume, Input, Output

LEMMA RefinesInit == Init => Abstract!Init
<1> SUFFICES ASSUME Init PROVE Abstract!Init
  OBVIOUS
<1>1. Inv /\ View
  BY InitInv, InvView
<1>2. /\ Input \in Seq(Byte) /\ Len(Input) = in_size_
      /\ in_size_ <= max_size_ /\ max_size_ \in Nat
  BY <1>1, Bounds DEF Init, View
<1>3. Output = <<>>
  <2>1. held = Region(0, 0)
    BY DEF Init, NoRegion
  <2> QED
    BY <2>1 DEF Output, RegionBytes, Region
<1> QED
  BY <1>2, <1>3 DEF Init, Abstract!Init, Input, Output

LEMMA RefinesEachCall == Inv /\ Inv' /\ alive => EachCall
<1> SUFFICES ASSUME Inv, Inv', alive PROVE EachCall
  OBVIOUS
<1>1. ASSUME NEW n \in 0..SizeMax
      PROVE  /\ Prepare(n) => Abstract!Prepare(n)
             /\ PrepareThrows(n) => Abstract!PrepareThrows(n)
             /\ PrepareRunsOut(n) => Abstract!PrepareRunsOut(n)
             /\ Commit(n) => Abstract!Commit(n)
             /\ Consume(n) => Abstract!Consume(n)
  BY PrepareStep, RefusalSteps, CommitStep, ConsumeStep
<1>2. ASSUME NEW j \in 1..held.len, NEW b \in Byte
      PROVE  Fill(j, b) => Abstract!Fill(j, b)
  BY FillStep
<1> QED
  BY <1>1, <1>2 DEF EachCall

LEMMA RefinesNext ==
  Inv /\ Inv' /\ [Next]_vars => [Abstract!Next]_(Abstract!vars) /\ [EachCall]_vars
<1> SUFFICES ASSUME Inv, Inv', [Next]_vars
             PROVE  /\ Abstract!Next \/ UNCHANGED Abstract!vars
                    /\ EachCall \/ UNCHANGED vars
  OBVIOUS
<1>1. CASE UNCHANGED vars
  BY <1>1 DEF vars, Abstract!vars, RegionBytes, data, Region
<1>2. CASE Next
  <2>1. EachCall
    BY <1>2, RefinesEachCall DEF Next
  <2>2. ASSUME NEW n \in 0..SizeMax,
               \/ Prepare(n) \/ PrepareThrows(n) \/ PrepareRunsOut(n)
               \/ Commit(n) \/ Consume(n)
        PROVE  Abstract!Next
    BY <2>1, <2>2 DEF EachCall, Abstract!Next
  <2>3. ASSUME NEW j \in 1..held.len, NEW b \in Byte, Fill(j, b)
        PROVE  Abstract!Next
    <3>1. Abstract!Fill(j, b)
      BY <2>1, <2>3 DEF EachCall
    <3>2. j \in 1..Len(Output)
      BY <3>1 DEF Abstract!Fill, Output
    <3> QED
      BY <3>1, <3>2 DEF Abstract!Next, Output
  <2>4. ASSUME Move PROVE Abstract!Next
    <3>1. Abstract!Consume(in_size_) /\ in_size_ \in 0..SizeMax
      BY <1>2, <2>4, MoveStep DEF Next
    <3> QED
      BY <3>1 DEF Abstract!Next
  <2>5. ASSUME Destroy PROVE Abstract!Next
    <3>1. Abstract!Consume(0) /\ 0 \in 0..SizeMax
      BY <1>2, <2>5, DestroyStep DEF Next
    <3> QED
      BY <3>1 DEF Abstract!Next
  <2> QED
    BY <1>2, <2>1, <2>2, <2>3, <2>4, <2>5 DEF Next
<1> QED
  BY <1>1, <1>2

(* string_buffer is a DynamicBuffer whose output sequence consume()        *)
(* discards and whose prepare() may run out of memory; each of its calls   *)
(* is the abstract call with the same argument, to be moved is to be       *)
(* consumed whole, and the string it leaves behind has exactly the         *)
(* readable bytes (string_buffer.hpp:45-146): for every limit.             *)
THEOREM StringBufferIsDynamicBuffer == Spec => ImplementsDynamicBuffer
<1>1. Init => Abstract!Init
  BY RefinesInit
<1>2. Inv /\ Inv' /\ [Next]_vars => [Abstract!Next]_(Abstract!vars) /\ [EachCall]_vars
  BY RefinesNext
<1> QED
  BY <1>1, <1>2, AlwaysInv, PTL
  DEF Spec, ImplementsDynamicBuffer, Abstract!Spec

-----------------------------------------------------------------------------
(* The type-erased string_buffer.  Every step of the wrapper is a step of  *)
(* the string_buffer in it, so that what was shown above holds of it.      *)

LEMMA AnyNextIsNext == [AnyNext]_anyVars => [Next]_vars
<1> SUFFICES ASSUME AnyNext PROVE Next
  BY DEF anyVars, vars
<1>1. alive
  BY DEF AnyNext
<1>2. CASE Bare
  BY <1>2 DEF Bare
<1>3. CASE Wrap
  BY <1>1, <1>3 DEF Wrap, Next
<1>4. CASE AnyCall
  <2>1. ASSUME NEW n \in 0..SizeMax,
               \/ AnyPrepare(n) \/ AnyPrepareThrows(n)
               \/ AnyCommit(n) \/ AnyConsume(n)
        PROVE  Next
    BY <1>1, <2>1 DEF AnyPrepare, AnyPrepareThrows, AnyCommit, AnyConsume, Next
  <2>2. ASSUME NEW i \in 1..held.len, NEW b \in Byte, AnyFill(i, b)
        PROVE  Next
    BY <1>1, <2>2 DEF AnyFill, Next
  <2>3. CASE AnyMove
    BY <1>1, <2>3 DEF AnyMove, Next
  <2>4. CASE AnyDestroy
    BY <1>1, <2>4 DEF AnyDestroy, Next
  <2> QED
    BY <1>4, <2>1, <2>2, <2>3, <2>4 DEF AnyCall
<1> QED
  BY <1>2, <1>3, <1>4 DEF AnyNext

(* What the wrapper's copies are copies of: out_ of the output sequence,   *)
(* data_ of the readable bytes, in whatever allocation they were then.     *)
CopiesInv ==
  /\ wrapped \in BOOLEAN /\ moved \in BOOLEAN
  /\ ~wrapped => data_ = <<>>
  /\ wrapped /\ held.len > 0 => out_ = Copied(held)
  /\ data_ # <<>> => \E l, a \in Nat :
       /\ data_ = <<[pos |-> 0, len |-> l, allocation |-> a]>>
       /\ ~moved => l = in_size_

LEMMA AnyInitCopiesInv == AnyInit => CopiesInv
BY DEF AnyInit, CopiesInv

LEMMA AnyNextCopiesInv ==
  Inv /\ Inv' /\ CopiesInv /\ [AnyNext]_anyVars => CopiesInv'
<1> SUFFICES ASSUME Inv, Inv', CopiesInv, [AnyNext]_anyVars PROVE CopiesInv'
  OBVIOUS
<1>1. in_size_' \in Nat /\ strcap' \in Nat
  BY StringAssumption DEF Inv, TypeOK
<1>2. CASE Bare
  BY <1>2 DEF Bare, CopiesInv
<1>3. CASE Wrap
  <2>1. ~(held'.len > 0)
    BY <1>3 DEF Wrap, Move, NoRegion, Region
  <2> QED
    BY <1>3, <2>1 DEF Wrap, CopiesInv
<1>4. ASSUME NEW n \in 0..SizeMax, wrapped, AnyPrepare(n)
      PROVE  CopiesInv'
  BY <1>4 DEF AnyPrepare, Prepare, CopiesInv, Copied
<1>5. ASSUME NEW n \in 0..SizeMax, wrapped, AnyPrepareThrows(n)
      PROVE  CopiesInv'
  BY <1>5 DEF AnyPrepareThrows, PrepareThrows, PrepareRunsOut, CopiesInv, Copied
<1>6. ASSUME NEW n \in 0..SizeMax, wrapped, AnyCommit(n) \/ AnyConsume(n)
      PROVE  CopiesInv'
  <2>1. held' = NoRegion
    BY <1>6 DEF AnyCommit, AnyConsume, Commit, Consume, ConsumeSome, ConsumeAll
  <2>2. /\ data_' = <<[pos |-> 0, len |-> in_size_', allocation |-> strcap']>>
        /\ wrapped' = wrapped /\ moved' = FALSE
    BY <1>6 DEF AnyCommit, AnyConsume, Copied, data, Region
  <2>3. ~(held'.len > 0)
    BY <2>1 DEF NoRegion, Region
  <2> QED
    BY <1>1, <1>6, <2>2, <2>3 DEF CopiesInv
<1>7. ASSUME NEW i \in 1..held.len, NEW b \in Byte, AnyFill(i, b)
      PROVE  CopiesInv'
  BY <1>7 DEF AnyFill, Fill, CopiesInv, Copied
<1>8. ASSUME wrapped, AnyMove \/ AnyDestroy
      PROVE  CopiesInv'
  <2>1. held' = NoRegion
    BY <1>8 DEF AnyMove, AnyDestroy, Move, Destroy
  <2>2. ~(held'.len > 0)
    BY <2>1 DEF NoRegion, Region
  <2> QED
    BY <1>8, <2>2 DEF AnyMove, AnyDestroy, CopiesInv
<1>9. CASE UNCHANGED anyVars
  BY <1>9 DEF anyVars, vars, CopiesInv, Copied
<1> QED
  BY <1>2, <1>3, <1>4, <1>5, <1>6, <1>7, <1>8, <1>9 DEF AnyNext, AnyCall

LEMMA AlwaysCopiesInv == AnySpec => [](Inv /\ CopiesInv)
<1>1. AnyInit => Inv /\ CopiesInv
  BY InitInv, AnyInitCopiesInv DEF AnyInit
<1>2. Inv /\ CopiesInv /\ [AnyNext]_anyVars => (Inv /\ CopiesInv)'
  BY AnyNextIsNext, NextInv, AnyNextCopiesInv
<1> QED
  BY <1>1, <1>2, PTL DEF AnySpec

(* The span that prepare() of the wrapper returned is the output sequence, *)
(* in the string's current allocation, until the caller may not use it any *)
(* more (dynamic_buffer.hpp:160); data() has the right size at least.      *)
THEOREM AlwaysOutIsLive == AnySpec => []OutIsLive
<1>1. Inv /\ CopiesInv => OutIsLive
  BY DEF CopiesInv, OutIsLive, IsLive, Copied
<1> QED
  BY <1>1, AlwaysCopiesInv, PTL

-----------------------------------------------------------------------------
(* A careful caller of the wrapper sees what a caller of the string_buffer *)
(* sees, so that the steps above are the steps of the wrapper too.         *)

AnyInput == IF alive THEN SeenInput ELSE str

LEMMA SeenIsInput == Inv /\ CopiesInv => AnyInput = Input /\ SeenOutput = Output
<1> SUFFICES ASSUME Inv, CopiesInv
             PROVE  AnyInput = Input /\ SeenOutput = Output
  OBVIOUS
<1>1. data_ # <<>> /\ ~moved => RegionBytes(data_[1]) = RegionBytes(data)
  BY DEF CopiesInv, RegionBytes, data, Region
<1>2. SeenInput = RegionBytes(data)
  BY <1>1 DEF SeenInput
<1>3. CASE held.len = 0
  <2>1. Output = <<>>
    <3>1. Output \in Seq(Byte) /\ Len(Output) = 0
      BY <1>3, InvView DEF View
    <3> HIDE DEF Output
    <3> QED
      BY <3>1, EmptySeq
  <2> QED
    BY <1>2, <1>3, <2>1 DEF AnyInput, Input, SeenOutput
<1>4. CASE held.len # 0
  <2>1. held.len > 0
    BY <1>4, Bounds
  <2>2. ASSUME wrapped PROVE RegionBytes(out_[1]) = RegionBytes(held)
    <3>1. out_ = Copied(held)
      BY <2>1, <2>2 DEF CopiesInv
    <3>2. out_[1].pos = held.pos /\ out_[1].len = held.len
      BY <3>1 DEF Copied
    <3> QED
      BY <3>2 DEF RegionBytes
  <2> QED
    BY <1>2, <1>4, <2>2 DEF AnyInput, Input, SeenOutput, Output
<1> QED
  BY <1>3, <1>4

LEMMA SeenIsInputNext ==
  (Inv /\ CopiesInv)' => AnyInput' = Input' /\ SeenOutput' = Output'
<1>1. (AnyInput = Input /\ SeenOutput = Output)' =>
        AnyInput' = Input' /\ SeenOutput' = Output'
  OBVIOUS
<1> QED
  BY <1>1, SeenIsInput, PTL

LEMMA AnyRefinesInit == AnyInit => AnyAbstract!Init
<1> SUFFICES ASSUME AnyInit PROVE AnyAbstract!Init
  OBVIOUS
<1>1. AnyInput = Input /\ SeenOutput = Output
  BY InitInv, AnyInitCopiesInv, SeenIsInput DEF AnyInit
<1>2. Abstract!Init
  BY RefinesInit DEF AnyInit
<1> QED
  BY <1>1, <1>2 DEF AnyAbstract!Init, Abstract!Init, AnyInput, Input, Output

(* Where the two mappings agree, before and after, the two abstract        *)
(* buffers take the same steps.                                            *)
LEMMA SameSteps ==
  ASSUME AnyInput = Input, SeenOutput = Output,
         AnyInput' = Input', SeenOutput' = Output'
  PROVE  /\ \A n \in 0..SizeMax :
              /\ Abstract!Prepare(n) => AnyAbstract!Prepare(n)
              /\ Abstract!PrepareThrows(n) => AnyAbstract!PrepareThrows(n)
              /\ Abstract!PrepareRunsOut(n) => AnyAbstract!PrepareRunsOut(n)
              /\ Abstract!Commit(n) => AnyAbstract!Commit(n)
              /\ Abstract!Consume(n) => AnyAbstract!Consume(n)
         /\ \A i \in 1..held.len, b \in Byte :
              Abstract!Fill(i, b) => AnyAbstract!Fill(i, b)
         /\ Abstract!Next => AnyAbstract!Next
         /\ UNCHANGED Abstract!vars => UNCHANGED AnyAbstract!vars
<1>1. ASSUME NEW n \in 0..SizeMax
      PROVE  /\ Abstract!Prepare(n) => AnyAbstract!Prepare(n)
             /\ Abstract!PrepareThrows(n) => AnyAbstract!PrepareThrows(n)
             /\ Abstract!PrepareRunsOut(n) => AnyAbstract!PrepareRunsOut(n)
             /\ Abstract!Commit(n) => AnyAbstract!Commit(n)
             /\ Abstract!Consume(n) => AnyAbstract!Consume(n)
  <2>1. Abstract!Prepare(n) => AnyAbstract!Prepare(n)
    BY DEF AnyInput, Input, Output, Abstract!Prepare, AnyAbstract!Prepare
  <2>2. Abstract!PrepareThrows(n) => AnyAbstract!PrepareThrows(n)
    BY DEF AnyInput, Input, Output, Abstract!PrepareThrows, AnyAbstract!PrepareThrows
  <2>3. Abstract!PrepareRunsOut(n) => AnyAbstract!PrepareRunsOut(n)
    BY DEF AnyInput, Input, Output, Abstract!PrepareRunsOut, AnyAbstract!PrepareRunsOut
  <2>4. Abstract!Commit(n) => AnyAbstract!Commit(n)
    BY DEF AnyInput, Input, Output, Abstract!Commit, AnyAbstract!Commit,
           Abstract!Least, AnyAbstract!Least
  <2>5. Abstract!Consume(n) => AnyAbstract!Consume(n)
    BY DEF AnyInput, Input, Output, Abstract!Consume, AnyAbstract!Consume,
           Abstract!Least, AnyAbstract!Least
  <2> QED
    BY <2>1, <2>2, <2>3, <2>4, <2>5
<1>2. ASSUME NEW i, NEW b
      PROVE  Abstract!Fill(i, b) => AnyAbstract!Fill(i, b)
  BY DEF AnyInput, Input, Output, Abstract!Fill, AnyAbstract!Fill
<1>3. Abstract!Next => AnyAbstract!Next
  <2>1. Len(Output) = Len(SeenOutput)
    OBVIOUS
  <2>2. ~Abstract!FillLate
    BY DEF Abstract!FillLate
  <2> QED
    BY <1>1, <1>2, <2>1, <2>2 DEF Abstract!Next, AnyAbstract!Next, Output
<1>4. UNCHANGED Abstract!vars => UNCHANGED AnyAbstract!vars
  BY DEF AnyInput, Input, Output, Abstract!vars, AnyAbstract!vars
<1> QED
  BY <1>1, <1>2, <1>3, <1>4

LEMMA AnyRefinesNext ==
  /\ Inv /\ CopiesInv /\ (Inv /\ CopiesInv)'
  /\ [AnyNext]_anyVars
  => [AnyAbstract!Next]_(AnyAbstract!vars) /\ [AnyEachCall]_anyVars
<1> SUFFICES ASSUME Inv, CopiesInv, (Inv /\ CopiesInv)', [AnyNext]_anyVars
             PROVE  /\ AnyAbstract!Next \/ UNCHANGED AnyAbstract!vars
                    /\ AnyEachCall \/ UNCHANGED anyVars
  OBVIOUS
<1>1. /\ AnyInput = Input /\ SeenOutput = Output
      /\ AnyInput' = Input' /\ SeenOutput' = Output'
  BY SeenIsInput, SeenIsInputNext
<1>2. [Abstract!Next]_(Abstract!vars)
  BY AnyNextIsNext, RefinesNext
<1>3. AnyAbstract!Next \/ UNCHANGED AnyAbstract!vars
  BY <1>1, <1>2, SameSteps
<1>4. CASE AnyNext
  <2>1. EachCall
    BY <1>4, RefinesEachCall DEF AnyNext
  <2>2. ASSUME NEW n \in 0..SizeMax
        PROVE  /\ AnyPrepare(n) => AnyAbstract!Prepare(n)
               /\ AnyPrepareThrows(n) =>
                    AnyAbstract!PrepareThrows(n) \/ AnyAbstract!PrepareRunsOut(n)
               /\ AnyCommit(n) => AnyAbstract!Commit(n)
               /\ AnyConsume(n) => AnyAbstract!Consume(n)
    BY <1>1, <2>1, SameSteps
    DEF EachCall, AnyPrepare, AnyPrepareThrows, AnyCommit, AnyConsume
  <2>3. ASSUME NEW i \in 1..held.len, NEW b \in Byte, AnyFill(i, b)
        PROVE  AnyAbstract!Fill(i, b)
    BY <1>1, <2>1, <2>3, SameSteps DEF EachCall, AnyFill
  <2>4. AnyEachCall
    BY <2>2, <2>3 DEF AnyEachCall
  <2> QED
    BY <1>3, <2>4
<1> QED
  BY <1>3, <1>4

(* The type-erased view of a string_buffer is a DynamicBuffer for a caller *)
(* that looks at data() only where it is current, and each call of the     *)
(* wrapper is the abstract call with the same argument                     *)
(* (dynamic_buffer.hpp:146-181): for every limit, moves included.          *)
THEOREM AnyStringBufferIsDynamicBuffer == AnySpec => AnyImplementsDynamicBuffer
<1>1. AnyInit => AnyAbstract!Init
  BY AnyRefinesInit
<1>2. /\ Inv /\ CopiesInv /\ (Inv /\ CopiesInv)'
      /\ [AnyNext]_anyVars
      => [AnyAbstract!Next]_(AnyAbstract!vars) /\ [AnyEachCall]_anyVars
  BY AnyRefinesNext
<1> QED
  BY <1>1, <1>2, AlwaysCopiesInv, PTL
  DEF AnySpec, AnyImplementsDynamicBuffer, AnyAbstract!Spec
=============================================================================
