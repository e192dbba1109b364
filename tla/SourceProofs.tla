---------------------------- MODULE SourceProofs ----------------------------
(***************************************************************************)
(* What AnySource and AnyReadSource promise, for any number of handles and *)
(* sources, every size of the array of buffers and every destination.      *)
(*                                                                         *)
(* The position of a source and what its callers were told differ only     *)
(* while a read() runs, and then by its result: EachByteOnce.  To see that *)
(* a step keeps this one must know that no batch leaves a gap, BatchesMeet.*)
(***************************************************************************)
EXTENDS AnySource, AnyReadSource, SequenceLemmas

Kind == {"data", "read", "destroyed"}

SourceRecord ==
  [kind : Kind, length : 0..MaxTotal, pos : 0..MaxTotal, told : 0..MaxTotal]

LEMMA CutsFit ==
  ASSUME NEW k \in Nat, NEW c \in Cuts(k, MaxTotal)
  PROVE  /\ c[0] = 0
         /\ \A i \in 0..k : c[i] \in Nat /\ c[i] <= c[k]
         /\ \A i, j \in 0..k : i <= j => c[i] <= c[j]
<1>1. MaxTotal \in Nat
  BY BatchAssumption
<1> QED
  BY <1>1, CutsAscend

LEMMA EmptyCut == [i \in 0..0 |-> 0] \in Cuts(0, MaxTotal)
BY BatchAssumption DEF Cuts

LEMMA SourceTypes ==
  Inv => /\ src \in [Source -> SourceRecord]
         /\ \A s \in Source :
              /\ src[s].kind \in Kind
              /\ src[s].length \in Nat /\ src[s].pos \in Nat /\ src[s].told \in Nat
              /\ src[s].pos <= src[s].length /\ src[s].told <= src[s].length
              /\ src[s].length \in 0..MaxTotal
BY BatchAssumption DEF Inv, TypeOK, SourceRecord, Kind

LEMMA NewSourceType ==
  ASSUME NEW k \in Kind, NEW t \in 0..MaxTotal
  PROVE  /\ NewSource(k, t) \in SourceRecord
         /\ NewSource(k, t).kind = k /\ NewSource(k, t).length = t
         /\ NewSource(k, t).pos = 0 /\ NewSource(k, t).told = 0
BY BatchAssumption DEF NewSource, SourceRecord

LEMMA DestroyedType ==
  /\ Destroyed \in SourceRecord
  /\ Destroyed.kind = "destroyed" /\ Destroyed.length = 0
  /\ Destroyed.pos = 0 /\ Destroyed.told = 0
BY BatchAssumption DEF Destroyed, NewSource, SourceRecord, Kind

(* A source of which only the position changes, and what was told of it.   *)
Moved(f, s, p, t) == [f EXCEPT ![s].pos = p, ![s].told = t]

LEMMA SourceMoved ==
  ASSUME NEW f \in [Source -> SourceRecord], NEW s \in Source,
         NEW p \in 0..MaxTotal, NEW t \in 0..MaxTotal,
         NEW g, g = Moved(f, s, p, t)
  PROVE  /\ g[s].pos = p /\ g[s].told = t
         /\ g[s].length = f[s].length /\ g[s].kind = f[s].kind
         /\ \A r \in Source \ {s} : g[r] = f[r]
         /\ g \in [Source -> SourceRecord]
<1>1. f[s] \in SourceRecord
  OBVIOUS
<1>2. g[s] = [f[s] EXCEPT !.pos = p, !.told = t]
  BY DEF Moved
<1>3. /\ g[s].pos = p /\ g[s].told = t /\ g[s] \in SourceRecord
      /\ g[s].length = f[s].length /\ g[s].kind = f[s].kind
  BY <1>1, <1>2 DEF SourceRecord
<1>4. \A r \in Source \ {s} : g[r] = f[r]
  BY DEF Moved
<1>5. DOMAIN g = Source /\ g = [r \in Source |-> g[r]]
  BY DEF Moved
<1>6. \A r \in Source : g[r] \in SourceRecord
  BY <1>3, <1>4
<1> QED
  BY <1>3, <1>4, <1>5, <1>6

(* Where the batch ends, and what it has room for.                         *)
LEMMA BatchInside ==
  ASSUME k1 \in Nat, it \in 0..k1, it # k1, cut1 \in Cuts(k1, MaxTotal)
  PROVE  /\ it \in 0..k1 /\ BatchEnd \in 0..k1 /\ it < BatchEnd
         /\ cut1[it] \in Nat /\ cut1[BatchEnd] \in Nat /\ cut1[k1] \in Nat
         /\ cut1[it] <= cut1[BatchEnd] /\ cut1[BatchEnd] <= cut1[k1]
         /\ Room \in Nat /\ cut1[it] + Room = cut1[BatchEnd]
<1>1. BatchEnd \in 0..k1 /\ it < BatchEnd
  BY BatchAssumption DEF BatchEnd, Least
<1> HIDE DEF BatchEnd
<1>2. /\ cut1[it] \in Nat /\ cut1[BatchEnd] \in Nat /\ cut1[k1] \in Nat
      /\ cut1[it] <= cut1[BatchEnd] /\ cut1[BatchEnd] <= cut1[k1]
  <2>1. it <= BatchEnd /\ BatchEnd <= k1 /\ k1 \in 0..k1
    BY <1>1
  <2> QED
    BY <1>1, <2>1, CutsFit
<1> QED
  BY <1>1, <1>2 DEF Room

LEMMA BatchFits ==
  ASSUME Inv, pc = "reading"
  PROVE  /\ it \in 0..k1 /\ BatchEnd \in 0..k1 /\ it < BatchEnd
         /\ cut1[it] \in Nat /\ cut1[BatchEnd] \in Nat /\ cut1[k1] \in Nat
         /\ cut1[it] <= cut1[BatchEnd] /\ cut1[BatchEnd] <= cut1[k1]
         /\ Room \in Nat /\ cut1[it] + Room = cut1[BatchEnd]
<1>1. k1 \in Nat /\ it \in 0..k1 /\ it # k1 /\ cut1 \in Cuts(k1, MaxTotal)
  BY BatchAssumption DEF Inv, TypeOK, BatchesMeet
<1> QED
  BY <1>1, BatchInside

-----------------------------------------------------------------------------
(* When no read() is running.                                              *)

(* What the operations on handles have to keep.                            *)
Shared(hs, ss) ==
  /\ hs \in [Handle -> Source \cup {Empty}]
  /\ ss \in [Source -> SourceRecord]
  /\ \A s \in Source :
       /\ ss[s].pos <= ss[s].length /\ ss[s].told <= ss[s].length
       /\ ss[s].pos = ss[s].told
       /\ ss[s].kind # "destroyed" <=> \E x \in Handle : hs[x] = s

(* After a call whose record is not kept.                                  *)
LEMMA IdleInv ==
  ASSUME Inv, NoCall, Shared(handle', src')
  PROVE  Inv' /\ DeliversInOrder'
<1>1. /\ h' = h /\ k1' = 0 /\ cut1' = [i \in 0..0 |-> 0]
      /\ it' = 0 /\ result' = 0 /\ first' = 0
      /\ written' = [p \in {} |-> Untouched]
      /\ ec' = "ok" /\ pc' = "idle"
  BY DEF NoCall
<1>2. cut1' \in Cuts(k1', MaxTotal) /\ cut1'[k1'] = 0
  BY <1>1, EmptyCut
<1>3. DOMAIN written' = 0..cut1'[k1'] - 1
  BY <1>1, <1>2
<1>4. k1' \in 0..MaxBuffers /\ it' \in 0..k1' /\ result' \in 0..cut1'[k1']
      /\ first' \in Nat
  BY <1>1, <1>2, BatchAssumption
<1>5. TypeOK'
  BY <1>1, <1>2, <1>3, <1>4 DEF Inv, TypeOK, Shared, SourceRecord, Kind, Error
<1>6. EachByteOnce'
  <2> SUFFICES ASSUME NEW s \in Source PROVE src'[s].pos = src'[s].told + 0
    BY <1>1 DEF EachByteOnce
  <2>1. src'[s].pos = src'[s].told /\ src'[s].told \in 0..MaxTotal
    BY DEF Shared, SourceRecord
  <2> QED
    BY <2>1, BatchAssumption
<1>7. BatchesMeet' /\ DeliversInOrder'
  BY <1>1 DEF BatchesMeet, DeliversInOrder
<1> QED
  BY <1>5, <1>6, <1>7 DEF Inv

(* Sources that lose their last handle are destroyed, the others stay.     *)
LEMMA ShareShared ==
  ASSUME NEW hs \in [Handle -> Source \cup {Empty}],
         NEW ss \in [Source -> SourceRecord],
         \A s \in Source :
           /\ ss[s].pos <= ss[s].length /\ ss[s].told <= ss[s].length
           /\ ss[s].pos = ss[s].told
           /\ (\E x \in Handle : hs[x] = s) => ss[s].kind # "destroyed",
         Share(hs, ss)
  PROVE  Shared(handle', src')
<1>1. /\ handle' = hs
      /\ src' = [s \in Source |->
                   IF \E x \in Handle : hs[x] = s THEN ss[s] ELSE Destroyed]
  BY DEF Share
<1>2. src' \in [Source -> SourceRecord]
  BY <1>1, DestroyedType
<1>3. ASSUME NEW s \in Source
      PROVE  /\ src'[s].pos <= src'[s].length /\ src'[s].told <= src'[s].length
             /\ src'[s].pos = src'[s].told
             /\ src'[s].kind # "destroyed" <=> \E x \in Handle : handle'[x] = s
  <2>1. CASE \E x \in Handle : hs[x] = s
    BY <1>1, <2>1
  <2>2. CASE ~ \E x \in Handle : hs[x] = s
    <3>1. src'[s] = Destroyed
      BY <1>1, <2>2
    <3> QED
      BY <1>1, <2>2, <3>1, DestroyedType
  <2> QED
    BY <2>1, <2>2
<1> QED
  BY <1>1, <1>2, <1>3 DEF Shared

(* While no read() runs, sources are where their callers know.             *)
LEMMA IdleShared ==
  ASSUME Inv, pc = "idle"
  PROVE  Shared(handle, src)
<1>1. ASSUME NEW s \in Source PROVE src[s].pos = src[s].told
  BY <1>1, SourceTypes DEF Inv, EachByteOnce
<1> QED
  BY <1>1, SourceTypes DEF Inv, TypeOK, Shared

LEMMA HandleCallsKeepInv ==
  ASSUME Inv, pc = "idle", NEW x \in Handle,
         \/ \E s \in Source, k \in {"data", "read"}, t \in 0..MaxTotal :
              Construct(x, s, k, t)
         \/ \E y \in Handle : CopyAssign(x, y) \/ MoveAssign(x, y)
         \/ Rewind(x)
  PROVE  Inv' /\ DeliversInOrder'
<1>1. Shared(handle, src)
  BY IdleShared
<1>2. ASSUME NEW s \in Source, NEW k \in {"data", "read"}, NEW t \in 0..MaxTotal,
             Construct(x, s, k, t)
      PROVE  Inv' /\ DeliversInOrder'
  <2> DEFINE hs == [handle EXCEPT ![x] = s]
             ss == [src EXCEPT ![s] = NewSource(k, t)]
  <2>1. hs \in [Handle -> Source \cup {Empty}]
    BY <1>1 DEF Shared
  <2>2. ss \in [Source -> SourceRecord] /\ k \in Kind
    BY <1>1, NewSourceType DEF Shared, Kind
  <2>3. ASSUME NEW r \in Source
        PROVE  /\ ss[r].pos <= ss[r].length /\ ss[r].told <= ss[r].length
               /\ ss[r].pos = ss[r].told
               /\ (\E y \in Handle : hs[y] = r) => ss[r].kind # "destroyed"
    <3>1. CASE r = s
      <4>1. ss[r] = NewSource(k, t)
        BY <1>1, <3>1 DEF Shared
      <4>2. t \in Nat
        BY BatchAssumption
      <4> QED
        BY <2>2, <4>1, <4>2, NewSourceType
    <3>2. CASE r # s
      <4>1. ss[r] = src[r]
        BY <1>1, <3>2 DEF Shared
      <4>2. ASSUME NEW y \in Handle, hs[y] = r PROVE handle[y] = r
        BY <1>1, <3>2, <4>2 DEF Shared
      <4> QED
        BY <1>1, <4>1, <4>2 DEF Shared
    <3> QED
      BY <3>1, <3>2
  <2>4. Share(hs, ss) /\ NoCall
    BY <1>2 DEF Construct
  <2> HIDE DEF hs, ss
  <2>5. Shared(handle', src')
    BY <2>1, <2>2, <2>3, <2>4, ShareShared
  <2> QED
    BY <2>4, <2>5, IdleInv
<1>3. ASSUME NEW hs \in [Handle -> Source \cup {Empty}], Share(hs, src), NoCall,
             \A y \in Handle : hs[y] = Empty \/ \E z \in Handle : hs[y] = handle[z]
      PROVE  Inv' /\ DeliversInOrder'
  <2>1. src \in [Source -> SourceRecord]
    BY <1>1 DEF Shared
  <2>2. ASSUME NEW r \in Source
        PROVE  /\ src[r].pos <= src[r].length /\ src[r].told <= src[r].length
               /\ src[r].pos = src[r].told
               /\ (\E y \in Handle : hs[y] = r) => src[r].kind # "destroyed"
    BY <1>1, <1>3, AnySourceAssumption DEF Shared
  <2>3. Shared(handle', src')
    BY <1>3, <2>1, <2>2, ShareShared
  <2> QED
    BY <1>3, <2>3, IdleInv
<1>4. ASSUME NEW y \in Handle, CopyAssign(x, y)
      PROVE  Inv' /\ DeliversInOrder'
  <2> DEFINE hs == [handle EXCEPT ![x] = handle[y]]
  <2>1. hs \in [Handle -> Source \cup {Empty}]
    BY <1>1 DEF Shared
  <2>2. \A w \in Handle : hs[w] = Empty \/ \E z \in Handle : hs[w] = handle[z]
    BY <1>1 DEF Shared
  <2>3. Share(hs, src) /\ NoCall
    BY <1>4 DEF CopyAssign
  <2> HIDE DEF hs
  <2> QED
    BY <1>3, <2>1, <2>2, <2>3
<1>5. ASSUME NEW y \in Handle, MoveAssign(x, y)
      PROVE  Inv' /\ DeliversInOrder'
  <2> DEFINE hs == [[handle EXCEPT ![x] = handle[y]] EXCEPT ![y] = Empty]
  <2>1. hs \in [Handle -> Source \cup {Empty}]
    BY <1>1 DEF Shared
  <2>2. \A w \in Handle : hs[w] = Empty \/ \E z \in Handle : hs[w] = handle[z]
    BY <1>1 DEF Shared
  <2>3. Share(hs, src) /\ NoCall
    BY <1>5 DEF MoveAssign
  <2> HIDE DEF hs
  <2> QED
    BY <1>3, <2>1, <2>2, <2>3
<1>6. ASSUME Rewind(x)
      PROVE  Inv' /\ DeliversInOrder'
  <2> DEFINE s == handle[x]
  <2>1. s \in Source
    BY <1>1, <1>6 DEF Rewind, Shared
  <2>2. src' = [src EXCEPT ![s].pos = 0, ![s].told = 0] /\ handle' = handle /\ NoCall
    BY <1>6 DEF Rewind
  <2> HIDE DEF s
  <2>3. /\ src'[s].pos = 0 /\ src'[s].told = 0
        /\ src'[s].length = src[s].length /\ src'[s].kind = src[s].kind
        /\ \A r \in Source \ {s} : src'[r] = src[r]
        /\ src' \in [Source -> SourceRecord]
    <3>1. 0 \in 0..MaxTotal /\ src \in [Source -> SourceRecord]
      BY <1>1, BatchAssumption DEF Shared
    <3>2. src' = Moved(src, s, 0, 0)
      BY <2>2 DEF Moved
    <3> QED
      BY <2>1, <3>1, <3>2, SourceMoved
  <2>4. src[s].length \in Nat
    BY <2>1, SourceTypes
  <2>5. Shared(handle', src')
    BY <1>1, <2>2, <2>3, <2>4 DEF Shared
  <2> QED
    BY <2>2, <2>5, IdleInv
<1> QED
  BY <1>2, <1>4, <1>5, <1>6

-----------------------------------------------------------------------------
(* read().                                                                 *)

LEMMA InitInv == Init => Inv /\ DeliversInOrder
<1> SUFFICES ASSUME Init PROVE Inv /\ DeliversInOrder
  OBVIOUS
<1>1. cut1 \in Cuts(k1, MaxTotal) /\ cut1[k1] = 0
  BY EmptyCut DEF Init
<1>2. src \in [Source -> SourceRecord] /\ \A s \in Source : src[s] = Destroyed
  BY DestroyedType DEF Init
<1>3. TypeOK
  <2>1. ASSUME NEW s \in Source
        PROVE  /\ src[s].pos <= src[s].length /\ src[s].told <= src[s].length
               /\ src[s].kind # "destroyed" <=> \E x \in Handle : handle[x] = s
    BY <1>2, DestroyedType, AnySourceAssumption, BatchAssumption DEF Init
  <2>2. /\ k1 \in 0..MaxBuffers /\ it \in 0..k1 /\ result \in 0..cut1[k1]
        /\ first \in Nat /\ DOMAIN written = 0..cut1[k1] - 1
    BY <1>1, BatchAssumption DEF Init
  <2> QED
    BY <1>1, <1>2, <2>1, <2>2 DEF Init, TypeOK, SourceRecord, Kind, Error
<1>4. EachByteOnce
  BY <1>2, DestroyedType DEF Init, EachByteOnce
<1>5. BatchesMeet /\ DeliversInOrder
  BY DEF Init, BatchesMeet, DeliversInOrder
<1> QED
  BY <1>3, <1>4, <1>5 DEF Inv

LEMMA ReadKeepsInv ==
  ASSUME Inv, NEW x \in Handle, NEW k \in 0..MaxBuffers,
         NEW cut \in Cuts(k, MaxTotal), Read(x, k, cut)
  PROVE  Inv' /\ DeliversInOrder'
<1>1. k \in Nat /\ cut[0] = 0 /\ cut[k] \in Nat
  <2>1. k \in Nat /\ 0 \in 0..k /\ k \in 0..k
    BY BatchAssumption
  <2> QED
    BY <2>1, CutsFit
<1>2. /\ pc = "idle" /\ h' = x /\ k1' = k /\ cut1' = cut /\ it' = 0 /\ result' = 0
      /\ first' = IF handle[x] = Empty THEN 0 ELSE src[handle[x]].told
      /\ written' = [p \in 0..cut[k] - 1 |-> Untouched]
      /\ pc' = IF k = 0 THEN "idle" ELSE "reading"
      /\ handle' = handle /\ src' = src /\ ec' = ec
  BY DEF Read
<1>3. TypeOK'
  <2>1. first' \in Nat
    BY <1>2, SourceTypes DEF Inv, TypeOK
  <2>2. it' \in 0..k1' /\ result' \in 0..cut1'[k1'] /\ pc' \in {"idle", "reading"}
        /\ DOMAIN written' = 0..cut1'[k1'] - 1
    BY <1>1, <1>2
  <2> QED
    BY <1>2, <2>1, <2>2 DEF Inv, TypeOK
<1>4. EachByteOnce'
  <2> SUFFICES ASSUME NEW s \in Source
               PROVE  src[s].pos = src[s].told +
                        (IF pc' = "reading" /\ handle[x] = s THEN 0 ELSE 0)
    BY <1>2 DEF EachByteOnce
  <2> QED
    BY <1>2 DEF Inv, EachByteOnce
<1>5. BatchesMeet' /\ DeliversInOrder'
  BY <1>1, <1>2 DEF BatchesMeet, DeliversInOrder
<1> QED
  BY <1>3, <1>4, <1>5 DEF Inv

LEMMA EmptyKeepsInv == Inv /\ DeliversInOrder /\ BatchFromEmpty => Inv' /\ DeliversInOrder'
<1> SUFFICES ASSUME Inv, DeliversInOrder, BatchFromEmpty PROVE Inv' /\ DeliversInOrder'
  OBVIOUS
<1>1. /\ pc = "reading" /\ handle[h] = Empty /\ ec' = "eof" /\ it' = BatchEnd
      /\ pc' = "idle" /\ handle' = handle /\ src' = src /\ h' = h /\ k1' = k1
      /\ cut1' = cut1 /\ result' = result /\ first' = first /\ written' = written
  BY DEF BatchFromEmpty
<1>2. BatchEnd \in 0..k1
  BY <1>1, BatchFits
<1>3. TypeOK'
  BY <1>1, <1>2 DEF Inv, TypeOK, Error
<1>4. EachByteOnce'
  <2> SUFFICES ASSUME NEW s \in Source PROVE src[s].pos = src[s].told + 0
    BY <1>1 DEF EachByteOnce
  <2>1. handle[h] # s
    BY <1>1, AnySourceAssumption
  <2> QED
    BY <2>1 DEF Inv, EachByteOnce
<1>5. BatchesMeet' /\ DeliversInOrder'
  BY <1>1 DEF BatchesMeet, DeliversInOrder
<1> QED
  BY <1>3, <1>4, <1>5 DEF Inv

(* What an iteration reads from a source.                                  *)
Batch(s, got, e) ==
  /\ IF src[s].kind = "data" THEN DataRead(s, got, e) ELSE SourceMayReturn(s, got, e)
  /\ written' = [p \in DOMAIN written |->
                   IF cut1[it] <= p /\ p < cut1[it] + got
                   THEN src[s].pos + (p - cut1[it]) ELSE written[p]]
  /\ src' = [src EXCEPT ![s].pos = @ + got,
                        ![s].told = IF Stops(e) THEN @ + (result + got) ELSE @]
  /\ result' = result + got
  /\ ec' = e
  /\ it' = BatchEnd
  /\ pc' = IF Stops(e) THEN "idle" ELSE "reading"

(* Whichever kind the source is: it fills the batch or sets ec, and a data *)
(* source sets it when and only when nothing is left.                      *)
LEMMA BatchAmount ==
  ASSUME Inv, pc = "reading", NEW s \in Source,
         NEW got \in 0..Room, NEW e \in Error, Batch(s, got, e)
  PROVE  /\ got \in Nat /\ got <= Room /\ src[s].pos + got <= src[s].length
         /\ e = "ok" => got = Room
         /\ src[s].kind = "data" => (e = "eof" <=> src[s].pos + got = src[s].length)
<1>1. Room \in Nat
  BY BatchFits
<1>2. src[s].length \in Nat /\ src[s].pos \in Nat /\ src[s].pos <= src[s].length
  BY SourceTypes
<1> HIDE DEF Room
<1>3. CASE src[s].kind = "data"
  <2>1. /\ got = Least(Room, src[s].length - src[s].pos)
        /\ e = IF src[s].pos + got >= src[s].length THEN "eof" ELSE "ok"
    BY <1>3 DEF Batch, DataRead
  <2> QED
    BY <1>1, <1>2, <2>1 DEF Least
<1>4. CASE src[s].kind # "data"
  BY <1>1, <1>2, <1>4 DEF Batch, SourceMayReturn
<1> QED
  BY <1>3, <1>4

LEMMA BatchKeepsInv ==
  ASSUME Inv, DeliversInOrder, pc = "reading", handle[h] # Empty,
         NEW got \in 0..Room, NEW e \in Error, Batch(handle[h], got, e),
         UNCHANGED <<handle, h, k1, cut1, first>>
  PROVE  Inv' /\ DeliversInOrder'
<1> DEFINE s == handle[h]
<1>1. s \in Source
  BY DEF Inv, TypeOK
<1>2. /\ written' = [p \in DOMAIN written |->
                       IF cut1[it] <= p /\ p < cut1[it] + got
                       THEN src[s].pos + (p - cut1[it]) ELSE written[p]]
      /\ src' = [src EXCEPT ![s].pos = @ + got,
                            ![s].told = IF Stops(e) THEN @ + (result + got) ELSE @]
      /\ result' = result + got /\ ec' = e /\ it' = BatchEnd
      /\ pc' = IF Stops(e) THEN "idle" ELSE "reading"
  BY DEF Batch
<1>3. /\ got \in Nat /\ got <= Room /\ src[s].pos + got <= src[s].length
      /\ e = "ok" => got = Room
  BY <1>1, BatchAmount
<1>4. /\ it \in 0..k1 /\ BatchEnd \in 0..k1
      /\ cut1[it] \in Nat /\ cut1[BatchEnd] \in Nat /\ cut1[k1] \in Nat
      /\ cut1[BatchEnd] <= cut1[k1]
      /\ Room \in Nat /\ cut1[it] + Room = cut1[BatchEnd]
  BY BatchFits
<1>5. /\ result = cut1[it] /\ first = src[s].told
      /\ src[s].pos = src[s].told + result
  BY <1>1 DEF Inv, BatchesMeet, EachByteOnce
<1>6. /\ src[s].length \in Nat /\ src[s].pos \in Nat /\ src[s].told \in Nat
      /\ src[s].length <= MaxTotal /\ MaxTotal \in Nat
      /\ src[s] \in SourceRecord
  BY <1>1, SourceTypes, BatchAssumption DEF SourceRecord
<1>7. /\ src \in [Source -> SourceRecord]
      /\ \A r \in Source :
           /\ src[r].pos <= src[r].length /\ src[r].told <= src[r].length
           /\ src[r].kind # "destroyed" <=> \E x \in Handle : handle[x] = r
  BY SourceTypes DEF Inv, TypeOK
<1> HIDE DEF s, Room, BatchEnd
<1> DEFINE t == IF Stops(e) THEN src[s].told + (result + got) ELSE src[s].told
<1>8. src[s].pos + got \in 0..MaxTotal /\ t \in 0..MaxTotal /\ t <= src[s].length
  BY <1>1, <1>3, <1>4, <1>5, <1>6, <1>7
<1>9. src' = Moved(src, s, src[s].pos + got, t)
  BY <1>2 DEF Moved
<1>10. /\ src'[s].pos = src[s].pos + got /\ src'[s].told = t
       /\ src'[s].length = src[s].length /\ src'[s].kind = src[s].kind
       /\ \A r \in Source \ {s} : src'[r] = src[r]
       /\ src' \in [Source -> SourceRecord]
  <2> HIDE DEF t
  <2> QED
    BY <1>1, <1>7, <1>8, <1>9, SourceMoved
<1>11. TypeOK'
  <2>1. result' \in 0..cut1[k1]
    BY <1>2, <1>3, <1>4, <1>5
  <2>2. ASSUME NEW r \in Source
        PROVE  /\ src'[r].pos <= src'[r].length /\ src'[r].told <= src'[r].length
               /\ src'[r].kind # "destroyed" <=> \E x \in Handle : handle[x] = r
    <3>1. CASE r = s
      BY <1>1, <1>3, <1>7, <1>8, <1>10, <3>1
    <3>2. CASE r # s
      BY <1>7, <1>10, <3>2
    <3> QED
      BY <3>1, <3>2
  <2> QED
    BY <1>2, <1>4, <1>10, <2>1, <2>2 DEF Inv, TypeOK, SourceRecord, Kind
<1>12. EachByteOnce'
  <2> SUFFICES ASSUME NEW r \in Source
               PROVE  src'[r].pos = src'[r].told +
                        (IF pc' = "reading" /\ s = r THEN result' ELSE 0)
    BY DEF EachByteOnce, s
  <2>1. CASE r = s
    BY <1>2, <1>3, <1>4, <1>5, <1>6, <1>10, <2>1
  <2>2. CASE r # s
    <3>1. src'[r] = src[r] /\ src[r].told \in Nat
      BY <1>10, <2>2, SourceTypes
    <3>2. src[r].pos = src[r].told + 0
      BY <2>2 DEF Inv, EachByteOnce, s
    <3> QED
      BY <2>2, <3>1, <3>2
  <2> QED
    BY <2>1, <2>2
<1>13. BatchesMeet'
  <2> SUFFICES ASSUME pc' = "reading"
               PROVE  /\ it' # k1' /\ result' = cut1'[it']
                      /\ first' = IF handle'[h'] = Empty THEN 0 ELSE src'[handle'[h']].told
    BY DEF BatchesMeet
  <2>1. e = "ok" /\ BatchEnd # k1 /\ ~Stops(e)
    BY <1>2 DEF Stops
  <2>2. result' = cut1[BatchEnd]
    BY <1>2, <1>3, <1>4, <1>5, <2>1
  <2> QED
    BY <1>2, <1>5, <1>10, <2>1, <2>2 DEF s
<1>14. DeliversInOrder'
  <2> SUFFICES ASSUME NEW p \in DOMAIN written
               PROVE  written'[p] = IF p < result' THEN first + p ELSE Untouched
    BY <1>2 DEF DeliversInOrder
  <2>1. p \in Nat
    BY <1>4 DEF Inv, TypeOK
  <2>2. written[p] = IF p < result THEN first + p ELSE Untouched
    BY DEF DeliversInOrder
  <2>3. written'[p] = IF cut1[it] <= p /\ p < cut1[it] + got
                      THEN src[s].pos + (p - cut1[it]) ELSE written[p]
    BY <1>2
  <2> QED
    BY <1>2, <1>3, <1>4, <1>5, <1>6, <2>1, <2>2, <2>3
<1> QED
  BY <1>11, <1>12, <1>13, <1>14 DEF Inv

LEMMA SourceBatch ==
  ASSUME Inv, BatchFromSource
  PROVE  /\ pc = "reading" /\ handle[h] # Empty
         /\ \E got \in 0..Room, e \in Error : Batch(handle[h], got, e)
         /\ UNCHANGED <<handle, h, k1, cut1, first>>
BY DEF BatchFromSource, Batch, Add, Stored

LEMMA NextInv ==
  Inv /\ DeliversInOrder /\ [Next]_vars => Inv' /\ DeliversInOrder'
<1> SUFFICES ASSUME Inv, DeliversInOrder, [Next]_vars PROVE Inv' /\ DeliversInOrder'
  OBVIOUS
<1>1. CASE BatchFromSource
  BY <1>1, SourceBatch, BatchKeepsInv
<1>2. CASE BatchFromEmpty
  BY <1>2, EmptyKeepsInv
<1>3. ASSUME pc = "idle", NEW x \in Handle,
             \/ \E s \in Source, k \in {"data", "read"}, t \in 0..MaxTotal :
                  Construct(x, s, k, t)
             \/ \E y \in Handle : CopyAssign(x, y) \/ MoveAssign(x, y)
             \/ Rewind(x)
      PROVE  Inv' /\ DeliversInOrder'
  BY <1>3, HandleCallsKeepInv
<1>4. ASSUME NEW x \in Handle, NEW k \in 0..MaxBuffers,
             NEW cut \in Cuts(k, MaxTotal), Read(x, k, cut)
      PROVE  Inv' /\ DeliversInOrder'
  BY <1>4, ReadKeepsInv
<1>5. CASE UNCHANGED vars
  BY <1>5 DEF vars, call, Inv, TypeOK, EachByteOnce, BatchesMeet, DeliversInOrder
<1> QED
  BY <1>1, <1>2, <1>3, <1>4, <1>5 DEF Next, Step

(* No byte of a shared source is lost or told twice, through however many  *)
(* handles it is read, rewound, copied, moved and destroyed                *)
(* (any_source.hpp:44-46, :192-210).                                       *)
THEOREM AlwaysInv == Spec => []Inv
<1> QED
  BY InitInv, NextInv, PTL DEF Spec

(* What a read() reports are the bytes that follow those the callers knew  *)
(* of, in order, in however many batches they came (any_source.hpp:192).   *)
THEOREM AlwaysDeliversInOrder == Spec => []DeliversInOrder
<1> QED
  BY InitInv, NextInv, PTL DEF Spec

LEMMA StepEof ==
  ASSUME Inv, [Next]_vars, pc = "reading", pc' = "idle",
         handle[h] # Empty, src[handle[h]].kind = "data"
  PROVE  ec' = "eof" <=> src'[handle[h]].told = src[handle[h]].length
<1> DEFINE s == handle[h]
<1>1. s \in Source
  BY DEF Inv, TypeOK
<1>2. BatchFromSource
  BY DEF Next, Step, vars, call, BatchFromEmpty
<1>3. PICK got \in 0..Room, e \in Error : Batch(s, got, e)
  BY <1>2, SourceBatch
<1>4. got \in Nat /\ (e = "eof" <=> src[s].pos + got = src[s].length)
  BY <1>1, <1>3, BatchAmount
<1>5. src[s].pos = src[s].told + result
  BY <1>1 DEF Inv, EachByteOnce
<1>6. ec' = e /\ src'[s].told = src[s].told + (result + got)
  BY <1>1, <1>3, SourceTypes DEF Batch, SourceRecord
<1>7. src[s].told \in Nat /\ result \in Nat /\ src[s].length \in Nat
  BY <1>1, SourceTypes, BatchFits DEF Inv, BatchesMeet
<1> HIDE DEF s
<1>8. src'[s].told = src[s].pos + got
  BY <1>4, <1>5, <1>6, <1>7
<1>9. ec' = "eof" <=> src'[s].told = src[s].length
  BY <1>4, <1>6, <1>8
<1> QED
  BY <1>9 DEF s

(* A data source reports eof with its last byte, and not before, wherever  *)
(* the batches end (any_source.hpp:170-171, :284-290).                     *)
THEOREM AlwaysEofWithLastByte == Spec => EofWithLastByte
<1>1. Inv /\ [Next]_vars =>
        [/\ pc = "reading" /\ pc' = "idle"
         /\ handle[h] # Empty /\ src[handle[h]].kind = "data"
         => (ec' = "eof" <=> src'[handle[h]].told = src[handle[h]].length)]_vars
  BY StepEof
<1> QED
  BY <1>1, InitInv, NextInv, PTL DEF Spec, EofWithLastByte

(* While a read() runs, the handles do nothing else, and fewer buffers are  *)
(* left after each batch, also when the source gave no byte of it          *)
(* (any_source.hpp:194-208): a destination of k1 buffers takes at most k1  *)
(* batches, and no batch is empty of buffers.                              *)
Left == IF pc = "reading" THEN k1 - it ELSE 0

THEOREM BatchesShorten ==
  Spec => [][pc = "reading" => Left' \in Nat /\ Left' < Left]_vars
<1>1. ASSUME Inv, pc = "reading", Next PROVE Left' \in Nat /\ Left' < Left
  <2>1. /\ k1 \in Nat /\ it \in 0..k1 /\ it # k1 /\ N \in Nat \ {0}
    BY <1>1, BatchAssumption DEF Inv, TypeOK, BatchesMeet
  <2>2. /\ it' = BatchEnd /\ k1' = k1
        /\ pc' \in {"idle", "reading"}
    BY <1>1 DEF Next, Step, BatchFromSource, BatchFromEmpty
  <2>3. BatchEnd \in 0..k1 /\ it < BatchEnd
    BY <2>1 DEF BatchEnd, Least
  <2> HIDE DEF BatchEnd
  <2>4. Left = k1 - it /\ Left' \in {0, k1 - BatchEnd}
    BY <1>1, <2>2 DEF Left
  <2> QED
    BY <2>1, <2>3, <2>4
<1>2. Inv /\ [Next]_vars => [pc = "reading" => Left' \in Nat /\ Left' < Left]_vars
  BY <1>1
<1> QED
  BY <1>2, AlwaysInv, PTL DEF Spec

-----------------------------------------------------------------------------
(* any_read_source: the wrapper of a read source, for every size of the    *)
(* array of buffers, every destination and every source.                   *)
(*                                                                         *)
(* A batch that ends without an error was filled, so the next one begins   *)
(* where the bytes of this one end: BatchesMeet of AnyReadSource makes     *)
(* ReadsInOrder inductive.                                                 *)

(* Where the batch ends, and what it has room for.                         *)
LEMMA RSBatchFits ==
  ASSUME ReadsInOrder, pc = "reading"
  PROVE  /\ it \in 0..k1 /\ BatchEnd \in 0..k1 /\ it < BatchEnd
         /\ cut1[it] \in Nat /\ cut1[BatchEnd] \in Nat /\ cut1[k1] \in Nat
         /\ cut1[it] <= cut1[BatchEnd] /\ cut1[BatchEnd] <= cut1[k1]
         /\ Room \in Nat /\ cut1[it] + Room = cut1[BatchEnd]
<1>1. k1 \in Nat /\ it \in 0..k1 /\ it # k1 /\ cut1 \in Cuts(k1, MaxTotal)
  BY BatchAssumption DEF ReadsInOrder, RSTypeOK, RSBatchesMeet
<1> QED
  BY <1>1, BatchInside

LEMMA RSInitReads == RSInit => ReadsInOrder
<1> SUFFICES ASSUME RSInit PROVE ReadsInOrder
  OBVIOUS
<1>1. cut1 \in Cuts(k1, MaxTotal) /\ cut1[k1] = 0
  BY EmptyCut DEF RSInit
<1>2. RSTypeOK
  BY <1>1, BatchAssumption DEF RSInit, RSTypeOK, Error
<1> QED
  BY <1>2 DEF RSInit, ReadsInOrder, RSBatchesMeet, DeliversInOrder

(* A call begins at the next byte the source has.                          *)
LEMMA RSReadKeeps ==
  ASSUME ReadsInOrder,
         NEW k \in 0..MaxBuffers, NEW cut \in Cuts(k, MaxTotal), NEW e \in Error,
         RSRead(k, cut, e)
  PROVE  ReadsInOrder'
<1>1. k \in Nat /\ cut[0] = 0 /\ cut[k] \in Nat
  <2>1. k \in Nat /\ 0 \in 0..k /\ k \in 0..k
    BY BatchAssumption
  <2> QED
    BY <2>1, CutsFit
<1>2. /\ k1' = k /\ cut1' = cut /\ it' = 0 /\ result' = 0 /\ first' = spos
      /\ written' = [p \in 0..cut[k] - 1 |-> Untouched]
      /\ ec' = e /\ ec_' = ec_ /\ spos' = spos /\ slen' = slen
      /\ pc' = IF k = 0 THEN "idle" ELSE "reading"
  BY DEF RSRead, source
<1>3. RSTypeOK'
  BY <1>1, <1>2 DEF ReadsInOrder, RSTypeOK
<1>4. RSBatchesMeet'
  BY <1>1, <1>2 DEF ReadsInOrder, RSTypeOK, RSBatchesMeet
<1>5. DeliversInOrder'
  BY <1>1, <1>2 DEF DeliversInOrder
<1> QED
  BY <1>3, <1>4, <1>5 DEF ReadsInOrder

(* A batch goes on where the one before it ended, in both sequences.       *)
LEMMA RSBatchKeeps == ReadsInOrder /\ ReadSource => ReadsInOrder'
<1> SUFFICES ASSUME ReadsInOrder, ReadSource PROVE ReadsInOrder'
  OBVIOUS
<1>1. pc = "reading"
  BY DEF ReadSource
<1>2. PICK got \in 0..Room, e \in Error :
       /\ RSSourceMayReturn(Room, got, e)
       /\ written' = [p \in DOMAIN written |->
                        IF cut1[it] <= p /\ p < cut1[it] + got
                        THEN spos + (p - cut1[it]) ELSE written[p]]
       /\ spos' = spos + got
       /\ ec' = e
       /\ ec_' = e
       /\ result' = result + got
       /\ it' = BatchEnd
       /\ pc' = IF e # "ok" \/ BatchEnd = k1 THEN "idle" ELSE "reading"
  BY DEF ReadSource, Remember, Stored
<1>3. /\ slen' = slen /\ k1' = k1 /\ cut1' = cut1 /\ first' = first
  BY DEF ReadSource, dest
<1>4. /\ it \in 0..k1 /\ BatchEnd \in 0..k1
      /\ cut1[it] \in Nat /\ cut1[BatchEnd] \in Nat /\ cut1[k1] \in Nat
      /\ cut1[BatchEnd] <= cut1[k1]
      /\ Room \in Nat /\ cut1[it] + Room = cut1[BatchEnd]
  BY <1>1, RSBatchFits
<1>5. result = cut1[it] /\ spos = first + result
  BY <1>1 DEF ReadsInOrder, RSBatchesMeet
<1>6. spos \in Nat /\ slen \in Nat /\ spos <= slen /\ first \in Nat /\ first <= slen
  BY BatchAssumption DEF ReadsInOrder, RSTypeOK
<1>7. got \in Nat /\ got <= Room /\ got <= slen - spos /\ (e = "ok" => got = Room)
  BY <1>2, <1>4 DEF RSSourceMayReturn
<1> HIDE DEF Room, BatchEnd
<1>8. RSTypeOK'
  <2>1. spos' \in 0..slen /\ result' \in 0..cut1[k1]
    BY <1>2, <1>4, <1>5, <1>6, <1>7
  <2> QED
    BY <1>2, <1>3, <1>4, <2>1 DEF ReadsInOrder, RSTypeOK
<1>9. RSBatchesMeet'
  <2> SUFFICES ASSUME pc' = "reading"
               PROVE  it' # k1' /\ result' = cut1'[it'] /\ spos' = first' + result'
    BY DEF RSBatchesMeet
  <2>1. e = "ok" /\ BatchEnd # k1
    BY <1>2
  <2> QED
    BY <1>2, <1>3, <1>4, <1>5, <1>6, <1>7, <2>1
<1>10. DeliversInOrder'
  <2> SUFFICES ASSUME NEW p \in DOMAIN written
               PROVE  written'[p] = IF p < result' THEN first' + p ELSE Untouched
    BY <1>2 DEF DeliversInOrder
  <2>1. p \in Nat
    BY <1>4 DEF ReadsInOrder, RSTypeOK
  <2>2. written[p] = IF p < result THEN first + p ELSE Untouched
    BY DEF ReadsInOrder, DeliversInOrder
  <2>3. written'[p] = IF cut1[it] <= p /\ p < cut1[it] + got
                      THEN spos + (p - cut1[it]) ELSE written[p]
    BY <1>2
  <2>4. result' = result + got /\ first' = first
    BY <1>2, <1>3
  <2> QED
    BY <1>4, <1>5, <1>6, <1>7, <2>1, <2>2, <2>3, <2>4
<1> QED
  BY <1>8, <1>9, <1>10 DEF ReadsInOrder

LEMMA RSNextReads == ReadsInOrder /\ [RSNext]_rsVars => ReadsInOrder'
<1> SUFFICES ASSUME ReadsInOrder, [RSNext]_rsVars PROVE ReadsInOrder'
  OBVIOUS
<1>1. ASSUME NEW k \in 0..MaxBuffers, NEW cut \in Cuts(k, MaxTotal),
             NEW e \in {"ok", ec}, RSRead(k, cut, e)
      PROVE  ReadsInOrder'
  <2>1. e \in Error
    BY DEF ReadsInOrder, RSTypeOK, Error
  <2> QED
    BY <1>1, <2>1, RSReadKeeps
<1>2. CASE ReadSource
  BY <1>2, RSBatchKeeps
<1>3. CASE ReadAgain
  BY <1>3 DEF ReadAgain, source, dest, ReadsInOrder, RSTypeOK, RSBatchesMeet, DeliversInOrder
<1>4. CASE RSRewind
  <2>1. 0 \in 0..slen
    BY BatchAssumption DEF ReadsInOrder, RSTypeOK
  <2> QED
    BY <1>4, <2>1
    DEF RSRewind, dest, ReadsInOrder, RSTypeOK, RSBatchesMeet, DeliversInOrder, Error
<1>5. CASE UNCHANGED rsVars
  BY <1>5 DEF rsVars, source, dest, ReadsInOrder, RSTypeOK, RSBatchesMeet, DeliversInOrder
<1> QED
  BY <1>1, <1>2, <1>3, <1>4, <1>5 DEF RSNext, RSStep

(* The bytes a read() reports are the next bytes of the source, in order   *)
(* and without a gap, in however many batches they came                    *)
(* (any_read_source.hpp:65-90).                                            *)
THEOREM AlwaysReadsInOrder == RSSpec => []ReadsInOrder
<1> QED
  BY RSInitReads, RSNextReads, PTL DEF RSSpec

-----------------------------------------------------------------------------
(* What the caller may conclude from ec.                                   *)

LEMMA RSSuccess ==
  ASSUME ReadsInOrder, [RSNext]_rsVars, pc = "reading", pc' = "idle", ec' = "ok"
  PROVE  result' = cut1[k1]
<1>1. CASE ReadSource
  <2>1. PICK got \in 0..Room, e \in Error :
          /\ RSSourceMayReturn(Room, got, e)
          /\ ec' = e
          /\ result' = result + got
          /\ pc' = IF e # "ok" \/ BatchEnd = k1 THEN "idle" ELSE "reading"
    BY <1>1 DEF ReadSource
  <2>2. got = Room /\ BatchEnd = k1
    BY <2>1 DEF RSSourceMayReturn
  <2>3. result = cut1[it] /\ cut1[it] + Room = cut1[BatchEnd]
    BY RSBatchFits DEF ReadsInOrder, RSBatchesMeet
  <2> QED
    BY <2>1, <2>2, <2>3
<1>2. CASE ReadAgain
  BY <1>2 DEF ReadAgain
<1> QED
  BY <1>1, <1>2 DEF RSNext, RSStep, RSRead, RSRewind, rsVars

(* A read() that ends without an error has filled the destination          *)
(* (any_read_source.hpp:71, :76, :88).                                     *)
THEOREM AlwaysSuccessFills == RSSpec => SuccessFills
<1>1. ReadsInOrder /\ [RSNext]_rsVars =>
        [pc = "reading" /\ pc' = "idle" /\ ec' = "ok" => result' = cut1[k1]]_rsVars
  BY RSSuccess
<1> QED
  BY <1>1, RSInitReads, RSNextReads, PTL DEF RSSpec, SuccessFills

(* An error the caller was told is remembered, and the source is not read  *)
(* again before rewind() (any_read_source.hpp:156, :163).                  *)
THEOREM AlwaysFailureSticks == RSSpec => FailureSticks
<1>1. [RSNext]_rsVars =>
        [pc = "reading" =>
           /\ ec' # "ok" => ec_' = ec'
           /\ ec_ # "ok" => spos' = spos /\ ec_' = ec_ /\ ec' = ec_]_rsVars
  BY DEF RSNext, RSStep, RSRead, RSRewind, ReadSource, ReadAgain, Remember, source
<1> QED
  BY <1>1, PTL DEF RSSpec, FailureSticks

(* The same for the wrapper of a read source, also after an error, when    *)
(* the source is not asked any more (any_read_source.hpp:65-90, :145-156). *)
THEOREM RSBatchesShorten ==
  RSSpec => [][pc = "reading" => Left' \in Nat /\ Left' < Left]_rsVars
<1>1. ASSUME ReadsInOrder, pc = "reading", RSNext PROVE Left' \in Nat /\ Left' < Left
  <2>1. k1 \in Nat /\ it \in 0..k1 /\ it < BatchEnd /\ BatchEnd \in 0..k1
    BY <1>1, RSBatchFits, BatchAssumption DEF ReadsInOrder, RSTypeOK
  <2>2. CASE ReadSource
    <3>1. it' = BatchEnd /\ k1' = k1 /\ pc' \in {"idle", "reading"}
      BY <2>2 DEF ReadSource, dest
    <3> HIDE DEF BatchEnd
    <3>2. Left = k1 - it /\ Left' \in {0, k1 - BatchEnd}
      BY <1>1, <3>1 DEF Left
    <3> QED
      BY <2>1, <3>2
  <2>3. CASE ReadAgain
    <3>1. pc' = "idle"
      BY <2>3 DEF ReadAgain
    <3>2. Left = k1 - it /\ Left' = 0
      BY <1>1, <3>1 DEF Left
    <3> QED
      BY <2>1, <3>2
  <2> QED
    BY <1>1, <2>2, <2>3 DEF RSNext, RSStep, RSRead, RSRewind
<1>2. ReadsInOrder /\ [RSNext]_rsVars =>
        [pc = "reading" => Left' \in Nat /\ Left' < Left]_rsVars
  BY <1>1
<1> QED
  BY <1>2, AlwaysReadsInOrder, PTL DEF RSSpec
=============================================================================
