----------------------------- MODULE AnySource -----------------------------
(***************************************************************************)
(* any_source: handles that share type-erased sources.                     *)
(*                                                                         *)
(* A handle is an any_source object; handle[h] is what its sp_ points to:  *)
(* one of the sources that some handle shares, or Empty, the static model  *)
(* that default-constructed and moved-from handles have.  The position of  *)
(* a source belongs to the source, so reading through one handle moves all *)
(* of its copies.  A source without a handle is destroyed.                 *)
(*                                                                         *)
(* read() passes at most N buffers of the destination to the source at a   *)
(* time (16 in the code); one step is one iteration.  Two kinds of source: *)
(* a data source, whose bytes data_model copies and counts (nread_), and a *)
(* read source, which is external and keeps to ReadSource.adoc:40-42 and   *)
(* to the assertion in read(): it fills the destination or sets ec.        *)
(* Sources with a known size only differ in what size() answers.           *)
(***************************************************************************)
EXTENDS BatchedRead

CONSTANTS
  Handle,        \* the any_source objects of the program
  Source,        \* names for the sources they may share
  Empty          \* the static model of an empty source

ASSUME AnySourceAssumption == Empty \notin Source

VARIABLES
  handle,        \* sp_ of each handle
  src,           \* the sources: their kind, the number of their bytes, pos
                 \* (nread_, or where the read source is), and told: how
                 \* many bytes their callers were told of since the
                 \* beginning or the last rewind()
  h              \* the handle of the current or the last read()

call == <<h, k1, cut1, it, result, first, written, ec, pc>>

vars == <<handle, src, call>>

-----------------------------------------------------------------------------
NewSource(k, t) == [kind |-> k, length |-> t, pos |-> 0, told |-> 0]

Destroyed == NewSource("destroyed", 0)

(* The record of a call that is over is not kept.                          *)
NoCall ==
  /\ h' = h /\ k1' = 0 /\ cut1' = [i \in 0..0 |-> 0]
  /\ it' = 0 /\ result' = 0 /\ first' = 0
  /\ written' = [p \in {} |-> Untouched]
  /\ ec' = "ok"
  /\ pc' = "idle"

Init ==
  /\ handle = [x \in Handle |-> Empty]
  /\ src = [s \in Source |-> Destroyed]
  /\ h \in Handle
  /\ k1 = 0 /\ cut1 = [i \in 0..0 |-> 0]
  /\ it = 0 /\ result = 0 /\ first = 0
  /\ written = [p \in {} |-> Untouched]
  /\ ec = "ok"
  /\ pc = "idle"

(* The handles point to hs now: what nobody shares any more is destroyed.  *)
Share(hs, ss) ==
  /\ handle' = hs
  /\ src' = [s \in Source |->
               IF \E x \in Handle : hs[x] = s THEN ss[s] ELSE Destroyed]

(* x = any_source(source): a data source, or a read source of t bytes.     *)
Construct(x, s, k, t) ==
  /\ src[s] = Destroyed
  /\ Share([handle EXCEPT ![x] = s], [src EXCEPT ![s] = NewSource(k, t)])
  /\ NoCall

(* x = y: both share the source of y.                                      *)
CopyAssign(x, y) == Share([handle EXCEPT ![x] = handle[y]], src) /\ NoCall

(* x = std::move(y), in this order: y is empty afterwards, also if it is x.*)
MoveAssign(x, y) ==
  /\ Share([[handle EXCEPT ![x] = handle[y]] EXCEPT ![y] = Empty], src)
  /\ NoCall

(* rewind() of the source of x.  The empty source has no position.         *)
Rewind(x) ==
  /\ handle[x] # Empty
  /\ src' = [src EXCEPT ![handle[x]].pos = 0, ![handle[x]].told = 0]
  /\ NoCall
  /\ UNCHANGED handle

-----------------------------------------------------------------------------
(* read(dest, ec) is called.  With no buffer in dest it returns at once.   *)
Read(x, k, cut) ==
  /\ pc = "idle"
  /\ h' = x
  /\ k1' = k /\ cut1' = cut
  /\ it' = 0 /\ result' = 0
  /\ first' = IF handle[x] = Empty THEN 0 ELSE src[handle[x]].told
  /\ written' = [p \in 0..cut[k] - 1 |-> Untouched]
  /\ pc' = IF k = 0 THEN "idle" ELSE "reading"
  /\ UNCHANGED <<handle, src, ec>>

(* MUTANT of DataRead: eof is only reported when nothing is left to copy.  *)
DataReadEofLater(s, got, e) ==
  /\ got = Least(Room, src[s].length - src[s].pos)
  /\ e = IF got = 0 THEN "eof" ELSE "ok"

(* MUTANT of DataRead: nread_ counts the room, not what was copied.        *)
DataReadCountsRoom(s, got, e) ==
  /\ got = Room
  /\ e = IF src[s].pos + got >= src[s].length THEN "eof" ELSE "ok"

(* data_model::read(): copy() of what sans_prefix() leaves of the data.    *)
DataRead(s, got, e) ==
  /\ got = Least(Room, src[s].length - src[s].pos)
  /\ e = IF src[s].pos + got >= src[s].length THEN "eof" ELSE "ok"

(* What a read source may return.                                          *)
SourceMayReturn(s, got, e) ==
  /\ got <= Room /\ got <= src[s].length - src[s].pos
  /\ e = "ok" => got = Room
  /\ e = "eof" => src[s].pos + got = src[s].length

(* MUTANT of Add: the result is that of the last batch.                    *)
LastBatch(got) == got

(* The new result, after an iteration that read got bytes.                 *)
Add(got) == result + got

(* MUTANT of Stops: an error does not end the loop.                        *)
StopsAtEnd(e) == BatchEnd = k1

(* MUTANT of Stops: the loop ends when the array was full.                 *)
StopsWhenFull(e) == e # "ok" \/ BatchEnd = it + N

(* Does the loop end after an iteration with the error e?                  *)
Stops(e) == e # "ok" \/ BatchEnd = k1

BatchFromSource ==
  /\ pc = "reading" /\ handle[h] # Empty
  /\ LET s == handle[h] IN
     \E got \in 0..Room, e \in Error :
       /\ IF src[s].kind = "data" THEN DataRead(s, got, e)
                              ELSE SourceMayReturn(s, got, e)
       /\ written' = Stored(src[s].pos, got)
       /\ src' = [src EXCEPT ![s].pos = @ + got,
                              ![s].told = IF Stops(e) THEN @ + Add(got) ELSE @]
       /\ result' = Add(got)
       /\ ec' = e
       /\ it' = BatchEnd
       /\ pc' = IF Stops(e) THEN "idle" ELSE "reading"
  /\ UNCHANGED <<handle, h, k1, cut1, first>>

(* The empty source: nothing, at once.                                     *)
BatchFromEmpty ==
  /\ pc = "reading" /\ handle[h] = Empty
  /\ ec' = "eof"
  /\ it' = BatchEnd
  /\ pc' = "idle"
  /\ UNCHANGED <<handle, src, h, k1, cut1, result, first, written>>

Step == BatchFromSource \/ BatchFromEmpty

Next ==
  \/ Step
  \/ /\ pc = "idle"
     /\ \E x \in Handle :
          \/ \E s \in Source, k \in {"data", "read"}, t \in 0..MaxTotal :
               Construct(x, s, k, t)
          \/ \E y \in Handle : CopyAssign(x, y) \/ MoveAssign(x, y)
          \/ Rewind(x)
          \/ \E k \in 0..MaxBuffers : \E cut \in Cuts(k, MaxTotal) :
               Read(x, k, cut)

(* A read() that was called goes on; the source answers.                   *)
Spec == Init /\ [][Next]_vars /\ WF_vars(Step)
-----------------------------------------------------------------------------
(* Properties.                                                             *)

(* The types of the variables.                                             *)
TypeOK ==
  /\ handle \in [Handle -> Source \cup {Empty}]
  /\ src \in [Source -> [kind : {"data", "read", "destroyed"},
                         length : 0..MaxTotal, pos : 0..MaxTotal,
                         told : 0..MaxTotal]]
  /\ \A s \in Source :
       /\ src[s].pos <= src[s].length /\ src[s].told <= src[s].length
       /\ src[s].kind # "destroyed" <=> \E x \in Handle : handle[x] = s
  /\ h \in Handle /\ k1 \in 0..MaxBuffers /\ cut1 \in Cuts(k1, MaxTotal)
  /\ it \in 0..k1 /\ result \in 0..cut1[k1] /\ first \in Nat
  /\ DOMAIN written = 0..cut1[k1] - 1
  /\ ec \in Error
  /\ pc \in {"idle", "reading"}

(* All handles that share a source together are told of each of its bytes  *)
(* once: the position of the source is what its callers know of, whoever   *)
(* called and in whatever order reads, rewinds, copies and moves followed  *)
(* each other (any_source.hpp:44-46), apart from what the running read()   *)
(* has yet to report (:203).                                               *)
EachByteOnce ==
  \A s \in Source :
    src[s].pos = src[s].told + (IF pc = "reading" /\ handle[h] = s THEN result ELSE 0)

(* Between two batches of a read() every buffer passed on is full, and the *)
(* callers have not been told of any of it (any_source.hpp:194-208).       *)
BatchesMeet ==
  pc = "reading" =>
    /\ it # k1
    /\ result = cut1[it]
    /\ first = IF handle[h] = Empty THEN 0 ELSE src[handle[h]].told

(* All three, as one invariant (any_source.hpp:192-210): no call leaves a  *)
(* handle without a source, no byte is lost or told twice, and each batch  *)
(* begins where the one before it ended.                                   *)
Inv == TypeOK /\ EachByteOnce /\ BatchesMeet

(* A data source reports eof together with its last byte and not before    *)
(* (any_source.hpp:170-171, :284-290), also when the destination, or a     *)
(* batch of it, ends exactly there.                                        *)
EofWithLastByte ==
  [][/\ pc = "reading" /\ pc' = "idle"
     /\ handle[h] # Empty /\ src[handle[h]].kind = "data"
     => (ec' = "eof" <=> src'[handle[h]].told = src[handle[h]].length)]_vars

=============================================================================
