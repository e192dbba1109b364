--------------------------- MODULE AnyReadSource ---------------------------
(***************************************************************************)
(* any_read_source: a read source behind a type-erased interface that      *)
(* passes at most N buffers of the destination to the source at a time,    *)
(* and remembers the error the source ended with.                          *)
(*                                                                         *)
(* AnySource has operations of the same names; the ones here begin with RS *)
(* (read source), so that one module can speak of both.                    *)
(*                                                                         *)
(* One step is one iteration up to and including a call of do_read(); the  *)
(* caller's variable ec and the remembered ec_ are different things.       *)
(*                                                                         *)
(* The source is external.  It delivers the bytes at positions 0, 1, ...,  *)
(* slen - 1, from spos on, and as ReadSource.adoc:40-42 says it clears or  *)
(* sets ec in every call.  It may report eof with the last byte or only    *)
(* when nothing is left, and may fail at any time.  It does not succeed    *)
(* without filling the destination: an assertion in read() requires that.  *)
(***************************************************************************)
EXTENDS BatchedRead

VARIABLES
  spos, slen,    \* the source
  ec_            \* the error the source reported last, cleared by rewind()

source == <<spos, slen>>

dest == <<k1, cut1>>

rsVars == <<source, ec_, ec, dest, it, result, first, written, pc>>

-----------------------------------------------------------------------------
RSInit ==
  /\ spos = 0 /\ slen \in 0..MaxTotal
  /\ ec_ = "ok" /\ ec = "ok"
  /\ k1 = 0 /\ cut1 = [i \in 0..0 |-> 0]
  /\ it = 0 /\ result = 0 /\ first = 0
  /\ written = [p \in {} |-> Untouched]
  /\ pc = "idle"

(* MUTANT of RSRead: result starts at what the previous call returned.     *)
ReadKeepsResult(k, cut, e) ==
  /\ pc = "idle"
  /\ k1' = k /\ cut1' = cut
  /\ it' = 0 /\ first' = spos
  /\ written' = [p \in 0..cut[k] - 1 |-> Untouched]
  /\ ec' = e
  /\ pc' = IF k = 0 THEN "idle" ELSE "reading"
  /\ UNCHANGED <<source, ec_, result>>

(* read(dest, ec) is called with an ec that has the value e.  With no      *)
(* buffer in dest it returns at once.                                      *)
RSRead(k, cut, e) ==
  /\ pc = "idle"
  /\ k1' = k /\ cut1' = cut
  /\ it' = 0 /\ result' = 0 /\ first' = spos
  /\ written' = [p \in 0..cut[k] - 1 |-> Untouched]
  /\ ec' = e
  /\ pc' = IF k = 0 THEN "idle" ELSE "reading"
  /\ UNCHANGED <<source, ec_>>

(* What the source may return for a destination of m bytes: how many, and  *)
(* the error.                                                              *)
RSSourceMayReturn(m, got, e) ==
  /\ got <= m /\ got <= slen - spos
  /\ e = "ok" => got = m
  /\ e = "eof" => spos + got = slen

(* MUTANT of Remember: the error is remembered only if nothing was read.   *)
RememberUnlessRead(got, e) == IF got = 0 THEN e ELSE "ok"

(* do_read() keeps the error the source returned.                          *)
Remember(got, e) == e

(* MUTANT of ReadSource: result counts the room, not what was read.        *)
ReadSourceCountsRoom ==
  /\ pc = "reading" /\ ec_ = "ok"
  /\ \E got \in 0..Room, e \in Error :
       /\ RSSourceMayReturn(Room, got, e)
       /\ written' = Stored(spos, got)
       /\ spos' = spos + got
       /\ ec' = e
       /\ ec_' = Remember(got, e)
       /\ result' = result + Room
       /\ it' = BatchEnd
       /\ pc' = IF e # "ok" \/ BatchEnd = k1 THEN "idle" ELSE "reading"
  /\ UNCHANGED <<slen, dest, first>>

(* One batch, read from the source.                                        *)
ReadSource ==
  /\ pc = "reading" /\ ec_ = "ok"
  /\ \E got \in 0..Room, e \in Error :
       /\ RSSourceMayReturn(Room, got, e)
       /\ written' = Stored(spos, got)
       /\ spos' = spos + got
       /\ ec' = e
       /\ ec_' = Remember(got, e)
       /\ result' = result + got
       /\ it' = BatchEnd
       /\ pc' = IF e # "ok" \/ BatchEnd = k1 THEN "idle" ELSE "reading"
  /\ UNCHANGED <<slen, dest, first>>

(* MUTANT of ReadAgain: the caller is not told the remembered error.       *)
ReadAgainSilent ==
  /\ pc = "reading" /\ ec_ # "ok"
  /\ pc' = "idle"
  /\ UNCHANGED <<source, ec_, ec, dest, it, result, first, written>>

(* MUTANT of ReadAgain: the batch is tried again.                          *)
ReadAgainRetries ==
  /\ pc = "reading" /\ ec_ # "ok"
  /\ ec' = ec_
  /\ UNCHANGED <<source, ec_, dest, it, result, first, written, pc>>

(* do_read() after the source has failed: the same error, no bytes.        *)
ReadAgain ==
  /\ pc = "reading" /\ ec_ # "ok"
  /\ ec' = ec_
  /\ pc' = "idle"
  /\ UNCHANGED <<source, ec_, dest, it, result, first, written>>

(* rewind(): the error is forgotten before the source is rewound, which    *)
(* may throw.  (A source without rewind(): it throws, nothing changes.)    *)
RSRewind ==
  /\ pc = "idle"
  /\ ec_' = "ok"
  /\ spos' \in {0, spos}
  /\ UNCHANGED <<slen, ec, dest, it, result, first, written, pc>>

RSStep == ReadSource \/ ReadAgain

RSNext ==
  \/ \E k \in 0..MaxBuffers :
     \E cut \in Cuts(k, MaxTotal), e \in {"ok", ec} :
       RSRead(k, cut, e)
  \/ RSStep
  \/ RSRewind

(* A read() that was called goes on; the source answers.                   *)
RSSpec == RSInit /\ [][RSNext]_rsVars /\ WF_rsVars(RSStep)

-----------------------------------------------------------------------------
(* Properties.                                                             *)

(* The types of the variables.                                             *)
RSTypeOK ==
  /\ slen \in 0..MaxTotal /\ spos \in 0..slen
  /\ ec_ \in Error /\ ec \in Error
  /\ k1 \in 0..MaxBuffers /\ cut1 \in Cuts(k1, MaxTotal)
  /\ it \in 0..k1 /\ result \in 0..cut1[k1] /\ first \in 0..slen
  /\ DOMAIN written = 0..cut1[k1] - 1
  /\ pc \in {"idle", "reading"}

(* Between two batches the call has reported every byte the source gave,   *)
(* and filled every buffer it passed on (any_read_source.hpp:67-88).       *)
RSBatchesMeet ==
  pc = "reading" =>
    /\ it # k1
    /\ result = cut1[it]
    /\ spos = first + result

(* All three, as one invariant of the loop (any_read_source.hpp:65-90).    *)
ReadsInOrder == RSTypeOK /\ RSBatchesMeet /\ DeliversInOrder

(* A call that ends without an error has filled the whole destination, so  *)
(* a caller that gets fewer bytes can rely on ec (any_read_source.hpp:71,  *)
(* :76, :88).                                                              *)
SuccessFills ==
  [][pc = "reading" /\ pc' = "idle" /\ ec' = "ok" => result' = cut1[k1]]_rsVars

(* Once the source has reported an error it is not read again before       *)
(* rewind() (any_read_source.hpp:156, :163), not even by the remaining     *)
(* batches of the same call, and every read() in between reports the same  *)
(* error: the wrapper remembers each error the caller is told.             *)
FailureSticks ==
  [][pc = "reading" =>
       /\ ec' # "ok" => ec_' = ec'
       /\ ec_ # "ok" => spos' = spos /\ ec_' = ec_ /\ ec' = ec_]_rsVars

=============================================================================
