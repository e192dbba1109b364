----------------------------- MODULE DataModel -----------------------------
(***************************************************************************)
(* any_source::data_model: a data source read piece by piece.  Each read() *)
(* copies to its destination what sans_prefix() leaves of the data when    *)
(* the bytes read before are dropped.  This module composes the two: a     *)
(* slice of the data (SliceOf) goes through its loop, and the elements     *)
(* that its iterators then show are the source of a call of copy() (Copy). *)
(*                                                                         *)
(* A behaviour is either that of a program which calls copy() itself, with *)
(* any sequences and any at_most, or that of a data_model.                 *)
(***************************************************************************)
EXTENDS Copy, Sequences, FiniteSets

VARIABLES
  user,          \* who calls copy(): "program" or "data_model"
  K, cut,        \* the buffers of the data source
  nread_,        \* of data_model
  ec,            \* what the last read() set it to
  stage,         \* where a read() is: "idle", "sliced", "loop", "copy"
  taken,         \* history: the bytes of the data that reads have returned
  begin_, end_, len_, size_, prefix_, suffix_, n, pc    \* the slice

data == <<user, K, cut>>

slice == <<begin_, end_, len_, size_, prefix_, suffix_, n, pc>>

dataVars == <<vars, data, nread_, ec, stage, taken, slice>>

Slice == INSTANCE SliceOf WITH iter <- 0, view <- <<>>

-----------------------------------------------------------------------------
(* A sequence without buffers; where nothing has been copied yet.          *)
NoCut == [i \in 0..0 |-> 0]

(* size_ of data_model, computed when it is constructed.                   *)
DataSize == cut[K]

ProgramInit == user = "program" /\ Init /\ K = 0 /\ cut = NoCut /\ stage = "copy"

DataModelInit ==
  /\ user = "data_model"
  /\ K \in 0..MaxBuffers /\ cut \in Cuts(K, MaxTotal)
  /\ k0 = 0 /\ cut0 = NoCut /\ k1 = 0 /\ cut1 = NoCut /\ at_most = SizeMax
  /\ it0 = 0 /\ pos0 = 0 /\ it1 = 0 /\ pos1 = 0 /\ total = 0
  /\ written = [p \in {} |-> Untouched] /\ done = TRUE
  /\ stage = "idle"

DataInit ==
  /\ ProgramInit \/ DataModelInit
  /\ nread_ = 0 /\ ec = "ok" /\ taken = <<>>
  /\ begin_ = 0 /\ end_ = K /\ len_ = K /\ size_ = DataSize
  /\ prefix_ = 0 /\ suffix_ = 0 /\ n = 0 /\ pc = "idle"

(* read(dest, ec): sans_prefix() makes a slice of all of the data.         *)
Read(k, c) ==
  /\ stage = "idle" /\ stage' = "sliced"
  /\ k1' = k /\ cut1' = c
  /\ written' = [p \in 0..c[k] - 1 |-> Untouched]
  /\ k0' = 0 /\ cut0' = NoCut
  /\ it0' = 0 /\ pos0' = 0 /\ it1' = 0 /\ pos1' = 0 /\ total' = 0
  /\ begin_' = 0 /\ end_' = K /\ len_' = K /\ size_' = DataSize
  /\ prefix_' = 0 /\ suffix_' = 0
  /\ UNCHANGED <<data, nread_, ec, taken, at_most, done, n, pc>>

(* Then it calls remove_prefix(), whose loop follows.                      *)
DropRead ==
  /\ stage = "sliced" /\ stage' = "loop"
  /\ Slice!RemovePrefix(nread_)
  /\ UNCHANGED <<vars, data, nread_, ec, taken>>

SliceLoop ==
  /\ stage = "loop" /\ Slice!Loop
  /\ UNCHANGED <<vars, data, nread_, ec, stage, taken>>

(* The elements from begin() to end() as the source of copy().             *)
Elements ==
  [i \in 0..len_ |-> Cardinality(UNION {Slice!Shown[j] : j \in 0..i - 1})]

CallCopy ==
  /\ stage = "loop" /\ pc = "idle" /\ stage' = "copy"
  /\ k0' = len_ /\ cut0' = Elements
  /\ done' = FALSE
  /\ UNCHANGED <<k1, cut1, at_most, it0, pos0, it1, pos1, total, written>>
  /\ UNCHANGED <<data, nread_, ec, taken, slice>>

CopyLoop ==
  /\ stage = "copy" /\ Next
  /\ UNCHANGED <<data, nread_, ec, stage, taken, slice>>

(* The byte of the data at position q of what the slice shows.             *)
DataAt(q) ==
  CHOOSE x \in Slice!Content : Cardinality({y \in Slice!Content : y < x}) = q

(* MUTANT of CountRead: what the destination had room for is counted.      *)
CountRoom == cut1[k1]

CountRead == total

(* MUTANT of ReadReturns: eof only when nothing was copied.                *)
ReturnEofLater ==
  /\ stage = "copy" /\ done /\ user = "data_model" /\ stage' = "idle"
  /\ nread_' = nread_ + CountRead
  /\ ec' = IF total = 0 THEN "eof" ELSE "ok"
  /\ taken' = taken \o [p \in 1..total |-> DataAt(written[p - 1])]
  /\ UNCHANGED <<vars, data, slice>>

(* read() returns.                                                         *)
ReadReturns ==
  /\ stage = "copy" /\ done /\ user = "data_model" /\ stage' = "idle"
  /\ nread_' = nread_ + CountRead
  /\ ec' = IF nread_' >= DataSize THEN "eof" ELSE "ok"
  /\ taken' = taken \o [p \in 1..total |-> DataAt(written[p - 1])]
  /\ UNCHANGED <<vars, data, slice>>

Rewind ==
  /\ stage = "idle"
  /\ nread_' = 0 /\ taken' = <<>>
  /\ UNCHANGED <<vars, data, ec, stage, slice>>

Step == DropRead \/ SliceLoop \/ CallCopy \/ CopyLoop \/ ReadReturns

DataNext ==
  \/ \E k \in 1..MaxBuffers : \E c \in Cuts(k, MaxTotal) : Read(k, c)
  \/ Step
  \/ Rewind

(* A call that was made goes on.                                           *)
DataSpec == DataInit /\ [][DataNext]_dataVars /\ WF_dataVars(Step)

-----------------------------------------------------------------------------
(* Properties.                                                             *)

(* Reads into destinations cut in any way return the bytes of the data one *)
(* after another, each once, across the borders of the buffers of either   *)
(* side and empty buffers: where the slice begins, what copy() was given   *)
(* of it and what nread_ counts agree (any_source.hpp:284-286).            *)
OneStream == stage = "idle" => taken = [i \in 1..nread_ |-> i - 1]

(* A read() does what AnySource takes for granted of a data source: it     *)
(* fills the destination or takes all that is left, and says eof with the  *)
(* last byte (any_source.hpp:280-292).                                     *)
Any == INSTANCE AnySource WITH
  Handle <- {1}, Source <- {1}, Empty <- 0, N <- MaxBuffers + 1,
  handle <- [x \in {1} |-> 1],
  src <- [s \in {1} |->
            [kind |-> "data", length |-> DataSize, pos |-> nread_, told |-> nread_]],
  h <- 1, it <- 0, result <- 0, first <- 0, pc <- "reading"

IsDataRead ==
  [][stage = "copy" /\ stage' = "idle" => Any!DataRead(1, total, ec')]_dataVars

(* Every read() returns, and so does every copy() the program calls: the   *)
(* loops of the slice and of copy() end one after the other, also over     *)
(* empty buffers, where no byte is counted or copied (slice.hpp:164,       *)
(* copy.hpp:84, :93 must then still advance an iterator).                  *)
CallsReturn == stage # "idle" ~> stage = "idle" \/ (user = "program" /\ done)
=============================================================================
