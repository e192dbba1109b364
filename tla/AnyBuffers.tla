----------------------------- MODULE AnyBuffers -----------------------------
(***************************************************************************)
(* any_buffers: type-erased buffer sequences and their iterators.          *)
(*                                                                         *)
(* A sequence whose impl<T> fits lives in the storage_ of the any_buffers  *)
(* object itself, under a shared_ptr whose deleter does nothing; any other *)
(* lives on the heap, shared with its iterators.  An any_buffers without a *)
(* sequence points to a static, empty one.  An iterator holds the same     *)
(* pointer, through which it dispatches everything it does, its own        *)
(* destruction included.                                                   *)
(*                                                                         *)
(* Memory is a function from places to the sequence that was last put      *)
(* there.  The iterator of the wrapped sequence is its position, which is  *)
(* what it is for both kinds of impl: one that keeps an iterator of the    *)
(* sequence, and one that counts and walks from begin() at each *it.       *)
(***************************************************************************)
EXTENDS FiniteSets, Naturals

CONSTANTS
  Object,        \* the any_buffers objects of the program, with storage_
  Iterator,      \* the const_iterator objects of the program
  Heap,          \* the addresses the allocator has
  Static,        \* the static impl of a default-constructed any_buffers
  None,          \* not constructed; nothing there
  MaxLen         \* the most buffers a sequence has

(* A buffer sequence: whether its impl fits in storage_, and its length.   *)
Sequence == [small : BOOLEAN, length : 0..MaxLen]

Place == Object \cup Heap \cup {Static}

(* An iterator: its sp_ and position, the sequence and the object whose    *)
(* begin() or end() made it, and whether that object is still as it was.   *)
IteratorState ==
  [sp : Place, pos : 0..MaxLen, made : Sequence,
   owner : Object \cup {None}, fresh : BOOLEAN]

ASSUME AnyBuffersAssumption ==
  /\ MaxLen \in Nat
  /\ IsFiniteSet(Heap) /\ IsFiniteSet(Object) /\ IsFiniteSet(Iterator)
  /\ Cardinality(Heap) > Cardinality(Object) + Cardinality(Iterator)
  /\ Object \cap Heap = {} /\ {Static, None} \cap (Object \cup Heap) = {}
  /\ Static # None /\ None \notin Sequence \cup IteratorState

NoBuffers == [small |-> TRUE, length |-> 0]

VARIABLES
  mem,           \* the sequence at each place, or None
  sp,            \* sp_ of each any_buffers, or None
  value,         \* the sequence each any_buffers was given
  it             \* the state of each iterator, or None

vars == <<mem, sp, value, it>>

-----------------------------------------------------------------------------
Init ==
  /\ mem = [p \in Place |-> IF p = Static THEN NoBuffers ELSE None]
  /\ sp = [x \in Object |-> None]
  /\ value = [x \in Object |-> None]
  /\ it = [i \in Iterator |-> None]

(* MUTANT of Unowned: iterators do not share ownership of the sequence.    *)
UnownedByObjects(p, ptrs, its) == \A x \in Object : ptrs[x] # p

(* Does no shared_ptr point to p?                                          *)
Unowned(p, ptrs, its) ==
  /\ \A x \in Object : ptrs[x] # p
  /\ \A i \in Iterator : its[i] # None => its[i].sp # p

(* MUTANT of Update: the heap is pointed to with the deleter of storage_.  *)
UpdateLeaks(m, ptrs, its) == sp' = ptrs /\ it' = its /\ mem' = m

(* The new pointers and memory, once what nobody points to is freed.       *)
Update(m, ptrs, its) ==
  /\ sp' = ptrs
  /\ it' = its
  /\ mem' = [p \in Place |->
               IF p \in Heap /\ Unowned(p, ptrs, its) THEN None ELSE m[p]]

Allocated == CHOOSE p \in Heap : mem[p] = None

(* The iterators, when the object x is destroyed or assigned to.           *)
Stale(x) ==
  [i \in Iterator |->
     IF it[i] # None /\ it[i].owner = x THEN [it[i] EXCEPT !.fresh = FALSE]
                                        ELSE it[i]]

(* construct(): q goes to the storage of x or to the heap.  What was in    *)
(* the storage is not destroyed, only overwritten.                         *)
Put(x, q) ==
  LET p == IF q.small THEN x ELSE Allocated IN
  /\ Update([mem EXCEPT ![p] = q], [sp EXCEPT ![x] = p], Stale(x))
  /\ value' = [value EXCEPT ![x] = q]

(* sp_ becomes one that exists; the storage of x is left as it is.         *)
PointTo(x, p) ==
  /\ Update(mem, [sp EXCEPT ![x] = p], Stale(x))
  /\ value' = [value EXCEPT ![x] = mem[p]]

(* any_buffers(buffers)                                                    *)
Construct(x, q) == sp[x] = None /\ Put(x, q)

(* any_buffers()                                                           *)
DefaultConstruct(x) == sp[x] = None /\ PointTo(x, Static)

(* MUTANT of Copy: every copy shares the sequence it copies.               *)
CopyShares(x, y) == PointTo(x, sp[y])

(* other.sp_->copy(): the copy has a sequence of its own, unless there is  *)
(* none to copy.                                                           *)
Copy(x, y) == IF sp[y] = Static THEN PointTo(x, Static) ELSE Put(x, mem[sp[y]])

CopyConstruct(x, y) == sp[x] = None /\ sp[y] # None /\ Copy(x, y)

Assign(x, y) == x # y /\ sp[x] # None /\ sp[y] # None /\ Copy(x, y)

(* ~any_buffers(): the storage is gone with the object.                    *)
Destroy(x) ==
  /\ sp[x] # None
  /\ Update([mem EXCEPT ![x] = None], [sp EXCEPT ![x] = None], Stale(x))
  /\ value' = [value EXCEPT ![x] = None]

-----------------------------------------------------------------------------
(* The sequence that made the state of the iterator i is the one that a    *)
(* call through sp_ reaches.  A call through any other has no defined      *)
(* outcome, and the program does not make it.                              *)
Reaches(i) == it[i] # None /\ mem[it[i].sp] = it[i].made

Made(x, n) ==
  [sp |-> sp[x], pos |-> n, made |-> mem[sp[x]], owner |-> x, fresh |-> TRUE]

(* begin() and end() of an any_buffers.                                    *)
Begin(i, x) ==
  /\ it[i] = None /\ sp[x] # None
  /\ Update(mem, sp, [it EXCEPT ![i] = Made(x, 0)])
  /\ UNCHANGED value

End(i, x) ==
  /\ it[i] = None /\ sp[x] # None
  /\ Update(mem, sp, [it EXCEPT ![i] = Made(x, mem[sp[x]].length)])
  /\ UNCHANGED value

(* const_iterator(): that of an empty any_buffers, already destroyed.      *)
DefaultIterator(i) ==
  /\ it[i] = None
  /\ Update(mem, sp, [it EXCEPT ![i] = [sp |-> Static, pos |-> 0,
               made |-> NoBuffers, owner |-> None, fresh |-> FALSE]])
  /\ UNCHANGED value

CopyIterator(i, j) ==
  /\ it[i] = None /\ Reaches(j)
  /\ Update(mem, sp, [it EXCEPT ![i] = it[j]])
  /\ UNCHANGED value

(* MUTANT of AssignIterator: the state is copied, sp_ is forgotten.        *)
AssignIteratorKeepsSp(i, j) ==
  /\ i # j /\ Reaches(i) /\ Reaches(j)
  /\ Update(mem, sp, [it EXCEPT ![i] = [it[j] EXCEPT !.sp = it[i].sp]])
  /\ UNCHANGED value

(* The old state is destroyed through the old sp_, then both are copied.   *)
AssignIterator(i, j) ==
  /\ i # j /\ Reaches(i) /\ Reaches(j)
  /\ Update(mem, sp, [it EXCEPT ![i] = it[j]])
  /\ UNCHANGED value

(* ~const_iterator(): the state through sp_, then sp_.                     *)
DestroyIterator(i) ==
  /\ Reaches(i)
  /\ Update(mem, sp, [it EXCEPT ![i] = None])
  /\ UNCHANGED value

(* ++ and --, where the documentation allows them.                         *)
Increment(i) ==
  /\ Reaches(i) /\ it[i].pos < it[i].made.length
  /\ it' = [it EXCEPT ![i].pos = @ + 1]
  /\ UNCHANGED <<mem, sp, value>>

Decrement(i) ==
  /\ Reaches(i) /\ it[i].pos > 0
  /\ it' = [it EXCEPT ![i].pos = @ - 1]
  /\ UNCHANGED <<mem, sp, value>>

(* operator==                                                              *)
Equal(i, j) ==
  /\ it[i].sp = it[j].sp
  /\ it[i].sp = Static \/ it[i].pos = it[j].pos

Next ==
  \/ \E x \in Object :
       \/ \E q \in Sequence : Construct(x, q)
       \/ DefaultConstruct(x)
       \/ \E y \in Object : CopyConstruct(x, y) \/ Assign(x, y)
       \/ Destroy(x)
  \/ \E i \in Iterator :
       \/ \E x \in Object : Begin(i, x) \/ End(i, x)
       \/ DefaultIterator(i)
       \/ \E j \in Iterator : CopyIterator(i, j) \/ AssignIterator(i, j)
       \/ DestroyIterator(i) \/ Increment(i) \/ Decrement(i)

Spec == Init /\ [][Next]_vars
-----------------------------------------------------------------------------
(* Properties.                                                             *)

(* The types of the variables; a place of the heap is in use exactly while *)
(* someone points to it (shared_ptr, any_buffers.hpp:188, :622).           *)
TypeOK ==
  /\ mem \in [Place -> Sequence \cup {None}]
  /\ sp \in [Object -> Place \cup {None}]
  /\ value \in [Object -> Sequence \cup {None}]
  /\ it \in [Iterator -> IteratorState \cup {None}]
  /\ \A i \in Iterator : it[i] # None => it[i].pos <= it[i].made.length
  /\ \A p \in Heap : mem[p] = None <=> Unowned(p, sp, it)

(* An any_buffers shows the sequence it was given or copied, wherever it   *)
(* lives, whatever becomes of the object it was copied from and of all the *)
(* other ones (any_buffers.hpp:74-90, :243-259).                           *)
OwnsItsSequence == \A x \in Object : sp[x] # None => mem[sp[x]] = value[x]

(* Nobody points into the storage of another object: what fits is in the   *)
(* object's own storage or is the static one, what does not is on the heap *)
(* (any_buffers.hpp:160-188).                                              *)
Placed ==
  /\ mem[Static] = NoBuffers
  /\ \A x \in Object : sp[x] # None =>
       /\ sp[x] \in {x, Static} \cup Heap
       /\ mem[sp[x]] \in Sequence
       /\ mem[sp[x]].small <=> sp[x] \notin Heap

(* An iterator points where its object does until that is assigned to or   *)
(* destroyed, and one on the heap keeps what made it.                      *)
IteratorsHold ==
  \A i \in Iterator : it[i] # None =>
    /\ it[i].fresh => /\ it[i].owner \in Object
                      /\ it[i].sp = sp[it[i].owner]
                      /\ it[i].made = mem[it[i].sp]
    /\ ~it[i].made.small => /\ it[i].sp \in Heap
                            /\ it[i].made = mem[it[i].sp]

(* All of it, as one invariant of memory (any_buffers.hpp:160-188,         *)
(* :243-259): nothing leaks, and nothing is freed or overwritten under an  *)
(* object, or under an iterator of a sequence on the heap.                 *)
Inv == TypeOK /\ OwnsItsSequence /\ Placed /\ IteratorsHold

(* What an iterator may rely on: that its object has neither been assigned *)
(* to nor destroyed, or that the sequence lives on the heap, where the     *)
(* iterator keeps it alive.                                                *)
Usable(i) == it[i] # None /\ (it[i].fresh \/ ~it[i].made.small)

(* A usable iterator reaches the sequence that made it, so that it can be  *)
(* stepped, read, copied, assigned to and destroyed (any_buffers.hpp:458,  *)
(* :486-495, :533-598); one of a sequence on the heap can even when the    *)
(* any_buffers is gone.                                                    *)
UsableReaches == \A i \in Iterator : Usable(i) => Reaches(i)

(* Iterators compare equal when they are at the same element of the same   *)
(* sequence, and only then (any_buffers.hpp:499-509), although addresses   *)
(* are compared, and storage and heap addresses are used again.            *)
EqualIsSame ==
  \A i, j \in Iterator : Usable(i) /\ Usable(j) =>
    /\ Equal(i, j) => it[i].made = it[j].made /\ it[i].pos = it[j].pos
    /\ /\ it[i].fresh /\ it[j].fresh /\ it[i].owner = it[j].owner
       /\ it[i].pos = it[j].pos
       => Equal(i, j)

=============================================================================
