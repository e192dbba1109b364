-------------------------- MODULE AnyBuffersProofs --------------------------
(***************************************************************************)
(* What AnyBuffers promises about memory, for any number of objects and of *)
(* iterators and every order of calls.                                     *)
(*                                                                         *)
(* Every action that moves a pointer ends with Update(), which frees what  *)
(* nobody points to.  The proof takes an action in two halves: the state   *)
(* it asks for is consistent, which is Inv without the clause that nothing *)
(* leaks; and Update() makes Inv of any consistent state.  The heap always *)
(* has a free address, because what is in use has an owner and there are   *)
(* more addresses than owners.                                             *)
(***************************************************************************)
EXTENDS AnyBuffers, FiniteSetTheorems, TLAPS

(* What the pointers of an object and of an iterator may be.               *)
GoodObject(m, s, x) ==
  s[x] # None =>
    /\ s[x] \in {x, Static} \cup Heap
    /\ m[s[x]] \in Sequence
    /\ m[s[x]].small <=> s[x] \notin Heap

GoodIterator(m, s, r) ==
  /\ r \in IteratorState
  /\ r.pos <= r.made.length
  /\ r.fresh => /\ r.owner \in Object /\ r.sp = s[r.owner] /\ r.made = m[r.sp]
  /\ ~r.made.small => r.sp \in Heap /\ r.made = m[r.sp]

(* Inv, but for what is in use without an owner.                           *)
Consistent(m, s, v, j) ==
  /\ m \in [Place -> Sequence \cup {None}]
  /\ s \in [Object -> Place \cup {None}]
  /\ v \in [Object -> Sequence \cup {None}]
  /\ j \in [Iterator -> IteratorState \cup {None}]
  /\ m[Static] = NoBuffers
  /\ \A x \in Object : s[x] # None => m[s[x]] = v[x]
  /\ \A x \in Object : GoodObject(m, s, x)
  /\ \A i \in Iterator : j[i] # None => GoodIterator(m, s, j[i])
  /\ \A p \in Heap : ~Unowned(p, s, j) => m[p] # None

-----------------------------------------------------------------------------
LEMMA NoBuffersIsSequence == NoBuffers \in Sequence
BY AnyBuffersAssumption DEF NoBuffers, Sequence

LEMMA InvConsistent ==
  Inv <=> /\ Consistent(mem, sp, value, it)
          /\ \A p \in Heap : Unowned(p, sp, it) => mem[p] = None
BY DEF Inv, TypeOK, OwnsItsSequence, Placed, IteratorsHold,
       Consistent, GoodObject, GoodIterator

(* Update() frees nothing that anybody can still reach.                    *)
LEMMA UpdateInv ==
  ASSUME NEW m, NEW s, NEW v, NEW j, Consistent(m, s, v, j),
         Update(m, s, j), value' = v
  PROVE  Inv'
<1>1. \A p \in Heap : Unowned(p, s, j) <=> mem'[p] = None
  BY AnyBuffersAssumption DEF Update, Consistent, Place
<1>2. mem' \in [Place -> Sequence \cup {None}]
  BY DEF Update, Consistent
<1>3. \A p \in Place : p \notin Heap => mem'[p] = m[p]
  BY DEF Update
<1>4. \A p \in Heap : ~Unowned(p, s, j) => mem'[p] = m[p]
  BY DEF Update, Place
<1>5. mem'[Static] = NoBuffers
  BY <1>3, AnyBuffersAssumption DEF Consistent, Place
<1>6. \A x \in Object : s[x] # None => mem'[s[x]] = m[s[x]]
  BY <1>3, <1>4 DEF Consistent, Unowned, Place
<1>7. \A i \in Iterator : j[i] # None => mem'[j[i].sp] = m[j[i].sp]
  <2> SUFFICES ASSUME NEW i \in Iterator, j[i] # None
               PROVE  mem'[j[i].sp] = m[j[i].sp]
    OBVIOUS
  <2>1. j[i].sp \in Place
    BY DEF Consistent, IteratorState
  <2> QED
    BY <1>3, <1>4, <2>1 DEF Unowned
<1>8. \A x \in Object : GoodObject(mem', s, x)
  BY <1>6 DEF Consistent, GoodObject
<1>9. \A i \in Iterator : j[i] # None => GoodIterator(mem', s, j[i])
  BY <1>7 DEF Consistent, GoodIterator
<1>10. Consistent(mem', s, v, j)
  BY <1>1, <1>2, <1>5, <1>6, <1>8, <1>9 DEF Consistent
<1>11. sp' = s /\ it' = j
  BY DEF Update
<1> QED
  BY <1>1, <1>10, <1>11
  DEF Inv, TypeOK, OwnsItsSequence, Placed, IteratorsHold,
      Consistent, GoodObject, GoodIterator

-----------------------------------------------------------------------------
(* More addresses than owners: the allocator has one to give.              *)
LEMMA HeapHasRoom ==
  ASSUME Consistent(mem, sp, value, it),
         \A p \in Heap : Unowned(p, sp, it) => mem[p] = None
  PROVE  Allocated \in Heap /\ mem[Allocated] = None
<1> DEFINE ofObjects == {sp[x] : x \in Object}
           ofIterators == {it[i].sp : i \in Iterator}
           f == [x \in Object |-> sp[x]]
           g == [i \in Iterator |-> it[i].sp]
<1>1. IsFiniteSet(ofObjects) /\ Cardinality(ofObjects) <= Cardinality(Object)
  <2>1. f \in Surjection(Object, ofObjects)
    BY DEF Surjection
  <2>2. IsFiniteSet(Object)
    BY AnyBuffersAssumption
  <2> HIDE DEF f, ofObjects
  <2> QED
    BY <2>1, <2>2, FS_Surjection
<1>2. IsFiniteSet(ofIterators) /\ Cardinality(ofIterators) <= Cardinality(Iterator)
  <2>1. g \in Surjection(Iterator, ofIterators)
    BY DEF Surjection
  <2>2. IsFiniteSet(Iterator)
    BY AnyBuffersAssumption
  <2> HIDE DEF g, ofIterators
  <2> QED
    BY <2>1, <2>2, FS_Surjection
<1>3. ASSUME \A p \in Heap : mem[p] # None
      PROVE  FALSE
  <2>1. \A p \in Heap : p \in ofObjects \cup ofIterators
    BY <1>3 DEF Unowned
  <2> HIDE DEF ofObjects, ofIterators
  <2> DEFINE owned == ofObjects \cup ofIterators
  <2>2. /\ IsFiniteSet(owned)
        /\ Cardinality(owned) = Cardinality(ofObjects) + Cardinality(ofIterators)
                                  - Cardinality(ofObjects \cap ofIterators)
    BY <1>1, <1>2, FS_Union
  <2>3. Cardinality(ofObjects \cap ofIterators) \in Nat
    BY <1>1, FS_Intersection, FS_CardinalityType
  <2>4. Heap \in SUBSET owned
    BY <2>1
  <2> HIDE DEF owned
  <2>5. Cardinality(Heap) <= Cardinality(owned)
    BY <2>2, <2>4, FS_Subset
  <2>6. /\ Cardinality(Heap) \in Nat /\ Cardinality(owned) \in Nat
        /\ Cardinality(ofObjects) \in Nat /\ Cardinality(ofIterators) \in Nat
        /\ Cardinality(Object) \in Nat /\ Cardinality(Iterator) \in Nat
    BY <1>1, <1>2, <2>2, AnyBuffersAssumption, FS_CardinalityType
  <2>7. Cardinality(Heap) > Cardinality(Object) + Cardinality(Iterator)
    BY AnyBuffersAssumption
  <2> QED
    BY <1>1, <1>2, <2>2, <2>3, <2>5, <2>6, <2>7
<1> QED
  BY <1>3 DEF Allocated

(* What becomes of the iterators of x.                                     *)
LEMMA StaleIterators ==
  ASSUME Consistent(mem, sp, value, it), NEW x \in Object
  PROVE  /\ Stale(x) \in [Iterator -> IteratorState \cup {None}]
         /\ \A i \in Iterator : Stale(x)[i] # None =>
              /\ it[i] # None
              /\ Stale(x)[i] \in IteratorState
              /\ Stale(x)[i].sp = it[i].sp /\ Stale(x)[i].pos = it[i].pos
              /\ Stale(x)[i].made = it[i].made /\ Stale(x)[i].owner = it[i].owner
              /\ Stale(x)[i].fresh => it[i].fresh /\ it[i].owner # x
<1> DEFINE made(r) == [r EXCEPT !.fresh = FALSE]
<1>1. ASSUME NEW r \in IteratorState
      PROVE  /\ made(r) \in IteratorState /\ made(r).sp = r.sp /\ made(r).pos = r.pos
             /\ made(r).made = r.made /\ made(r).owner = r.owner
             /\ made(r).fresh = FALSE
  BY DEF IteratorState
<1>2. \A i \in Iterator :
        Stale(x)[i] = IF it[i] # None /\ it[i].owner = x THEN made(it[i]) ELSE it[i]
  BY DEF Stale
<1>3. \A i \in Iterator : it[i] # None => it[i] \in IteratorState
  BY DEF Consistent
<1> HIDE DEF made
<1>4. \A i \in Iterator : Stale(x)[i] \in IteratorState \cup {None}
  BY <1>1, <1>2, <1>3
<1>5. Stale(x) \in [Iterator -> IteratorState \cup {None}]
  BY <1>4 DEF Stale
<1> QED
  BY <1>1, <1>2, <1>3, <1>5

(* construct() makes a consistent state.                                   *)
LEMMA PutInv ==
  ASSUME Inv, NEW x \in Object, NEW q \in Sequence, Put(x, q)
  PROVE  Inv'
<1> DEFINE p == IF q.small THEN x ELSE Allocated
           m == [mem EXCEPT ![p] = q]
           s == [sp EXCEPT ![x] = p]
           v == [value EXCEPT ![x] = q]
           j == Stale(x)
<1>1. /\ Consistent(mem, sp, value, it)
      /\ \A a \in Heap : Unowned(a, sp, it) => mem[a] = None
  BY InvConsistent
<1>2. /\ Allocated \in Heap /\ mem[Allocated] = None
      /\ x \notin Heap /\ Static \notin Object \cup Heap
      /\ None \notin Place /\ q # None
  BY <1>1, HeapHasRoom, AnyBuffersAssumption DEF Place
<1>3. Unowned(Allocated, sp, it)
  BY <1>1, <1>2 DEF Consistent
<1>4. /\ p \in Place /\ p # Static
      /\ p \in {x, Static} \cup Heap
      /\ q.small <=> p \notin Heap
  BY <1>2 DEF Place
<1>5. ASSUME NEW y \in Object, y # x
      PROVE  sp[y] # p
  <2>1. CASE p = x
    BY <1>1, <1>2, <1>5, <2>1 DEF Consistent, GoodObject, Place
  <2>2. CASE p = Allocated
    BY <1>3, <2>2 DEF Unowned
  <2> QED
    BY <2>1, <2>2
<1>6. \A i \in Iterator : it[i] # None /\ p \in Heap => it[i].sp # p
  BY <1>2, <1>3 DEF Unowned
<1>7. /\ j \in [Iterator -> IteratorState \cup {None}]
      /\ \A i \in Iterator : j[i] # None =>
           /\ it[i] # None
           /\ j[i] \in IteratorState
           /\ j[i].sp = it[i].sp /\ j[i].pos = it[i].pos
           /\ j[i].made = it[i].made /\ j[i].owner = it[i].owner
           /\ j[i].fresh => it[i].fresh /\ it[i].owner # x
  BY <1>1, StaleIterators
<1> HIDE DEF p, j
<1>8. m \in [Place -> Sequence \cup {None}] /\ m[p] = q /\ m[Static] = NoBuffers
  BY <1>1, <1>4 DEF Consistent
<1>9. s \in [Object -> Place \cup {None}] /\ v \in [Object -> Sequence \cup {None}]
  BY <1>1, <1>4 DEF Consistent
<1>10. ASSUME NEW y \in Object, s[y] # None
       PROVE  m[s[y]] = v[y] /\ GoodObject(m, s, y)
  <2>1. CASE y = x
    BY <1>1, <1>4, <1>8, <2>1 DEF Consistent, GoodObject
  <2>2. CASE y # x
    <3>1. s[y] = sp[y] /\ v[y] = value[y] /\ m[sp[y]] = mem[sp[y]]
      BY <1>1, <1>5, <1>10, <2>2 DEF Consistent
    <3> QED
      BY <1>1, <1>10, <3>1 DEF Consistent, GoodObject
  <2> QED
    BY <2>1, <2>2
<1>11. ASSUME NEW i \in Iterator, j[i] # None
       PROVE  GoodIterator(m, s, j[i])
  <2>1. /\ GoodIterator(mem, sp, it[i])
        /\ it[i].sp \in Place
    BY <1>1, <1>7, <1>11 DEF Consistent, GoodIterator, IteratorState
  <2>2. it[i].sp # p => m[it[i].sp] = mem[it[i].sp]
    BY <1>1, <2>1 DEF Consistent
  <2>3. j[i].fresh => /\ j[i].owner \in Object /\ j[i].sp = s[j[i].owner]
                      /\ j[i].made = m[j[i].sp]
    BY <1>1, <1>5, <1>7, <1>11, <2>1, <2>2 DEF Consistent, GoodIterator
  <2>4. ~j[i].made.small => j[i].sp \in Heap /\ j[i].made = m[j[i].sp]
    BY <1>6, <1>7, <1>11, <2>1, <2>2 DEF GoodIterator
  <2> QED
    BY <1>7, <1>11, <2>1, <2>3, <2>4 DEF GoodIterator
<1>12. ASSUME NEW a \in Heap, ~Unowned(a, s, j)
       PROVE  m[a] # None
  <2>1. CASE a = p
    BY <1>2, <1>8, <2>1
  <2>2. CASE a # p
    <3>1. ~Unowned(a, sp, it)
      BY <1>1, <1>7, <1>12, <2>2 DEF Unowned, Consistent
    <3> QED
      BY <1>1, <2>2, <3>1 DEF Consistent, Place
  <2> QED
    BY <2>1, <2>2
<1> HIDE DEF m, s, v
<1>13. Consistent(m, s, v, j)
  BY <1>7, <1>8, <1>9, <1>10, <1>11, <1>12 DEF Consistent, GoodObject
<1>14. Update(m, s, j) /\ value' = v
  BY DEF Put, m, s, v, p, j
<1> QED
  BY <1>13, <1>14, UpdateInv

(* An object that is destroyed, or that gets the static sequence.          *)
LEMMA DropInv ==
  ASSUME Inv, NEW x \in Object, NEW p \in {Static, None},
         NEW m, m = mem \/ m = [mem EXCEPT ![x] = None],
         NEW w, w = IF p = Static THEN NoBuffers ELSE None,
         Update(m, [sp EXCEPT ![x] = p], Stale(x)),
         value' = [value EXCEPT ![x] = w]
  PROVE  Inv'
<1> DEFINE s == [sp EXCEPT ![x] = p]
           v == [value EXCEPT ![x] = w]
           j == Stale(x)
<1>1. Consistent(mem, sp, value, it)
  BY InvConsistent
<1>2. /\ x \notin Heap /\ Static \notin Object \cup Heap
      /\ None \notin Place /\ Static # None /\ x # Static
      /\ NoBuffers \in Sequence /\ NoBuffers.small
  BY AnyBuffersAssumption, NoBuffersIsSequence DEF Place, NoBuffers
<1>3. /\ j \in [Iterator -> IteratorState \cup {None}]
      /\ \A i \in Iterator : j[i] # None =>
           /\ it[i] # None
           /\ j[i] \in IteratorState
           /\ j[i].sp = it[i].sp /\ j[i].pos = it[i].pos
           /\ j[i].made = it[i].made /\ j[i].owner = it[i].owner
           /\ j[i].fresh => it[i].fresh /\ it[i].owner # x
  BY <1>1, StaleIterators
<1>4. /\ m \in [Place -> Sequence \cup {None}]
      /\ \A a \in Place : a # x => m[a] = mem[a]
      /\ m[Static] = NoBuffers
  BY <1>1, <1>2 DEF Consistent, Place
<1>5. /\ s \in [Object -> Place \cup {None}] /\ v \in [Object -> Sequence \cup {None}]
      /\ s[x] = p /\ v[x] = w
      /\ \A y \in Object : y # x => s[y] = sp[y] /\ v[y] = value[y]
  BY <1>1, <1>2 DEF Consistent, Place
<1>6. \A y \in Object : y # x => sp[y] # x
  BY <1>1, <1>2 DEF Consistent, GoodObject, Place
<1> HIDE DEF s, v, j
<1>7. ASSUME NEW y \in Object, s[y] # None
      PROVE  m[s[y]] = v[y] /\ GoodObject(m, s, y)
  <2>1. CASE y = x
    BY <1>2, <1>4, <1>5, <1>7, <2>1 DEF GoodObject
  <2>2. CASE y # x
    <3>1. s[y] = sp[y] /\ v[y] = value[y] /\ m[sp[y]] = mem[sp[y]]
      BY <1>1, <1>4, <1>5, <1>6, <1>7, <2>2 DEF Consistent
    <3> QED
      BY <1>1, <1>7, <3>1 DEF Consistent, GoodObject
  <2> QED
    BY <2>1, <2>2
<1>8. ASSUME NEW i \in Iterator, j[i] # None
      PROVE  GoodIterator(m, s, j[i])
  <2>1. /\ GoodIterator(mem, sp, it[i])
        /\ it[i].sp \in Place
    BY <1>1, <1>3, <1>8 DEF Consistent, GoodIterator, IteratorState
  <2>2. it[i].sp # x => m[it[i].sp] = mem[it[i].sp]
    BY <1>4, <2>1
  <2>3. j[i].fresh => /\ j[i].owner \in Object /\ j[i].sp = s[j[i].owner]
                      /\ j[i].made = m[j[i].sp]
    BY <1>3, <1>5, <1>6, <1>8, <2>1, <2>2 DEF GoodIterator
  <2>4. ~j[i].made.small => j[i].sp \in Heap /\ j[i].made = m[j[i].sp]
    BY <1>2, <1>3, <1>8, <2>1, <2>2 DEF GoodIterator
  <2> QED
    BY <1>3, <1>8, <2>1, <2>3, <2>4 DEF GoodIterator
<1>9. ASSUME NEW a \in Heap, ~Unowned(a, s, j)
      PROVE  m[a] # None
  <2>1. CASE \E y \in Object : s[y] = a
    <3>1. PICK y \in Object : s[y] = a
      BY <2>1
    <3>2. a # p
      BY <1>2 DEF Place
    <3>3. sp[y] = a
      BY <1>5, <3>1, <3>2
    <3> QED
      BY <1>1, <1>2, <1>4, <3>3 DEF Consistent, Place, Unowned
  <2>2. CASE \E i \in Iterator : j[i] # None /\ j[i].sp = a
    <3>1. ~Unowned(a, sp, it)
      BY <1>3, <2>2 DEF Unowned
    <3> QED
      BY <1>1, <1>2, <1>4, <3>1 DEF Consistent, Place
  <2> QED
    BY <1>9, <2>1, <2>2 DEF Unowned
<1>10. Consistent(m, s, v, j)
  BY <1>3, <1>4, <1>5, <1>7, <1>8, <1>9 DEF Consistent, GoodObject
<1>11. Update(m, s, j) /\ value' = v
  BY DEF s, v, j
<1> QED
  BY <1>10, <1>11, UpdateInv

(* An iterator that is made, assigned to, moved or destroyed.              *)
LEMMA SetIteratorInv ==
  ASSUME Inv, NEW i \in Iterator, NEW r,
         \/ r = None
         \/ GoodIterator(mem, sp, r) /\ mem[r.sp] # None,
         Update(mem, sp, [it EXCEPT ![i] = r]), value' = value
  PROVE  Inv'
<1> DEFINE j == [it EXCEPT ![i] = r]
<1>1. Consistent(mem, sp, value, it)
  BY InvConsistent
<1>2. j \in [Iterator -> IteratorState \cup {None}]
  BY <1>1 DEF Consistent, GoodIterator
<1>3. \A k \in Iterator : j[k] = IF k = i THEN r ELSE it[k]
  BY <1>1 DEF Consistent
<1> HIDE DEF j
<1>4. \A k \in Iterator : j[k] # None => GoodIterator(mem, sp, j[k])
  BY <1>1, <1>3 DEF Consistent
<1>5. \A a \in Heap : ~Unowned(a, sp, j) => mem[a] # None
  BY <1>1, <1>3 DEF Consistent, Unowned
<1>6. Consistent(mem, sp, value, j)
  BY <1>1, <1>2, <1>4, <1>5 DEF Consistent
<1>7. Update(mem, sp, j)
  BY DEF j
<1> QED
  BY <1>6, <1>7, UpdateInv

(* begin() and end() of an object.                                         *)
LEMMA MadeGood ==
  ASSUME Inv, NEW x \in Object, sp[x] # None,
         NEW n \in Nat, n <= mem[sp[x]].length
  PROVE  GoodIterator(mem, sp, Made(x, n)) /\ mem[Made(x, n).sp] # None
<1>1. Consistent(mem, sp, value, it)
  BY InvConsistent
<1>2. /\ sp[x] \in Place /\ mem[sp[x]] \in Sequence
      /\ mem[sp[x]].small <=> sp[x] \notin Heap
      /\ mem[sp[x]] # None
  BY <1>1, AnyBuffersAssumption DEF Consistent, GoodObject
<1>3. n \in 0..MaxLen
  BY <1>2, AnyBuffersAssumption DEF Sequence
<1> QED
  BY <1>2, <1>3 DEF Made, GoodIterator, IteratorState

(* An iterator that reaches what made it can be copied.                    *)
LEMMA ReachedGood ==
  ASSUME Inv, NEW j \in Iterator, Reaches(j)
  PROVE  GoodIterator(mem, sp, it[j]) /\ mem[it[j].sp] # None
<1>1. Consistent(mem, sp, value, it)
  BY InvConsistent
<1>2. GoodIterator(mem, sp, it[j]) /\ mem[it[j].sp] = it[j].made
  BY <1>1 DEF Consistent, Reaches
<1>3. it[j].made # None
  BY <1>2, AnyBuffersAssumption DEF GoodIterator, IteratorState
<1> QED
  BY <1>2, <1>3

(* ++ and -- move no pointer, so that there is nothing to free.            *)
LEMMA StepInv ==
  ASSUME Inv, NEW i \in Iterator, Reaches(i), NEW n \in Nat, n <= it[i].made.length,
         it' = [it EXCEPT ![i] = [it[i] EXCEPT !.pos = n]],
         UNCHANGED <<mem, sp, value>>
  PROVE  Inv'
<1> DEFINE r == [it[i] EXCEPT !.pos = n]
<1>1. /\ Consistent(mem, sp, value, it)
      /\ \A a \in Heap : Unowned(a, sp, it) => mem[a] = None
  BY InvConsistent
<1>2. GoodIterator(mem, sp, it[i]) /\ mem[it[i].sp] # None
  BY ReachedGood
<1>3. n \in 0..MaxLen
  BY <1>2, AnyBuffersAssumption DEF GoodIterator, IteratorState, Sequence
<1>4. /\ r \in IteratorState /\ r.pos = n /\ r.sp = it[i].sp /\ r.made = it[i].made
      /\ r.owner = it[i].owner /\ r.fresh = it[i].fresh
  BY <1>2, <1>3 DEF GoodIterator, IteratorState
<1> HIDE DEF r
<1>5. GoodIterator(mem, sp, r) /\ mem[r.sp] # None
  BY <1>2, <1>4 DEF GoodIterator
<1>6. \A a \in Heap : Unowned(a, sp, [it EXCEPT ![i] = r]) => mem[a] = None
  <2> SUFFICES ASSUME NEW a \in Heap, Unowned(a, sp, [it EXCEPT ![i] = r])
               PROVE  mem[a] = None
    OBVIOUS
  <2>1. r # None
    BY <1>4, AnyBuffersAssumption
  <2>2. Unowned(a, sp, it)
    BY <1>1, <1>4, <2>1 DEF Unowned, Consistent
  <2> QED
    BY <1>1, <2>2
<1>7. Update(mem, sp, [it EXCEPT ![i] = r])
  BY <1>1, <1>6 DEF Update, Consistent, r
<1> QED
  BY <1>5, <1>7, SetIteratorInv

-----------------------------------------------------------------------------
LEMMA InitInv == Init => Inv
<1> SUFFICES ASSUME Init PROVE Inv
  OBVIOUS
<1>1. mem \in [Place -> Sequence \cup {None}]
  BY NoBuffersIsSequence DEF Init
<1>2. Static \in Place /\ (\A p \in Heap : p \in Place /\ p # Static)
  BY AnyBuffersAssumption DEF Place
<1>3. \A x \in Object : sp[x] = None
  BY DEF Init
<1>4. \A i \in Iterator : it[i] = None
  BY DEF Init
<1>5. \A p \in Heap : mem[p] = None /\ Unowned(p, sp, it)
  BY <1>2, <1>3, <1>4, AnyBuffersAssumption DEF Init, Unowned, Place
<1>6. TypeOK
  BY <1>1, <1>4, <1>5 DEF Init, TypeOK
<1>7. mem[Static] = NoBuffers
  BY <1>2 DEF Init
<1> QED
  BY <1>3, <1>4, <1>6, <1>7 DEF Inv, OwnsItsSequence, Placed, IteratorsHold

LEMMA PointToStaticInv ==
  ASSUME Inv, NEW x \in Object, PointTo(x, Static)
  PROVE  Inv'
<1> DEFINE p == Static
<1>1. mem[Static] = NoBuffers
  BY DEF Inv, Placed
<1>2. Update(mem, [sp EXCEPT ![x] = p], Stale(x)) /\ p \in {Static, None}
  BY DEF PointTo
<1>3. value' = [value EXCEPT ![x] = NoBuffers] /\ p = Static
  BY <1>1 DEF PointTo
<1> HIDE DEF p
<1> QED
  BY <1>2, <1>3, DropInv

LEMMA DestroyInv ==
  ASSUME Inv, NEW x \in Object, Destroy(x)
  PROVE  Inv'
<1> DEFINE m == [mem EXCEPT ![x] = None]
           p == None
<1>1. /\ Update(m, [sp EXCEPT ![x] = p], Stale(x)) /\ p \in {Static, None}
      /\ value' = [value EXCEPT ![x] = None] /\ m = [mem EXCEPT ![x] = None]
  BY DEF Destroy
<1>2. None = IF p = Static THEN NoBuffers ELSE None
  BY AnyBuffersAssumption
<1> HIDE DEF m, p
<1> QED
  BY <1>1, <1>2, DropInv

LEMMA CopyInv ==
  ASSUME Inv, NEW x \in Object, NEW y \in Object, sp[y] # None, Copy(x, y)
  PROVE  Inv'
<1>1. CASE sp[y] = Static
  BY <1>1, PointToStaticInv DEF Copy
<1>2. CASE sp[y] # Static
  <2>1. mem[sp[y]] \in Sequence
    BY DEF Inv, Placed
  <2> QED
    BY <1>2, <2>1, PutInv DEF Copy
<1> QED
  BY <1>1, <1>2

LEMMA NextInv == Inv /\ [Next]_vars => Inv'
<1> SUFFICES ASSUME Inv, [Next]_vars PROVE Inv'
  OBVIOUS
<1>1. ASSUME NEW x \in Object, NEW q \in Sequence, Construct(x, q)
      PROVE  Inv'
  BY <1>1, PutInv DEF Construct
<1>2. ASSUME NEW x \in Object, DefaultConstruct(x)
      PROVE  Inv'
  BY <1>2, PointToStaticInv DEF DefaultConstruct
<1>3. ASSUME NEW x \in Object, NEW y \in Object, CopyConstruct(x, y) \/ Assign(x, y)
      PROVE  Inv'
  BY <1>3, CopyInv DEF CopyConstruct, Assign
<1>4. ASSUME NEW x \in Object, Destroy(x)
      PROVE  Inv'
  BY <1>4, DestroyInv
<1>5. ASSUME NEW i \in Iterator, NEW x \in Object, Begin(i, x) \/ End(i, x)
      PROVE  Inv'
  <2>1. /\ sp[x] # None /\ value' = value
        /\ mem[sp[x]].length \in Nat
    BY <1>5, AnyBuffersAssumption DEF Begin, End, Inv, Placed, Sequence
  <2>2. PICK n \in {0, mem[sp[x]].length} :
          Update(mem, sp, [it EXCEPT ![i] = Made(x, n)])
    BY <1>5 DEF Begin, End
  <2>3. GoodIterator(mem, sp, Made(x, n)) /\ mem[Made(x, n).sp] # None
    BY <2>1, MadeGood
  <2> QED
    BY <2>1, <2>2, <2>3, SetIteratorInv
<1>6. ASSUME NEW i \in Iterator, DefaultIterator(i)
      PROVE  Inv'
  <2> DEFINE r == [sp |-> Static, pos |-> 0, made |-> NoBuffers,
                   owner |-> None, fresh |-> FALSE]
  <2>1. r \in IteratorState /\ NoBuffers.length = 0 /\ NoBuffers.small
    BY NoBuffersIsSequence, AnyBuffersAssumption DEF IteratorState, Place, NoBuffers
  <2>2. GoodIterator(mem, sp, r)
    BY <2>1 DEF GoodIterator
  <2>3. mem[r.sp] # None
    BY NoBuffersIsSequence, AnyBuffersAssumption DEF Inv, Placed
  <2>4. Update(mem, sp, [it EXCEPT ![i] = r]) /\ value' = value
    BY <1>6 DEF DefaultIterator
  <2> HIDE DEF r
  <2> QED
    BY <2>2, <2>3, <2>4, SetIteratorInv
<1>7. ASSUME NEW i \in Iterator, NEW j \in Iterator,
             CopyIterator(i, j) \/ AssignIterator(i, j)
      PROVE  Inv'
  <2>1. /\ Reaches(j) /\ value' = value
        /\ Update(mem, sp, [it EXCEPT ![i] = it[j]])
    BY <1>7 DEF CopyIterator, AssignIterator
  <2>2. GoodIterator(mem, sp, it[j]) /\ mem[it[j].sp] # None
    BY <2>1, ReachedGood
  <2> QED
    BY <2>1, <2>2, SetIteratorInv
<1>8. ASSUME NEW i \in Iterator, DestroyIterator(i)
      PROVE  Inv'
  BY <1>8, SetIteratorInv DEF DestroyIterator
<1>9. ASSUME NEW i \in Iterator, Increment(i) \/ Decrement(i)
      PROVE  Inv'
  <2>1. /\ Reaches(i) /\ UNCHANGED <<mem, sp, value>>
        /\ it[i].pos \in Nat /\ it[i].made.length \in Nat
        /\ it[i].pos <= it[i].made.length
    BY <1>9, AnyBuffersAssumption
    DEF Increment, Decrement, Reaches, Inv, TypeOK, IteratorState, Sequence
  <2>2. CASE Increment(i)
    <3> DEFINE n == it[i].pos + 1
    <3>1. n \in Nat /\ n <= it[i].made.length
      BY <2>1, <2>2 DEF Increment
    <3>2. it' = [it EXCEPT ![i] = [it[i] EXCEPT !.pos = n]]
      BY <2>2 DEF Increment
    <3> HIDE DEF n
    <3> QED
      BY <2>1, <3>1, <3>2, StepInv
  <2>3. CASE Decrement(i)
    <3> DEFINE n == it[i].pos - 1
    <3>1. n \in Nat /\ n <= it[i].made.length
      BY <2>1, <2>3 DEF Decrement
    <3>2. it' = [it EXCEPT ![i] = [it[i] EXCEPT !.pos = n]]
      BY <2>3 DEF Decrement
    <3> HIDE DEF n
    <3> QED
      BY <2>1, <3>1, <3>2, StepInv
  <2> QED
    BY <1>9, <2>2, <2>3
<1>10. CASE UNCHANGED vars
  BY <1>10
  DEF vars, Inv, TypeOK, OwnsItsSequence, Placed, IteratorsHold, Unowned
<1> QED
  BY <1>1, <1>2, <1>3, <1>4, <1>5, <1>6, <1>7, <1>8, <1>9, <1>10 DEF Next

(* No call of an any_buffers or of an iterator leaks a sequence on the     *)
(* heap, frees or overwrites one that an object still shows, or makes an   *)
(* object depend on another one (any_buffers.hpp:160-188, :243-259): for   *)
(* any number of objects and iterators.                                    *)
THEOREM AlwaysInv == Spec => []Inv
<1>1. Init => Inv
  BY InitInv
<1>2. Inv /\ [Next]_vars => Inv'
  BY NextInv
<1> QED
  BY <1>1, <1>2, PTL DEF Spec

(* An iterator whose object is as it was, or whose sequence lives on the   *)
(* heap, reaches the sequence that made it, whatever happened to all the   *)
(* others (any_buffers.hpp:458, :486-495, :533-598).          *)
THEOREM AlwaysUsableReaches == Spec => []UsableReaches
<1>1. Inv => UsableReaches
  BY DEF Inv, IteratorsHold, UsableReaches, Usable, Reaches
<1> QED
  BY <1>1, AlwaysInv, PTL

(* Usable iterators compare equal exactly when they are at the same        *)
(* element of the same sequence (any_buffers.hpp:499-509), although        *)
(* addresses are used again.                                               *)
THEOREM AlwaysEqualIsSame == Spec => []EqualIsSame
<1>1. Inv => EqualIsSame
  <2> SUFFICES ASSUME Inv,
                      NEW i \in Iterator, NEW j \in Iterator, Usable(i), Usable(j)
               PROVE  /\ Equal(i, j) => it[i].made = it[j].made /\ it[i].pos = it[j].pos
                      /\ /\ it[i].fresh /\ it[j].fresh /\ it[i].owner = it[j].owner
                         /\ it[i].pos = it[j].pos
                         => Equal(i, j)
    BY DEF EqualIsSame
  <2>1. /\ it[i].made = mem[it[i].sp] /\ it[j].made = mem[it[j].sp]
        /\ it[i].pos \in Nat /\ it[i].pos <= it[i].made.length
        /\ it[j].pos \in Nat /\ it[j].pos <= it[j].made.length
    BY DEF Inv, IteratorsHold, TypeOK, IteratorState, Usable
  <2>2. it[i].sp = Static => it[i].made.length = 0
    BY <2>1 DEF Inv, Placed, NoBuffers
  <2>3. Equal(i, j) => it[i].made = it[j].made /\ it[i].pos = it[j].pos
    BY <2>1, <2>2 DEF Equal
  <2>4. it[i].fresh /\ it[j].fresh /\ it[i].owner = it[j].owner => it[i].sp = it[j].sp
    BY DEF Inv, IteratorsHold, Usable
  <2> QED
    BY <2>3, <2>4 DEF Equal
<1> QED
  BY <1>1, AlwaysInv, PTL
=============================================================================
