--------------------------- MODULE MemPoolProofs ---------------------------
(***************************************************************************)
(* MemPool is correct for every pool size and every object type.  The      *)
(* inductive invariant is TypeOK /\ FreeListExact: the witness of its      *)
(* existential loses its first entry when allocate() pops and gains one at *)
(* the front when deallocate() pushes.                                     *)
(***************************************************************************)
EXTENDS MemPool, FiniteSetTheorems, TLAPS

IInv == TypeOK /\ FreeListExact

\* The flags of any reachable state describe a finite set of elements.
LEMMA FreeIsFinite ==
    ASSUME NEW F \in SUBSET Slots
    PROVE  /\ IsFiniteSet(F)
           /\ Cardinality(F) \in Nat
  <1>1. IsFiniteSet(Slots)
    BY NumElemsAssumption, FS_Interval DEF Slots
  <1>2. IsFiniteSet(F)
    BY <1>1, FS_Subset
  <1> QED
    BY <1>2, FS_CardinalityType

----------------------------------------------------------------------------
\* The constructor's links 1, 2, ..., num_elems chain all elements.
LEMMA InitIInv == Init => IInv
  <1> SUFFICES ASSUME Init PROVE IInv
    OBVIOUS
  <1>1. TypeOK
    BY NumElemsAssumption, ObjectsAssumption DEF Init, TypeOK, Slots
  <1>2. Cardinality(is_free) = NumElems
    BY NumElemsAssumption, FS_Interval DEF Init, Slots
  <1>3. FreeListExact
    <2> DEFINE fl == [i \in 1 .. NumElems |-> i - 1]
    <2>1. fl \in [1 .. NumElems -> Slots]
      BY NumElemsAssumption DEF Slots
    <2>2. is_free = {fl[i] : i \in 1 .. NumElems}
      <3>1. ASSUME NEW s \in Slots PROVE \E i \in 1 .. NumElems : fl[i] = s
        <4>1. s + 1 \in 1 .. NumElems /\ fl[s + 1] = s
          BY <3>1, NumElemsAssumption DEF Slots
        <4> QED
          BY <4>1
      <3> QED
        BY <2>1, <3>1 DEF Init
    <2>3. IsFreeList(NumElems, fl)
      BY <2>1, <2>2, NumElemsAssumption DEF Init, IsFreeList, Slots
    <2> QED
      BY <1>2, <2>1, <2>3 DEF FreeListExact
  <1> QED
    BY <1>1, <1>3 DEF IInv

\* Unless the list is empty, its head is an element that is flagged free.
LEMMA HeadIsFree ==
    ASSUME IInv, ~Exhausted
    PROVE  next_free_index \in is_free
  <1> DEFINE n == Cardinality(is_free)
  <1>1. n \in Nat
    BY FreeIsFinite DEF IInv, TypeOK
  <1>2. PICK fl \in [1 .. n -> Slots] : IsFreeList(n, fl)
    BY DEF IInv, FreeListExact
  <1> HIDE DEF n
  <1>3. n # 0
    BY <1>2, NumElemsAssumption DEF IsFreeList, Exhausted
  <1> QED
    BY <1>1, <1>2, <1>3 DEF IsFreeList

\* The element allocate() hands out is flagged free, and popping it leaves a
\* list of the others.
LEMMA AllocateIInv ==
    ASSUME IInv, NEW w \in Words, NEW o \in Objects, Allocate(w, o)
    PROVE  /\ next_free_index \in is_free
           /\ IInv'
  <1>0. PICK n : n = Cardinality(is_free)
    OBVIOUS
  <1>1. TypeOK /\ n \in Nat /\ IsFiniteSet(is_free)
    BY <1>0, FreeIsFinite DEF IInv, TypeOK
  <1>2. PICK fl \in [1 .. n -> Slots] : IsFreeList(n, fl)
    BY <1>0 DEF IInv, FreeListExact
  <1>3. n # 0
    BY <1>1, <1>2, NumElemsAssumption DEF IsFreeList, Allocate, next_free_of, Exhausted
  <1>4. 1 \in 1 .. n /\ next_free_index = fl[1] /\ next_free_index \in Slots
    BY <1>1, <1>2, <1>3 DEF IsFreeList
  <1>5. next_free_index \in is_free
    BY <1>2, <1>4 DEF IsFreeList
  <1>6. next_free_index' \in 0 .. NumElems
    <2>1. word[fl[1]] = NumElems \/ (n # 1 /\ word[fl[1]] = fl[2])
      BY <1>1, <1>2, <1>3 DEF IsFreeList
    <2>2. n # 1 => fl[2] \in Slots
      BY <1>1, <1>2, <1>3
    <2> QED
      BY <1>4, <2>1, <2>2, NumElemsAssumption DEF Allocate, next_free_of, Slots
  <1>7. TypeOK'
    BY <1>1, <1>4, <1>6, WordsAssumption DEF TypeOK, Allocate, next_free_of
  <1>8. Cardinality(is_free') = n - 1
    BY <1>0, <1>1, <1>5, FS_RemoveElement DEF Allocate, next_free_of
  <1>9. FreeListExact'
    <2> DEFINE gl == [i \in 1 .. n - 1 |-> fl[i + 1]]
    <2>1. gl \in [1 .. n - 1 -> Slots]
      BY <1>1, <1>2, <1>3
    <2>2. is_free' = {gl[i] : i \in 1 .. n - 1}
      <3>1. ASSUME NEW s \in is_free, s # fl[1]
            PROVE  \E i \in 1 .. n - 1 : gl[i] = s
        <4>1. PICK j \in 1 .. n : s = fl[j]
          BY <1>2, <3>1 DEF IsFreeList
        <4>2. j - 1 \in 1 .. n - 1 /\ gl[j - 1] = s
          BY <1>1, <3>1, <4>1
        <4> QED
          BY <4>2
      <3>2. ASSUME NEW i \in 1 .. n - 1
            PROVE  gl[i] \in is_free /\ gl[i] # fl[1]
        <4>1. i + 1 \in 1 .. n /\ 1 \in 1 .. n /\ i + 1 # 1 /\ gl[i] = fl[i + 1]
          BY <1>1, <1>3
        <4> QED
          BY <1>2, <4>1 DEF IsFreeList
      <3> QED
        BY <1>4, <3>1, <3>2 DEF Allocate, next_free_of
    <2>3. \A i, j \in 1 .. n - 1 : gl[i] = gl[j] => i = j
      <3> SUFFICES ASSUME NEW i \in 1 .. n - 1, NEW j \in 1 .. n - 1, gl[i] = gl[j]
                   PROVE  i = j
        OBVIOUS
      <3>1. i + 1 \in 1 .. n /\ j + 1 \in 1 .. n /\ fl[i + 1] = fl[j + 1]
        BY <1>1, <1>3
      <3>2. i + 1 = j + 1
        BY <1>2, <3>1 DEF IsFreeList
      <3> QED
        BY <1>1, <3>2
    <2>4. next_free_index' = IF n - 1 = 0 THEN NumElems ELSE gl[1]
      BY <1>1, <1>2, <1>3, <1>4 DEF IsFreeList, Allocate, next_free_of
    <2>5. ASSUME NEW i \in 1 .. n - 1
          PROVE  word'[gl[i]] = IF i = n - 1 THEN NumElems ELSE gl[i + 1]
      <3>1. i + 1 \in 1 .. n /\ 1 \in 1 .. n /\ i + 1 # 1 /\ gl[i] = fl[i + 1]
        BY <1>1, <1>3
      <3>2. fl[i + 1] # fl[1] /\ fl[i + 1] \in Slots
        BY <1>2, <3>1 DEF IsFreeList
      <3>3. word'[gl[i]] = word[fl[i + 1]]
        BY <1>1, <1>4, <3>1, <3>2 DEF Allocate, next_free_of, TypeOK
      <3>4. word[fl[i + 1]] = IF i + 1 = n THEN NumElems ELSE fl[i + 1 + 1]
        BY <1>2, <3>1 DEF IsFreeList
      <3>5. i # n - 1 => gl[i + 1] = fl[i + 1 + 1]
        BY <1>1, <1>3
      <3> QED
        BY <1>1, <3>3, <3>4, <3>5
    <2>6. IsFreeList(n - 1, gl)'
      BY <1>1, <2>2, <2>3, <2>4, <2>5 DEF IsFreeList
    <2> QED
      BY <1>8, <2>1, <2>6 DEF FreeListExact
  <1> QED
    BY <1>5, <1>7, <1>9 DEF IInv

\* Pushing an element in use puts it in front of the list.
LEMMA DeallocateIInv ==
    ASSUME IInv, NEW p \in InUse, Deallocate(p)
    PROVE  IInv'
  <1>0. PICK n : n = Cardinality(is_free)
    OBVIOUS
  <1>1. TypeOK /\ n \in Nat /\ IsFiniteSet(is_free) /\ p \in Slots /\ p \notin is_free
    BY <1>0, FreeIsFinite DEF IInv, TypeOK, InUse
  <1>2. PICK fl \in [1 .. n -> Slots] : IsFreeList(n, fl)
    BY <1>0 DEF IInv, FreeListExact
  <1>3. TypeOK'
    BY <1>1, NumElemsAssumption DEF TypeOK, Deallocate, Slots
  <1>4. Cardinality(is_free') = n + 1
    BY <1>0, <1>1, FS_AddElement DEF Deallocate
  <1>5. FreeListExact'
    <2> DEFINE gl == [i \in 1 .. n + 1 |-> IF i = 1 THEN p ELSE fl[i - 1]]
    <2>1. gl \in [1 .. n + 1 -> Slots]
      BY <1>1, <1>2
    <2>2. ASSUME NEW i \in 1 .. n + 1, i # 1
          PROVE  /\ i - 1 \in 1 .. n
                 /\ gl[i] = fl[i - 1]
                 /\ gl[i] \in is_free
                 /\ gl[i] # p
      <3>1. i - 1 \in 1 .. n /\ gl[i] = fl[i - 1]
        BY <1>1, <2>2
      <3> QED
        BY <1>1, <1>2, <3>1 DEF IsFreeList
    <2>3. is_free' = {gl[i] : i \in 1 .. n + 1}
      <3>1. ASSUME NEW s \in is_free PROVE \E i \in 1 .. n + 1 : gl[i] = s
        <4>1. PICK j \in 1 .. n : s = fl[j]
          BY <1>2, <3>1 DEF IsFreeList
        <4>2. j + 1 \in 1 .. n + 1 /\ gl[j + 1] = s
          BY <1>1, <4>1
        <4> QED
          BY <4>2
      <3>2. 1 \in 1 .. n + 1 /\ gl[1] = p
        BY <1>1
      <3>3. \A i \in 1 .. n + 1 : gl[i] \in is_free \cup {p}
        BY <2>2, <3>2
      <3> HIDE DEF gl
      <3> QED
        BY <3>1, <3>2, <3>3 DEF Deallocate
    <2>4. \A i, j \in 1 .. n + 1 : gl[i] = gl[j] => i = j
      <3> SUFFICES ASSUME NEW i \in 1 .. n + 1, NEW j \in 1 .. n + 1, gl[i] = gl[j]
                   PROVE  i = j
        OBVIOUS
      <3>1. CASE i = 1 \/ j = 1
        BY <1>1, <2>2, <3>1
      <3>2. CASE i # 1 /\ j # 1
        <4>1. i - 1 = j - 1
          BY <1>2, <2>2, <3>2 DEF IsFreeList
        <4> QED
          BY <4>1
      <3> QED
        BY <3>1, <3>2
    <2>5. next_free_index' = gl[1]
      BY <1>1 DEF Deallocate
    <2>6. ASSUME NEW i \in 1 .. n + 1
          PROVE  word'[gl[i]] = IF i = n + 1 THEN NumElems ELSE gl[i + 1]
      <3>1. CASE i = 1
        <4>1. word'[gl[i]] = next_free_index
          BY <1>1, <3>1 DEF Deallocate, TypeOK
        <4>2. next_free_index = IF n = 0 THEN NumElems ELSE fl[1]
          BY <1>2 DEF IsFreeList
        <4>3. n # 0 => gl[2] = fl[1]
          BY <1>1
        <4> QED
          BY <1>1, <3>1, <4>1, <4>2, <4>3
      <3>2. CASE i # 1
        <4>1. word'[gl[i]] = word[fl[i - 1]]
          BY <1>1, <2>1, <2>2, <3>2 DEF Deallocate, TypeOK
        <4>2. word[fl[i - 1]] = IF i - 1 = n THEN NumElems ELSE fl[i - 1 + 1]
          BY <1>2, <2>2, <3>2 DEF IsFreeList
        <4>3. i # n + 1 => gl[i + 1] = fl[i]
          BY <1>1, <3>2
        <4> QED
          BY <1>1, <3>2, <4>1, <4>2, <4>3
      <3> QED
        BY <3>1, <3>2
    <2>7. IsFreeList(n + 1, gl)'
      <3> HIDE DEF gl
      <3> QED
        BY <1>1, <2>3, <2>4, <2>5, <2>6 DEF IsFreeList
    <2> QED
      BY <1>4, <2>1, <2>7 DEF FreeListExact
  <1> QED
    BY <1>3, <1>5 DEF IInv

\* The owner of a live object cannot disturb the links of free elements.
LEMMA WriteIInv ==
    ASSUME IInv, NEW p \in InUse, NEW w \in Words, NEW o \in Objects, Write(p, w, o)
    PROVE  IInv'
  <1>0. PICK n : n = Cardinality(is_free)
    OBVIOUS
  <1>1. TypeOK /\ n \in Nat /\ p \in Slots /\ p \notin is_free
    BY <1>0, FreeIsFinite DEF IInv, TypeOK, InUse
  <1>2. PICK fl \in [1 .. n -> Slots] : IsFreeList(n, fl)
    BY <1>0 DEF IInv, FreeListExact
  <1>3. TypeOK' /\ Cardinality(is_free') = n
    BY <1>0, <1>1, WordsAssumption DEF TypeOK, Write
  <1>4. \A i \in 1 .. n : word'[fl[i]] = word[fl[i]]
    BY <1>1, <1>2 DEF Write, TypeOK, IsFreeList
  <1>5. IsFreeList(n, fl)'
    BY <1>2, <1>4 DEF IsFreeList, Write
  <1> QED
    BY <1>2, <1>3, <1>5 DEF IInv, FreeListExact

\* Every call, and whatever owners write, keeps the free list right.
LEMMA NextIInv == IInv /\ [Next]_vars => IInv'
  <1> SUFFICES ASSUME IInv, [Next]_vars PROVE IInv'
    OBVIOUS
  <1>1. CASE \E w \in Words, o \in Objects : Allocate(w, o)
    BY <1>1, AllocateIInv
  <1>2. CASE \E p \in InUse : Deallocate(p)
    BY <1>2, DeallocateIInv
  <1>3. CASE \E p \in InUse, w \in Words, o \in Objects : Write(p, w, o)
    BY <1>3, WriteIInv
  <1>4. CASE UNCHANGED vars
    BY <1>4 DEF vars, IInv, TypeOK, FreeListExact, IsFreeList
  <1> QED
    BY <1>1, <1>2, <1>3, <1>4 DEF Next

\* The invariant of all the theorems below.
LEMMA AlwaysIInv == Spec => []IInv
  BY InitIInv, NextIInv, PTL DEF Spec

\* The head of the free list tells whether anything is free.
LEMMA FullIffExhausted == IInv => ExhaustedIffFull
  <1> SUFFICES ASSUME IInv PROVE ExhaustedIffFull
    OBVIOUS
  <1> DEFINE n == Cardinality(is_free)
  <1>1. TypeOK /\ n \in Nat
    BY FreeIsFinite DEF IInv, TypeOK
  <1>2. PICK fl \in [1 .. n -> Slots] : IsFreeList(n, fl)
    BY DEF IInv, FreeListExact
  <1> HIDE DEF n
  <1>3. CASE n = 0
    BY <1>1, <1>2, <1>3, NumElemsAssumption DEF IsFreeList, ExhaustedIffFull, Exhausted, InUse
  <1>4. CASE n # 0
    <2>1. fl[1] \in is_free /\ fl[1] \in Slots /\ next_free_index = fl[1]
      BY <1>1, <1>2, <1>4 DEF IsFreeList
    <2> QED
      BY <2>1, NumElemsAssumption DEF ExhaustedIffFull, Exhausted, InUse, Slots
  <1> QED
    BY <1>3, <1>4

(***************************************************************************)
(* next_free_index is an element or the sentinel, although it is loaded    *)
(* from words that may hold the bytes of an object (mem_pool.hpp:36-40).   *)
(***************************************************************************)
THEOREM PoolTypes == Spec => []TypeOK
  BY AlwaysIInv, PTL DEF IInv

(***************************************************************************)
(* For every pool size, the free list of MemPool holds each free element   *)
(* exactly once and nothing else, after any sequence of calls.             *)
(***************************************************************************)
THEOREM FreeListCorrect == Spec => []FreeListExact
  BY AlwaysIInv, PTL DEF IInv

(***************************************************************************)
(* allocate() fails only when num_elems objects are live, and always does  *)
(* then.                                                                   *)
(***************************************************************************)
THEOREM ExhaustionCorrect == Spec => []ExhaustedIffFull
  BY AlwaysIInv, FullIffExhausted, PTL

(***************************************************************************)
(* MemPool implements ObjectPool: overlaying the links on object storage   *)
(* never shows in the value of a live object.                              *)
(***************************************************************************)
THEOREM PoolImplementsObjectPool == Spec => ImplementsObjectPool
  <1> DEFINE val(p) == <<word[p], object[p]>>
             lv == [p \in InUse |-> val(p)]
  <1>1. Init => Abstract!Init
    BY DEF Init, Abstract!Init, InUse
  <1>2. IInv /\ [Next]_vars => [Abstract!Next]_lv
    <2> SUFFICES ASSUME IInv, [Next]_vars PROVE Abstract!Next \/ lv' = lv
      BY DEF InUse
    <2>0. TypeOK
      BY DEF IInv
    <2>1. ASSUME NEW w \in Words, NEW o \in Objects, Allocate(w, o)
          PROVE  Abstract!Next
      <3> DEFINE e == next_free_index
      <3>1. e \in is_free /\ e \in Slots
        BY <2>0, <2>1, AllocateIInv DEF TypeOK
      <3>2. InUse' = InUse \cup {e}
        BY <3>1, <2>1 DEF InUse, Allocate
      <3>3. \A x \in InUse' : <<word'[x], object'[x]>> = IF x = e THEN <<w, o>> ELSE lv[x]
        BY <2>0, <2>1, <3>1, <3>2 DEF Allocate, TypeOK, InUse
      <3>4. Abstract!Allocate(e, <<w, o>>)
        BY <3>1, <3>2, <3>3 DEF Abstract!Allocate, InUse
      <3> QED
        BY <3>1, <3>4 DEF Abstract!Next
    <2>2. ASSUME NEW p \in InUse, Deallocate(p)
          PROVE  Abstract!Next
      <3>1. InUse' = InUse \ {p}
        BY <2>2 DEF InUse, Deallocate
      <3>2. \A x \in InUse' : <<word'[x], object'[x]>> = lv[x]
        BY <2>0, <2>2, <3>1 DEF Deallocate, TypeOK, InUse
      <3>3. Abstract!Deallocate(p)
        BY <3>1, <3>2 DEF Abstract!Deallocate
      <3> QED
        BY <3>3 DEF Abstract!Next, InUse
    <2>3. ASSUME NEW p \in InUse, NEW w \in Words, NEW o \in Objects, Write(p, w, o)
          PROVE  Abstract!Next
      <3>1. InUse' = InUse
        BY <2>3 DEF InUse, Write
      <3>2. \A x \in InUse : <<word'[x], object'[x]>> = IF x = p THEN <<w, o>> ELSE lv[x]
        BY <2>0, <2>3 DEF Write, TypeOK, InUse
      <3>3. Abstract!Write(p, <<w, o>>)
        BY <3>1, <3>2 DEF Abstract!Write
      <3> QED
        BY <3>3 DEF Abstract!Next, InUse
    <2>4. CASE UNCHANGED vars
      BY <2>4 DEF vars, InUse
    <2> QED
      BY <2>1, <2>2, <2>3, <2>4 DEF Next
  <1>3. Spec => []IInv
    BY InitIInv, NextIInv, PTL DEF Spec
  <1> QED
    BY <1>1, <1>2, <1>3, PTL DEF Spec, ImplementsObjectPool, Abstract!Spec
=============================================================================
