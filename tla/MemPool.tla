------------------------------ MODULE MemPool ------------------------------
(***************************************************************************)
(* MemPool<T> (src/project/mem_pool.hpp): a vector of num_elems elements   *)
(* whose free ones form a singly linked stack through indices.  The link   *)
(* is not a field of its own: it overlays the first word of the storage    *)
(* that holds the T object while the element is in use, and nothing in the *)
(* element tells a link from the leading bytes of an object.               *)
(*                                                                         *)
(* An element is modelled by three variables: membership in is_free is the *)
(* flag is_free_or_in_use_; word is the first sizeof(std::size_t) bytes of *)
(* the storage, where next_free_of() looks; object is the rest of it.      *)
(***************************************************************************)
EXTENDS Naturals, FiniteSets

CONSTANTS NumElems,    \* num_elems, the size of the store
          Words,       \* what the leading word of a T object may hold
          Objects,     \* what the remaining bytes of a T object may hold
          ZeroObject   \* those bytes as store_(num_elems) leaves them

\* The constructor aborts on an empty pool; a word holds a link or the head
\* of a T object, whose bytes are numbers too.
ASSUME NumElemsAssumption == NumElems \in Nat \ {0}
ASSUME WordsAssumption == Words \subseteq Nat
ASSUME ObjectsAssumption == ZeroObject \in Objects

VARIABLES is_free,          \* the elements whose is_free_or_in_use_ is true
          word,             \* link of a free element, head of a live object
          object,           \* the bytes of the storage behind that word
          next_free_index   \* head of the free list; NumElems when empty

vars == <<is_free, word, object, next_free_index>>

Slots == 0 .. NumElems - 1

\* The elements that hold a live object.
InUse == Slots \ is_free

----------------------------------------------------------------------------
(* MemPool(num_elems): every element is free and links to the one after it. *)
Init ==
    /\ is_free = Slots
    /\ word = [i \in Slots |-> i + 1]
    /\ object = [i \in Slots |-> ZeroObject]
    /\ next_free_index = 0

\* Mutant: gives up one element too early.
ExhaustedEarly == next_free_index >= NumElems - 1

\* allocate() returns nullptr.
Exhausted == next_free_index >= NumElems

\* Mutant: takes links for positions that count from one.
NextFreeFromOne(p) == word[p] + 1

\* The link in the storage of a free element.
next_free_of(p) == word[p]

\* allocate(w, o): pops the free list and constructs the object in place.  The
\* element, and so the pointer returned, is next_free_index.
Allocate(w, o) ==
    /\ ~Exhausted
    /\ next_free_index' = next_free_of(next_free_index)
    /\ is_free' = is_free \ {next_free_index}
    /\ word' = [word EXCEPT ![next_free_index] = w]
    /\ object' = [object EXCEPT ![next_free_index] = o]

\* Mutant: writes the link into an element that stays marked in use.
DeallocateKeepsFlag(p) ==
    /\ word' = [word EXCEPT ![p] = next_free_index]
    /\ next_free_index' = p
    /\ UNCHANGED <<is_free, object>>

\* deallocate(p): pushes the element; the link overwrites the object's first
\* word and the bytes behind it stay as they were.
Deallocate(p) ==
    /\ is_free' = is_free \cup {p}
    /\ word' = [word EXCEPT ![p] = next_free_index]
    /\ next_free_index' = p
    /\ UNCHANGED object

\* The owner of the object at p changes it through the pointer.
Write(p, w, o) ==
    /\ word' = [word EXCEPT ![p] = w]
    /\ object' = [object EXCEPT ![p] = o]
    /\ UNCHANGED <<is_free, next_free_index>>

\* The callers free and write only what they obtained and have not freed.
Next ==
    \/ \E w \in Words, o \in Objects : Allocate(w, o)
    \/ \E p \in InUse : Deallocate(p)
    \/ \E p \in InUse, w \in Words, o \in Objects : Write(p, w, o)

Spec == Init /\ [][Next]_vars

----------------------------------------------------------------------------
TypeOK ==
    /\ is_free \subseteq Slots
    /\ word \in [Slots -> Nat]
    /\ object \in [Slots -> Objects]
    /\ next_free_index \in 0 .. NumElems

\* fl lists n elements in the order the free list links them.
IsFreeList(n, fl) ==
    /\ is_free = {fl[i] : i \in 1 .. n}
    /\ \A i, j \in 1 .. n : fl[i] = fl[j] => i = j
    /\ next_free_index = IF n = 0 THEN NumElems ELSE fl[1]
    /\ \A i \in 1 .. n : word[fl[i]] = IF i = n THEN NumElems ELSE fl[i + 1]

(***************************************************************************)
(* The chain that starts at next_free_index and ends at the sentinel       *)
(* num_elems visits every element flagged free exactly once and no other:  *)
(* no element is lost by an allocate()/deallocate() sequence, and none is  *)
(* handed out while its object is live (mem_pool.hpp:31-59).               *)
(***************************************************************************)
FreeListExact ==
    LET n == Cardinality(is_free)
    IN  \E fl \in [1 .. n -> Slots] : IsFreeList(n, fl)

(***************************************************************************)
(* allocate() returns nullptr exactly when all num_elems elements are in   *)
(* use (mem_pool.hpp:33; the test ExhaustPoolReturnsNull).                 *)
(***************************************************************************)
ExhaustedIffFull == Exhausted <=> InUse = Slots

(***************************************************************************)
(* The pool implements ObjectPool: although links are written into object  *)
(* storage and object bytes are read as links, the value of every live     *)
(* object is the one its owner wrote last.                                 *)
(***************************************************************************)
Abstract == INSTANCE ObjectPool WITH
    Elements <- Slots,
    Values <- Words \X Objects,
    live <- [p \in InUse |-> <<word[p], object[p]>>]

ImplementsObjectPool == Abstract!Spec
=============================================================================
