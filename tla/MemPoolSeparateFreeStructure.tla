-------------------- MODULE MemPoolSeparateFreeStructure --------------------
(***************************************************************************)
(* MemPoolSeparateFreeStructure<T>                                         *)
(* (src/project/mem_pool_separate_free_structure.hpp): the pool that keeps *)
(* the free-list link of a block in a field of its own, next to the        *)
(* storage of the object.  A block does not record whether it is in use:   *)
(* only the pointers the callers hold do, so that the set of live blocks   *)
(* is the callers' knowledge here.  A live block keeps the stale link it   *)
(* had when it was handed out.                                             *)
(***************************************************************************)
EXTENDS Naturals

CONSTANTS NumElems,    \* num_elems, the size of the store
          Words,       \* what the leading word of a T object may hold
          Objects,     \* what the remaining bytes of a T object may hold
          ZeroObject   \* those bytes as store_(num_elems) leaves them

ASSUME NumElemsAssumption == NumElems \in Nat \ {0}
ASSUME WordsAssumption == Words \subseteq Nat
ASSUME ObjectsAssumption == ZeroObject \in Objects

VARIABLES live,             \* the blocks whose pointer a caller holds
          next_free,        \* next_free of every block
          storage,          \* the object in every block, head word and rest
          next_free_index   \* head of the free list; NumElems when empty

vars == <<live, next_free, storage, next_free_index>>

Slots == 0 .. NumElems - 1

----------------------------------------------------------------------------
\* Mutant: the constructor links every block to the one after the next.
LinksTooFar == [i \in Slots |-> i + 2]

\* The links as the constructor leaves them.
FirstLinks == [i \in Slots |-> i + 1]

\* MemPoolSeparateFreeStructure(num_elems): every block is free and links to
\* the one after it.
Init ==
    /\ live = {}
    /\ next_free = FirstLinks
    /\ storage = [i \in Slots |-> [word |-> 0, rest |-> ZeroObject]]
    /\ next_free_index = 0

\* allocate() returns nullptr.
Exhausted == next_free_index >= NumElems

\* Mutant: moves on to the next block of the store, not to the next free one.
NextInStore == next_free_index + 1

NextFree == next_free[next_free_index]

\* allocate(w, o): pops the free list; the link stays behind in the block.
Allocate(w, o) ==
    /\ ~Exhausted
    /\ next_free_index' = NextFree
    /\ storage' = [storage EXCEPT ![next_free_index] = [word |-> w, rest |-> o]]
    /\ live' = live \cup {next_free_index}
    /\ UNCHANGED next_free

\* Mutant: trusts the link that the block has kept since it was handed out.
DeallocateKeepsLink(p) ==
    /\ live' = live \ {p}
    /\ next_free_index' = p
    /\ UNCHANGED <<next_free, storage>>

\* deallocate(p): pushes the block and leaves the bytes of the object alone.
Deallocate(p) ==
    /\ live' = live \ {p}
    /\ next_free' = [next_free EXCEPT ![p] = next_free_index]
    /\ next_free_index' = p
    /\ UNCHANGED storage

\* The owner of the object at p changes it through the pointer.
Write(p, w, o) ==
    /\ storage' = [storage EXCEPT ![p] = [word |-> w, rest |-> o]]
    /\ UNCHANGED <<live, next_free, next_free_index>>

\* The callers free and write only what they obtained and have not freed.
Next ==
    \/ \E w \in Words, o \in Objects : Allocate(w, o)
    \/ \E p \in live : Deallocate(p)
    \/ \E p \in live, w \in Words, o \in Objects : Write(p, w, o)

Spec == Init /\ [][Next]_vars

----------------------------------------------------------------------------
TypeOK ==
    /\ live \subseteq Slots
    /\ next_free \in [Slots -> 0 .. NumElems]
    /\ storage \in [Slots -> [word : Words \cup {0}, rest : Objects]]
    /\ next_free_index \in 0 .. NumElems

(***************************************************************************)
(* A block that a caller holds is never handed out again before it is      *)
(* freed, although nothing in the block says that it is taken: the head of *)
(* the free list is a block nobody holds, or the sentinel                  *)
(* (mem_pool_separate_free_structure.hpp:24-43).                           *)
(***************************************************************************)
NextIsNotLive == Exhausted \/ next_free_index \notin live

(***************************************************************************)
(* The two pools are interchangeable: to the same calls this one answers   *)
(* with the same elements as MemPool, whose free list runs through the     *)
(* objects, and runs out at the same call.                                 *)
(***************************************************************************)
Intrusive == INSTANCE MemPool WITH
    is_free <- Slots \ live,
    word <- [p \in Slots |-> IF p \in live THEN storage[p].word ELSE next_free[p]],
    object <- [p \in Slots |-> storage[p].rest]

ImplementsMemPool == Intrusive!Spec
=============================================================================
