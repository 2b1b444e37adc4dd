----------------------- MODULE SeparatePoolBenchmark -----------------------
(***************************************************************************)
(* src/project/mem_pool_separate_free_structure_benchmark.cpp: the same    *)
(* rounds on a MemPoolSeparateFreeStructure and on the heap.               *)
(***************************************************************************)
EXTENDS MemPoolSeparateFreeStructure, BenchmarkRounds

\* A block is never at nullptr, and an id fits the word it is kept in.
ASSUME PoolHasNElements == N = NumElems
ASSUME PointerAssumption == NULL \notin Slots
ASSUME IdAssumption == Index \subseteq Words

allVars == <<vars, benchVars>>

BenchInit == Init /\ RoundsInit

Returned == IF Exhausted THEN NULL ELSE next_free_index
CallAllocate(id) == IF Exhausted THEN UNCHANGED vars ELSE Allocate(id, ZeroObject)

\* Mutant: goes on with the pool of the rounds before, in the order they left.
NewPoolIsOld == UNCHANGED vars

NewPool ==
    /\ live' = {}
    /\ next_free' = FirstLinks
    /\ storage' = [k \in Slots |-> [word |-> 0, rest |-> ZeroObject]]
    /\ next_free_index' = 0

Fill == FillRound(Returned) /\ CallAllocate(i)
Drain == \E p \in Slots : DrainRound(p) /\ Deallocate(p)
Prefill == PrefillRound(Returned) /\ CallAllocate(i)
ChurnFree(k) == ChurnFreeRound(k) /\ Deallocate(churned[k].ptr)
ChurnAllocate == ChurnAllocateRound(Returned) /\ CallAllocate(i)
CleanUp == \E p \in Slots : CleanUpRound(p) /\ Deallocate(p)

PoolRounds ==
    /\ allocator = "pool"
    /\ \/ Fill \/ Drain
       \/ Prefill \/ ChurnAllocate \/ \E k \in DOMAIN churned : ChurnFree(k)
       \/ CleanUp
    /\ UNCHANGED heap

HeapRounds ==
    /\ allocator \in {"new", "malloc"}
    /\ HeapRound
    /\ UNCHANGED vars

Proceed ==
    /\ NextLoop
    /\ IF allocator = "pool" /\ StartsAnew THEN NewPool ELSE UNCHANGED vars

Finished == stage = "done" /\ UNCHANGED allVars

BenchNext == PoolRounds \/ HeapRounds \/ Proceed \/ Finished

BenchSpec == BenchInit /\ [][BenchNext]_allVars

----------------------------------------------------------------------------
(***************************************************************************)
(* Every pointer that the benchmark will dereference leads to a block or   *)
(* an order on the heap that it holds, with the id it was built with       *)
(* (mem_pool_separate_free_structure_benchmark.cpp:86, 97, 110, 120-126,   *)
(* 151, 161, 182-188, 212, 223, 251-258).                                  *)
(***************************************************************************)
HeldBlocksIntact ==
    IF allocator = "pool" THEN Intact(live, LAMBDA p : storage[p].word)
    ELSE Intact(DOMAIN heap, LAMBDA a : heap[a])

(***************************************************************************)
(* The two benchmarks compare like with like: on the same draws they put   *)
(* the two pools and the heap through the same allocations and frees, with *)
(* the same elements                                                       *)
(* (mem_pool_separate_free_structure_benchmark.cpp:315-379).               *)
(***************************************************************************)
Other == INSTANCE PoolBenchmark WITH
    is_free <- Slots \ live,
    word <- [p \in Slots |-> IF p \in live THEN storage[p].word ELSE next_free[p]],
    object <- [p \in Slots |-> storage[p].rest]

ComparesLikeWithLike == Other!BenchSpec
=============================================================================
