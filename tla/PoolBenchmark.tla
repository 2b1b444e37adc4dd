--------------------------- MODULE PoolBenchmark ---------------------------
(***************************************************************************)
(* src/project/mem_pool_benchmark.cpp: run_benchmark(n) on a MemPool and   *)
(* on the heap.  Its three pools are used one after the other, so that one *)
(* is enough: a new pool is the state its constructor leaves.  An order is *)
(* its order_id, which is the word that the links overlay.                 *)
(***************************************************************************)
EXTENDS MemPool, BenchmarkRounds

\* A pool element is never at nullptr, and an id fits the word it is kept in.
ASSUME PoolHasNElements == N = NumElems
ASSUME PointerAssumption == NULL \notin Slots
ASSUME IdAssumption == Index \subseteq Words

allVars == <<vars, benchVars>>

BenchInit == Init /\ RoundsInit

\* What allocate(id, ...) returns, and what it does.
Returned == IF Exhausted THEN NULL ELSE next_free_index
CallAllocate(id) == IF Exhausted THEN UNCHANGED vars ELSE Allocate(id, ZeroObject)

NewPool ==
    /\ is_free' = Slots
    /\ word' = [k \in Slots |-> k + 1]
    /\ object' = [k \in Slots |-> ZeroObject]
    /\ next_free_index' = 0

Fill == FillRound(Returned) /\ CallAllocate(i)
Drain == \E p \in Slots : DrainRound(p) /\ Deallocate(p)
Prefill == PrefillRound(Returned) /\ CallAllocate(i)
ChurnFree(k) == ChurnFreeRound(k) /\ Deallocate(churned[k].ptr)
ChurnAllocate == ChurnAllocateRound(Returned) /\ CallAllocate(i)
CleanUp == \E p \in Slots : CleanUpRound(p) /\ Deallocate(p)

PoolRounds ==
    /\ allocator = "pool"
    /\ \/ Fill \/ Drain
       \/ Prefill \/ ChurnAllocate \/ \E k \in DOMAIN churned : ChurnFree(k)
       \/ CleanUp
    /\ UNCHANGED heap

HeapRounds ==
    /\ allocator \in {"new", "malloc"}
    /\ HeapRound
    /\ UNCHANGED vars

Proceed ==
    /\ NextLoop
    /\ IF allocator = "pool" /\ StartsAnew THEN NewPool ELSE UNCHANGED vars

Finished == stage = "done" /\ UNCHANGED allVars

BenchNext == PoolRounds \/ HeapRounds \/ Proceed \/ Finished

BenchSpec == BenchInit /\ [][BenchNext]_allVars

----------------------------------------------------------------------------
BenchTypeOK == TypeOK /\ RoundsTypeOK(IF allocator = "pool" THEN Slots ELSE Addresses)

(***************************************************************************)
(* Every pointer that the benchmark will dereference leads to a live order *)
(* that still holds the id it was built with: no allocation of a round     *)
(* fails unnoticed, also when the pool is filled to the last element       *)
(* through a free list in random order, and the churn never keeps a        *)
(* pointer it has freed (mem_pool_benchmark.cpp:80, 90, 102, 112-118,      *)
(* 143, 153, 174-180, 204, 214, 238-245).                                  *)
(***************************************************************************)
HeldObjectsIntact ==
    IF allocator = "pool" THEN Intact(InUse, LAMBDA p : word[p])
    ELSE Intact(DOMAIN heap, LAMBDA a : heap[a])

(***************************************************************************)
(* The benchmark gives back all it took from each of its three pools and   *)
(* from the heap (mem_pool_benchmark.cpp:79-92, 124, 183, 248, 329, 345,   *)
(* 361).                                                                   *)
(***************************************************************************)
AllReturned ==
    Ended /\ stage \in Draining \cup {"cleanup"} => InUse = {} /\ heap = << >>

(***************************************************************************)
(* "re-seed for fairness" (mem_pool_benchmark.cpp:319): with the same      *)
(* draws, the pool does for the benchmark what the heap does, call by      *)
(* call.  Only a churn that runs into the full pool goes another way: the  *)
(* pool refuses, and the heap would have allocated                         *)
(* (mem_pool_benchmark.cpp:117-118, 179, 243-245).                         *)
(***************************************************************************)
AsHeap == INSTANCE BenchmarkRounds WITH
    Addresses <- Slots, heap <- [p \in InUse |-> word[p]]

SameLoadAsHeap ==
    [][allocator = "pool" =>
          \/ AsHeap!HeapRound
          \/ AsHeap!NextLoop
          \/ stage = "churn" /\ InUse = Slots /\ UNCHANGED <<vars, churned>>]_allVars
=============================================================================
