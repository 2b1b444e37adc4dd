-------------------------- MODULE BenchmarkRounds --------------------------
(***************************************************************************)
(* run_benchmark(n), common to both pool benchmarks                        *)
(* (src/project/mem_pool_benchmark.cpp and                                 *)
(* mem_pool_separate_free_structure_benchmark.cpp).  It puts three         *)
(* allocators through the same rounds, one after the other: the pool,      *)
(* new/delete and malloc/free.  Each is filled with n orders and drained   *)
(* in order, filled again and drained in random order, churned at random,  *)
(* and filled with a few orders once more.  No pointer is checked before   *)
(* it is used, except in the churn of the pool.                            *)
(*                                                                         *)
(* This module has the benchmark's own variables and the rounds on the     *)
(* heap; the pool is added by the modules that extend it.  A round takes   *)
(* as its argument the pointer it obtains or frees.  The clock, the cache  *)
(* and the sums that keep the compiler honest are left out.                *)
(***************************************************************************)
EXTENDS Naturals, Sequences

CONSTANTS N,             \* n of run_benchmark()
          ColdSamples,   \* kColdSamples
          Addresses,     \* where the heap may place an order
          NULL           \* nullptr

ASSUME ColdSamplesAssumption == ColdSamples \in Nat \ {0}
ASSUME NullAssumption == NULL \notin Addresses

VARIABLES allocator,      \* the one whose turn it is
          stage,          \* the loop that is running
          i,              \* its counter
          random_order,   \* the permutation for the second drain
          ptrs,           \* pool_ptrs, new_ptrs, malloc_ptrs, *_cold_ptrs
          churned,        \* live of the churn; id is what ptr was built with
          heap            \* the orders on the heap: a function to their ids

benchVars == <<allocator, stage, i, random_order, ptrs, churned, heap>>

Index == 0 .. N - 1
half == N \div 2
cold_n == IF N < ColdSamples THEN N ELSE ColdSamples

\* The system allocator, external: like a pool, but it never refuses.
Heap == INSTANCE ObjectPool WITH Elements <- Addresses, Values <- Index, live <- heap

RoundsInit ==
    /\ allocator = "pool"
    /\ stage = "fill"
    /\ i = 0
    /\ random_order \in {f \in [Index -> Index] : \A k, l \in Index : f[k] = f[l] => k = l}
    /\ ptrs = [k \in Index |-> NULL]
    /\ churned = << >>
    /\ Heap!Init

----------------------------------------------------------------------------
\* The stages that store a pointer per round in ptrs, that free one per round,
\* and how many rounds a stage has.
Filling == {"fill", "refill", "cold"}
Draining == {"drain", "shuffled", "uncold"}
Rounds ==
    CASE stage \in {"cold", "uncold"} -> cold_n
      [] stage = "prefill" -> half
      [] stage = "cleanup" -> Len(churned)
      [] OTHER -> N

\* Mutant: one round too many.
OneMore == i <= Rounds

\* The condition of every loop.
More == i < Rounds

\* Mutant: leaves the loop before its last round.
EndedEarly == stage # "done" /\ i + 1 >= Rounds

Ended == stage # "done" /\ ~More

Advance ==
    /\ More
    /\ i' = i + 1
    /\ UNCHANGED <<allocator, stage, random_order>>

\* The entry of ptrs that a draining stage frees in its k-th round.
Turn(k) == IF stage = "shuffled" THEN random_order[k] ELSE k

\* bench_*_allocate(), bench_*_allocate_cold(): whatever was returned is kept.
FillRound(got) ==
    /\ stage \in Filling
    /\ Advance
    /\ ptrs' = [ptrs EXCEPT ![i] = got]
    /\ UNCHANGED churned

\* bench_*_deallocate(), bench_*_dealloc_random(), the loop after the cold
\* allocations.
DrainRound(p) ==
    /\ stage \in Draining
    /\ Advance
    /\ p = ptrs[Turn(i)]
    /\ UNCHANGED <<ptrs, churned>>

\* bench_*_churn() starts with n / 2 orders, unchecked.
PrefillRound(got) ==
    /\ stage = "prefill"
    /\ Advance
    /\ churned' = Append(churned, [ptr |-> got, id |-> i])
    /\ UNCHANGED ptrs

\* Mutant: overwrites the vacated entry and forgets to drop the last one.
VacatedOnly(live, k) == [live EXCEPT ![k] = live[Len(live)]]

\* The last entry takes the place of the k-th.
Vacated(live, k) == SubSeq([live EXCEPT ![k] = live[Len(live)]], 1, Len(live) - 1)

\* Heads: a random live order is freed.
ChurnFreeRound(k) ==
    /\ stage = "churn"
    /\ Advance
    /\ churned' = Vacated(churned, k)
    /\ UNCHANGED ptrs

\* Tails, or nothing is live: what was allocated is kept if there is something.
ChurnAllocateRound(got) ==
    /\ stage = "churn"
    /\ Advance
    /\ churned' = IF got = NULL THEN churned
                  ELSE Append(churned, [ptr |-> got, id |-> i])
    /\ UNCHANGED ptrs

\* What is still live at the end of the churn is freed.
CleanUpRound(p) ==
    /\ stage = "cleanup"
    /\ Advance
    /\ p = churned[i + 1].ptr
    /\ UNCHANGED <<ptrs, churned>>

NextStage ==
    [fill |-> "drain", drain |-> "refill", refill |-> "shuffled", shuffled |-> "prefill",
     prefill |-> "churn", churn |-> "cleanup", cleanup |-> "cold", cold |-> "uncold",
     uncold |-> IF allocator = "malloc" THEN "done" ELSE "fill"]

NextAllocator == [pool |-> "new", new |-> "malloc", malloc |-> "malloc"]

\* The churn, the cold round and the next allocator start with vectors, and the
\* pool's rounds with pools, of their own.
StartsAnew == stage \in {"shuffled", "cleanup", "uncold"}

\* run_benchmark() goes on to the next loop.
NextLoop ==
    /\ Ended
    /\ stage' = NextStage[stage]
    /\ allocator' = IF stage = "uncold" THEN NextAllocator[allocator] ELSE allocator
    /\ i' = 0
    /\ IF StartsAnew
       THEN ptrs' = [k \in Index |-> NULL] /\ churned' = << >>
       ELSE UNCHANGED <<ptrs, churned>>
    /\ UNCHANGED <<random_order, heap>>

----------------------------------------------------------------------------
(* The rounds on the heap.  malloc() and the construction of the order in  *)
(* what it returned are one step, as are its destruction and free().       *)

HeapFill(a) == FillRound(a) /\ Heap!Allocate(a, i)
HeapDrain(a) == DrainRound(a) /\ Heap!Deallocate(a)
HeapPrefill(a) == PrefillRound(a) /\ Heap!Allocate(a, i)
HeapChurnFree(k) == ChurnFreeRound(k) /\ Heap!Deallocate(churned[k].ptr)
HeapChurnAllocate(a) == ChurnAllocateRound(a) /\ Heap!Allocate(a, i)
HeapCleanUp(a) == CleanUpRound(a) /\ Heap!Deallocate(a)

HeapRound ==
    \/ \E a \in Addresses :
          \/ HeapFill(a) \/ HeapDrain(a)
          \/ HeapPrefill(a) \/ HeapChurnAllocate(a) \/ HeapCleanUp(a)
    \/ \E k \in DOMAIN churned : HeapChurnFree(k)

----------------------------------------------------------------------------
RoundsTypeOK(Pointers) ==
    /\ allocator \in DOMAIN NextAllocator
    /\ stage \in DOMAIN NextStage \cup {"done"}
    /\ i \in 0 .. Rounds
    /\ ptrs \in [Index -> Pointers \cup {NULL}]
    /\ \A k \in DOMAIN churned : churned[k] \in [ptr : Pointers \cup {NULL}, id : Index]
    /\ DOMAIN heap \subseteq Addresses /\ \A a \in DOMAIN heap : heap[a] \in Index

\* The entries of ptrs that were filled and not drained yet.
Held ==
    {r \in Index : \/ stage \in Filling /\ r < i
                   \/ stage \in Draining /\ r < Rounds /\ \A k \in 0 .. i - 1 : Turn(k) # r}

\* Every pointer that will be dereferenced leads to an order that still has the
\* id it was built with, among the live ones of the allocator at work.
Intact(live, order_id(_)) ==
    /\ \A r \in Held : ptrs[r] \in live /\ order_id(ptrs[r]) = r
    /\ stage \in {"prefill", "churn"} =>
          \A k \in DOMAIN churned :
              churned[k].ptr \in live /\ order_id(churned[k].ptr) = churned[k].id
=============================================================================
