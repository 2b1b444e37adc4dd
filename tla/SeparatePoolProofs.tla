------------------------ MODULE SeparatePoolProofs -------------------------
(***************************************************************************)
(* The two pools are interchangeable, for every pool size and every object *)
(* type.  Each step here is the same step of MemPool under the mapping, as *)
(* long as the head of the free list is not live, for only then is the     *)
(* link read from next_free what MemPool reads from the object's storage.  *)
(* That is what MemPool's own invariant, mapped, provides: the lemmas of   *)
(* MemPoolProofs carry the induction.                                      *)
(*                                                                         *)
(* So are the two pool benchmarks, for every n: their rounds are the same, *)
(* and PoolBenchmarkProofs carries the induction.                          *)
(***************************************************************************)
EXTENDS SeparatePoolBenchmark, TLAPS

P == INSTANCE MemPoolProofs WITH
    is_free <- Slots \ live,
    word <- [p \in Slots |-> IF p \in live THEN storage[p].word ELSE next_free[p]],
    object <- [p \in Slots |-> storage[p].rest]

Bench == INSTANCE PoolBenchmarkProofs WITH
    is_free <- Slots \ live,
    word <- [p \in Slots |-> IF p \in live THEN storage[p].word ELSE next_free[p]],
    object <- [p \in Slots |-> storage[p].rest]

\* The mapped invariant of MemPool, and what the mapping itself needs.
IInv == P!IInv /\ TypeOK

\* The constructors of the two pools leave the same state.
LEMMA InitIInv == Init => IInv /\ P!Init
  <1> SUFFICES ASSUME Init PROVE IInv /\ P!Init
    OBVIOUS
  <1>1. TypeOK
    BY NumElemsAssumption, ObjectsAssumption DEF Init, FirstLinks, TypeOK, Slots
  <1>2. P!Init
    BY DEF Init, FirstLinks, P!Init, P!Slots, Slots
  <1> QED
    BY <1>1, <1>2, P!InitIInv, NumElemsAssumption, WordsAssumption, ObjectsAssumption DEF IInv

\* Under the mapping, each operation is MemPool's.
LEMMA AllocateMaps ==
    ASSUME IInv, NEW w \in Words, NEW o \in Objects, Allocate(w, o)
    PROVE  P!Allocate(w, o)
  <1>1. ~P!Exhausted
    BY DEF Allocate, Exhausted, P!Exhausted
  <1>2. next_free_index \in Slots \ live
    BY <1>1, P!HeadIsFree, NumElemsAssumption, WordsAssumption, ObjectsAssumption DEF IInv
  <1> QED
    BY <1>1, <1>2 DEF Allocate, NextFree, P!Allocate, P!next_free_of, IInv, TypeOK

\* deallocate() of the one is deallocate() of the other.
LEMMA DeallocateMaps ==
    ASSUME IInv, NEW p \in live, Deallocate(p)
    PROVE  p \in P!InUse /\ P!Deallocate(p)
  <1>1. p \in Slots /\ p \in P!InUse
    BY DEF IInv, TypeOK, P!InUse, P!Slots, Slots
  <1> QED
    BY <1>1 DEF Deallocate, P!Deallocate, IInv, TypeOK

\* So is a write through a pointer.
LEMMA WriteMaps ==
    ASSUME IInv, NEW p \in live, NEW w \in Words, NEW o \in Objects, Write(p, w, o)
    PROVE  p \in P!InUse /\ P!Write(p, w, o)
  <1>1. p \in Slots /\ p \in P!InUse
    BY DEF IInv, TypeOK, P!InUse, P!Slots, Slots
  <1> QED
    BY <1>1 DEF Write, P!Write, IInv, TypeOK

\* Every step is one of the other pool, whose invariant is thus kept.
LEMMA NextMaps == IInv /\ [Next]_vars => [P!Next]_P!vars
  <1> SUFFICES ASSUME IInv, [Next]_vars PROVE [P!Next]_P!vars
    OBVIOUS
  <1>1. CASE \E w \in Words, o \in Objects : Allocate(w, o)
    BY <1>1, AllocateMaps DEF P!Next
  <1>2. CASE \E p \in live : Deallocate(p)
    BY <1>2, DeallocateMaps DEF P!Next
  <1>3. CASE \E p \in live, w \in Words, o \in Objects : Write(p, w, o)
    BY <1>3, WriteMaps DEF P!Next
  <1>4. CASE UNCHANGED vars
    BY <1>4 DEF vars, P!vars
  <1> QED
    BY <1>1, <1>2, <1>3, <1>4 DEF Next

\* The link is now a field of its own and keeps its type.
LEMMA NextTypeOK == IInv /\ [Next]_vars => TypeOK'
  <1> SUFFICES ASSUME IInv, [Next]_vars PROVE TypeOK'
    OBVIOUS
  <1>1. CASE \E w \in Words, o \in Objects : Allocate(w, o)
    BY <1>1, NumElemsAssumption DEF Allocate, NextFree, Exhausted, IInv, TypeOK, Slots
  <1>2. CASE \E p \in live : Deallocate(p)
    BY <1>2, NumElemsAssumption DEF Deallocate, IInv, TypeOK, Slots
  <1>3. CASE \E p \in live, w \in Words, o \in Objects : Write(p, w, o)
    BY <1>3 DEF Write, IInv, TypeOK
  <1>4. CASE UNCHANGED vars
    BY <1>4 DEF vars, IInv, TypeOK
  <1> QED
    BY <1>1, <1>2, <1>3, <1>4 DEF Next

\* Both parts of the invariant together.
LEMMA NextIInv == IInv /\ [Next]_vars => IInv'
  BY NextMaps, NextTypeOK, P!NextIInv, NumElemsAssumption, WordsAssumption, ObjectsAssumption
     DEF IInv

\* The invariant of all the theorems below.
LEMMA AlwaysIInv == Spec => []IInv
  BY InitIInv, NextIInv, PTL DEF Spec

(***************************************************************************)
(* The links and next_free_index_ never leave the store, whatever order    *)
(* blocks are freed in.                                                    *)
(***************************************************************************)
THEOREM SeparatePoolTypes == Spec => []TypeOK
  BY AlwaysIInv, PTL DEF IInv

(***************************************************************************)
(* A block that a caller holds is never handed out a second time, for      *)
(* every pool size.                                                        *)
(***************************************************************************)
THEOREM NextIsNeverLive == Spec => []NextIsNotLive
  <1>1. IInv => NextIsNotLive
    <2>1. ASSUME IInv, ~P!Exhausted PROVE next_free_index \in Slots \ live
      BY <2>1, P!HeadIsFree, NumElemsAssumption, WordsAssumption, ObjectsAssumption DEF IInv
    <2> QED
      BY <2>1 DEF NextIsNotLive, Exhausted, P!Exhausted
  <1> QED
    BY <1>1, AlwaysIInv, PTL

(***************************************************************************)
(* The pool with separate links implements MemPool: the same calls get the *)
(* same answers, for every pool size and object type.                      *)
(***************************************************************************)
THEOREM PoolsAreInterchangeable == Spec => ImplementsMemPool
  <1>1. Init => IInv /\ Intrusive!Init
    BY InitIInv DEF Intrusive!Init, P!Init, Intrusive!Slots, P!Slots
  <1>2. IInv /\ [Next]_vars => [Intrusive!Next]_Intrusive!vars
    BY NextMaps DEF Intrusive!Next, P!Next, Intrusive!vars, P!vars,
       Intrusive!Allocate, P!Allocate, Intrusive!next_free_of, P!next_free_of, Intrusive!Exhausted, P!Exhausted,
       Intrusive!Deallocate, P!Deallocate, Intrusive!Write, P!Write,
       Intrusive!InUse, P!InUse, Intrusive!Slots, P!Slots
  <1> QED
    BY <1>1, <1>2, NextIInv, PTL DEF Spec, ImplementsMemPool, Intrusive!Spec

----------------------------------------------------------------------------
(* The benchmark.                                                          *)

\* The invariant of this pool, and of the other benchmark.
BenchInv == IInv /\ Bench!BenchInv

\* What the other benchmark assumes is assumed here.
LEMMA BenchAssumptions ==
    /\ N = NumElems /\ N \in Nat \ {0}
    /\ Index = 0 .. N - 1 /\ Slots = 0 .. NumElems - 1
    /\ Index \subseteq Words /\ NULL \notin Slots
  BY NumElemsAssumption, PoolHasNElements, IdAssumption, PointerAssumption DEF Index, Slots

\* The rounds do not depend on the pool.
LEMMA RoundsMap ==
    /\ \A a : /\ FillRound(a) => Other!FillRound(a) /\ Bench!FillRound(a)
              /\ DrainRound(a) => Other!DrainRound(a) /\ Bench!DrainRound(a)
              /\ PrefillRound(a) => Other!PrefillRound(a) /\ Bench!PrefillRound(a)
              /\ ChurnAllocateRound(a) =>
                    Other!ChurnAllocateRound(a) /\ Bench!ChurnAllocateRound(a)
              /\ CleanUpRound(a) => Other!CleanUpRound(a) /\ Bench!CleanUpRound(a)
              /\ ChurnFreeRound(a) => Other!ChurnFreeRound(a) /\ Bench!ChurnFreeRound(a)
    /\ Other!Ended = Ended /\ Bench!Ended = Ended
  <1>1. Other!Rounds = Rounds /\ Bench!Rounds = Rounds
    BY DEF Other!Rounds, Bench!Rounds, Rounds, Other!half, Bench!half, half,
       Other!cold_n, Bench!cold_n, cold_n
  <1>2. Advance => Other!Advance /\ Bench!Advance
    BY <1>1 DEF Advance, Other!Advance, Bench!Advance, More, Other!More, Bench!More
  <1>3. Other!Ended = Ended /\ Bench!Ended = Ended
    BY <1>1 DEF Ended, Other!Ended, Bench!Ended, More, Other!More, Bench!More
  <1> USE DEF Filling, Other!Filling, Bench!Filling, Draining, Other!Draining, Bench!Draining,
              Turn, Other!Turn, Bench!Turn, Vacated, Other!Vacated, Bench!Vacated
  <1> QED
    BY <1>2, <1>3 DEF FillRound, Other!FillRound, Bench!FillRound,
       DrainRound, Other!DrainRound, Bench!DrainRound,
       PrefillRound, Other!PrefillRound, Bench!PrefillRound,
       ChurnAllocateRound, Other!ChurnAllocateRound, Bench!ChurnAllocateRound,
       CleanUpRound, Other!CleanUpRound, Bench!CleanUpRound,
       ChurnFreeRound, Other!ChurnFreeRound, Bench!ChurnFreeRound

\* Neither do the rounds on the heap.
LEMMA HeapRoundsMap ==
    ASSUME HeapRounds
    PROVE  Other!HeapRounds /\ Bench!HeapRounds
  <1>1. allocator \in {"new", "malloc"} /\ HeapRound /\ UNCHANGED vars
    BY DEF HeapRounds
  <1>2. UNCHANGED Other!vars /\ UNCHANGED Bench!vars
    BY <1>1 DEF vars, Other!vars, Bench!vars
  <1>3. \A a, id : /\ Heap!Allocate(a, id) =>
                        Other!Heap!Allocate(a, id) /\ Bench!Heap!Allocate(a, id)
                   /\ Heap!Deallocate(a) =>
                        Other!Heap!Deallocate(a) /\ Bench!Heap!Deallocate(a)
    BY DEF Heap!Allocate, Other!Heap!Allocate, Bench!Heap!Allocate,
       Heap!Deallocate, Other!Heap!Deallocate, Bench!Heap!Deallocate
  <1>4. Other!HeapRound /\ Bench!HeapRound
    BY <1>1, <1>3, RoundsMap DEF HeapRound, Other!HeapRound, Bench!HeapRound,
       HeapFill, Other!HeapFill, Bench!HeapFill, HeapDrain, Other!HeapDrain, Bench!HeapDrain,
       HeapPrefill, Other!HeapPrefill, Bench!HeapPrefill,
       HeapChurnFree, Other!HeapChurnFree, Bench!HeapChurnFree,
       HeapChurnAllocate, Other!HeapChurnAllocate, Bench!HeapChurnAllocate,
       HeapCleanUp, Other!HeapCleanUp, Bench!HeapCleanUp
  <1> QED
    BY <1>1, <1>2, <1>4 DEF Other!HeapRounds, Bench!HeapRounds

\* The calls of the two benchmarks get the same answers.
LEMMA CallsMap ==
    /\ Other!Returned = Returned /\ Bench!Returned = Returned
    /\ \A id \in Index : IInv /\ CallAllocate(id) =>
          Other!CallAllocate(id) /\ Bench!CallAllocate(id) /\ TypeOK'
    /\ \A p \in live : IInv /\ Deallocate(p) =>
          Other!Deallocate(p) /\ Bench!Deallocate(p) /\ TypeOK'
  <1>1. (Other!Exhausted <=> Exhausted) /\ (Bench!Exhausted <=> Exhausted)
    BY DEF Exhausted, Other!Exhausted, Bench!Exhausted
  <1>2. Other!Returned = Returned /\ Bench!Returned = Returned
    BY <1>1 DEF Returned, Other!Returned, Bench!Returned
  <1>3. ASSUME IInv, NEW id \in Index, CallAllocate(id)
        PROVE  Other!CallAllocate(id) /\ Bench!CallAllocate(id) /\ TypeOK'
    <2>1. CASE Exhausted
      BY <1>1, <1>3, <2>1 DEF CallAllocate, Other!CallAllocate, Bench!CallAllocate,
         vars, Other!vars, Bench!vars, IInv, TypeOK
    <2>2. CASE ~Exhausted
      <3>1. id \in Words /\ ZeroObject \in Objects /\ Allocate(id, ZeroObject)
        BY <1>3, <2>2, IdAssumption, ObjectsAssumption DEF CallAllocate
      <3>2. P!Allocate(id, ZeroObject)
        BY <1>3, <3>1, AllocateMaps
      <3>3. Other!Allocate(id, ZeroObject) /\ Bench!Allocate(id, ZeroObject)
        BY <1>1, <2>2, <3>2 DEF P!Allocate, Other!Allocate, Bench!Allocate,
           P!next_free_of, Other!next_free_of, Bench!next_free_of
      <3>4. TypeOK'
        BY <1>3, <3>1, NextTypeOK DEF Next
      <3> QED
        BY <1>1, <2>2, <3>3, <3>4 DEF Other!CallAllocate, Bench!CallAllocate
    <2> QED
      BY <2>1, <2>2
  <1>4. ASSUME IInv, NEW p \in live, Deallocate(p)
        PROVE  Other!Deallocate(p) /\ Bench!Deallocate(p) /\ TypeOK'
    <2>1. P!Deallocate(p)
      BY <1>4, DeallocateMaps
    <2>2. TypeOK'
      BY <1>4, NextTypeOK DEF Next
    <2> QED
      BY <2>1, <2>2 DEF P!Deallocate, Other!Deallocate, Bench!Deallocate
  <1> QED
    BY <1>2, <1>3, <1>4

\* The pool, seen as a heap through the mapping, holds the live blocks.
LEMMA StoredIsLive ==
    ASSUME IInv
    PROVE  /\ DOMAIN Bench!Stored = live
           /\ \A p \in live : Bench!Stored[p] = storage[p].word
  BY DEF Bench!Stored, Bench!InUse, Bench!Slots, Slots, IInv, TypeOK

\* A round on the pool is one of the other benchmark.
LEMMA PoolRoundsMap ==
    ASSUME BenchInv, PoolRounds
    PROVE  Other!PoolRounds /\ Bench!PoolRounds /\ TypeOK'
  <1>1. allocator = "pool" /\ heap' = heap
    BY DEF PoolRounds
  <1>2. IInv /\ Bench!RoundsInv(Bench!Slots, Bench!Stored)
    BY <1>1 DEF BenchInv, Bench!BenchInv
  <1>3. ASSUME More, stage \in {"fill", "refill", "cold", "prefill", "churn"}
        PROVE  i \in Index
    <2>1. i \in 0 .. Bench!Rounds
      BY <1>2 DEF Bench!RoundsInv, Bench!RoundsTypes
    <2>2. Bench!Rounds = Rounds
      BY DEF Bench!Rounds, Rounds, Bench!half, half, Bench!cold_n, cold_n
    <2>3. half \in Nat /\ half <= N /\ cold_n \in Nat /\ cold_n <= N
      BY BenchAssumptions, ColdSamplesAssumption DEF half, cold_n
    <2>4. Rounds \in Nat /\ Rounds <= N
      BY <1>3, <2>3, BenchAssumptions DEF Rounds
    <2> QED
      BY <1>3, <2>1, <2>2, <2>4, BenchAssumptions DEF More
  <1>4. CASE Fill \/ Prefill \/ ChurnAllocate
    <2>1. /\ More /\ stage \in {"fill", "refill", "cold", "prefill", "churn"} /\ CallAllocate(i)
          /\ \/ Fill /\ FillRound(Returned)
             \/ Prefill /\ PrefillRound(Returned)
             \/ ChurnAllocate /\ ChurnAllocateRound(Returned)
      BY <1>4 DEF Fill, Prefill, ChurnAllocate, FillRound, PrefillRound, ChurnAllocateRound,
         Advance, Filling
    <2>2. Other!CallAllocate(i) /\ Bench!CallAllocate(i) /\ TypeOK'
      <3>1. PICK id \in Index : id = i
        BY <1>3, <2>1
      <3>2. CallAllocate(id)
        BY <2>1, <3>1 DEF CallAllocate, Allocate
      <3>3. Other!CallAllocate(id) /\ Bench!CallAllocate(id) /\ TypeOK'
        BY <1>2, <3>2, CallsMap
      <3> QED
        BY <3>1, <3>3 DEF Other!CallAllocate, Bench!CallAllocate, Other!Allocate, Bench!Allocate
    <2>3. /\ Other!Fill \/ Other!Prefill \/ Other!ChurnAllocate
          /\ Bench!Fill \/ Bench!Prefill \/ Bench!ChurnAllocate
      BY <2>1, <2>2, CallsMap, RoundsMap DEF Other!Fill, Other!Prefill, Other!ChurnAllocate,
         Bench!Fill, Bench!Prefill, Bench!ChurnAllocate
    <2> QED
      BY <1>1, <2>2, <2>3 DEF Other!PoolRounds, Bench!PoolRounds
  <1>5. /\ \A a : Bench!DrainRound(a) \/ Bench!CleanUpRound(a) => a \in live
        /\ \A k \in DOMAIN churned : Bench!ChurnFreeRound(k) => churned[k].ptr \in live
    BY <1>2, StoredIsLive, Bench!FreesWhatIsHeld, NumElemsAssumption, WordsAssumption,
       ObjectsAssumption, ColdSamplesAssumption, NullAssumption, PoolHasNElements,
       PointerAssumption, IdAssumption DEF Slots, Bench!Slots, Index, Bench!Index
  <1>6. CASE Drain \/ CleanUp
    <2>1. PICK p \in Slots : (DrainRound(p) \/ CleanUpRound(p)) /\ Deallocate(p)
      BY <1>6 DEF Drain, CleanUp
    <2>2. /\ Other!DrainRound(p) \/ Other!CleanUpRound(p)
          /\ Bench!DrainRound(p) \/ Bench!CleanUpRound(p)
      BY <2>1, RoundsMap
    <2>3. Other!Deallocate(p) /\ Bench!Deallocate(p) /\ TypeOK'
      BY <1>2, <1>5, <2>1, <2>2, CallsMap
    <2>4. (Other!Drain \/ Other!CleanUp) /\ (Bench!Drain \/ Bench!CleanUp)
      BY <2>2, <2>3 DEF Other!Drain, Other!CleanUp, Bench!Drain, Bench!CleanUp,
         Slots, Other!Slots, Bench!Slots
    <2> QED
      BY <1>1, <2>3, <2>4 DEF Other!PoolRounds, Bench!PoolRounds
  <1>7. CASE \E k \in DOMAIN churned : ChurnFree(k)
    <2>1. PICK k \in DOMAIN churned : ChurnFreeRound(k) /\ Deallocate(churned[k].ptr)
      BY <1>7 DEF ChurnFree
    <2>2. Other!ChurnFreeRound(k) /\ Bench!ChurnFreeRound(k)
      BY <2>1, RoundsMap
    <2>3. Other!Deallocate(churned[k].ptr) /\ Bench!Deallocate(churned[k].ptr) /\ TypeOK'
      <3>1. PICK p \in live : p = churned[k].ptr
        BY <1>5, <2>2
      <3>2. Deallocate(p)
        BY <2>1, <3>1 DEF Deallocate
      <3>3. Other!Deallocate(p) /\ Bench!Deallocate(p) /\ TypeOK'
        BY <1>2, <3>2, CallsMap
      <3> QED
        BY <3>1, <3>3 DEF Other!Deallocate, Bench!Deallocate
    <2>4. Other!ChurnFree(k) /\ Bench!ChurnFree(k)
      BY <2>2, <2>3 DEF Other!ChurnFree, Bench!ChurnFree
    <2> QED
      BY <1>1, <2>3, <2>4 DEF Other!PoolRounds, Bench!PoolRounds
  <1> QED
    BY <1>4, <1>6, <1>7 DEF PoolRounds

\* So is the way to the next loop.
LEMMA ProceedMaps ==
    ASSUME BenchInv, Proceed
    PROVE  Other!Proceed /\ Bench!Proceed /\ TypeOK'
  <1>1. NextLoop
    BY DEF Proceed
  <1>2. Other!NextLoop /\ Bench!NextLoop
    BY <1>1, RoundsMap DEF NextLoop, Other!NextLoop, Bench!NextLoop,
       NextStage, Other!NextStage, Bench!NextStage,
       NextAllocator, Other!NextAllocator, Bench!NextAllocator,
       StartsAnew, Other!StartsAnew, Bench!StartsAnew, Index, Other!Index, Bench!Index
  <1>3. (Other!StartsAnew <=> StartsAnew) /\ (Bench!StartsAnew <=> StartsAnew)
    BY DEF StartsAnew, Other!StartsAnew, Bench!StartsAnew
  <1>4. CASE allocator = "pool" /\ StartsAnew
    <2>1. NewPool
      BY <1>4 DEF Proceed
    <2>2. TypeOK'
      BY <2>1, NumElemsAssumption, ObjectsAssumption DEF NewPool, FirstLinks, TypeOK, Slots
    <2>3. Other!NewPool /\ Bench!NewPool
      BY <2>1 DEF NewPool, FirstLinks, Other!NewPool, Bench!NewPool,
         Slots, Other!Slots, Bench!Slots
    <2> QED
      BY <1>2, <1>3, <1>4, <2>2, <2>3 DEF Other!Proceed, Bench!Proceed
  <1>5. CASE ~(allocator = "pool" /\ StartsAnew)
    <2>1. UNCHANGED vars
      BY <1>5 DEF Proceed
    <2>2. UNCHANGED Other!vars /\ UNCHANGED Bench!vars /\ TypeOK'
      BY <2>1 DEF vars, Other!vars, Bench!vars, BenchInv, IInv, TypeOK
    <2> QED
      BY <1>2, <1>3, <1>5, <2>2 DEF Other!Proceed, Bench!Proceed
  <1> QED
    BY <1>4, <1>5

\* Both benchmarks start alike.
LEMMA BenchInitMaps == BenchInit => Other!BenchInit /\ BenchInv
  <1> SUFFICES ASSUME BenchInit PROVE Other!BenchInit /\ BenchInv
    OBVIOUS
  <1>1. Init /\ RoundsInit
    BY DEF BenchInit
  <1>2. IInv /\ P!Init
    BY <1>1, InitIInv
  <1>3. Other!Init /\ Bench!Init
    BY <1>2 DEF P!Init, Other!Init, Bench!Init, P!Slots, Other!Slots, Bench!Slots
  <1>4. Other!RoundsInit /\ Bench!RoundsInit
    BY <1>1 DEF RoundsInit, Other!RoundsInit, Bench!RoundsInit, Index, Other!Index, Bench!Index,
       Heap!Init, Other!Heap!Init, Bench!Heap!Init
  <1>5. Bench!BenchInv
    BY <1>3, <1>4, Bench!BenchInitInv, NumElemsAssumption, WordsAssumption,
       ObjectsAssumption, ColdSamplesAssumption, NullAssumption, PoolHasNElements,
       PointerAssumption, IdAssumption DEF Bench!BenchInit, Slots, Bench!Slots, Index, Bench!Index
  <1> QED
    BY <1>2, <1>3, <1>4, <1>5 DEF Other!BenchInit, BenchInv

\* The pool's invariant, as the two mappings name it.
LEMMA SameInvariant == Bench!IInv => P!IInv
  <1> SUFFICES ASSUME Bench!IInv PROVE P!IInv
    OBVIOUS
  <1>1. P!TypeOK
    BY DEF Bench!IInv, P!TypeOK, Bench!TypeOK, P!Slots, Bench!Slots
  <1>2. \A n, fl : Bench!IsFreeList(n, fl) => P!IsFreeList(n, fl)
    BY DEF P!IsFreeList, Bench!IsFreeList
  <1>3. P!FreeListExact
    <2>1. PICK n : n = P!Cardinality(Slots \ live) /\ n = Bench!Cardinality(Slots \ live)
      BY DEF P!Cardinality, Bench!Cardinality
    <2>2. PICK fl \in [1 .. n -> Bench!Slots] : Bench!IsFreeList(n, fl)
      BY <2>1 DEF Bench!IInv, Bench!FreeListExact
    <2>3. fl \in [1 .. n -> P!Slots] /\ P!IsFreeList(n, fl)
      BY <1>2, <2>2 DEF P!Slots, Bench!Slots
    <2> QED
      BY <2>1, <2>3 DEF P!FreeListExact
  <1> QED
    BY <1>1, <1>3 DEF P!IInv

\* Both take the same steps.
LEMMA BenchNextMaps ==
    BenchInv /\ [BenchNext]_allVars => [Other!BenchNext]_Other!allVars /\ BenchInv'
  <1> SUFFICES ASSUME BenchInv, [BenchNext]_allVars
               PROVE  [Other!BenchNext]_Other!allVars /\ BenchInv'
    OBVIOUS
  <1>1. /\ [Other!BenchNext]_Other!allVars
        /\ [Bench!BenchNext]_Bench!allVars
        /\ TypeOK'
    <2>1. CASE PoolRounds
      BY <2>1, PoolRoundsMap DEF Other!BenchNext, Bench!BenchNext
    <2>2. CASE HeapRounds
      <3>1. TypeOK'
        BY <2>2 DEF HeapRounds, vars, BenchInv, IInv, TypeOK
      <3> QED
        BY <2>2, <3>1, HeapRoundsMap DEF Other!BenchNext, Bench!BenchNext
    <2>3. CASE Proceed
      BY <2>3, ProceedMaps DEF Other!BenchNext, Bench!BenchNext
    <2>4. CASE UNCHANGED allVars
      BY <2>4 DEF allVars, vars, benchVars, Other!allVars, Other!vars, Other!benchVars,
         Bench!allVars, Bench!vars, Bench!benchVars, BenchInv, IInv, TypeOK
    <2> QED
      BY <2>1, <2>2, <2>3, <2>4 DEF BenchNext, Finished
  <1>2. Bench!BenchInv'
    BY <1>1, Bench!BenchNextInv, NumElemsAssumption, WordsAssumption,
       ObjectsAssumption, ColdSamplesAssumption, NullAssumption, PoolHasNElements,
       PointerAssumption, IdAssumption
       DEF BenchInv, Slots, Bench!Slots, Index, Bench!Index
  <1>3. P!IInv'
    <2>1. Bench!IInv'
      BY <1>2 DEF Bench!BenchInv
    <2> QED
      BY <2>1, SameInvariant, PTL
  <1> QED
    BY <1>1, <1>2, <1>3 DEF BenchInv, IInv

(***************************************************************************)
(* For every n and every order of freeing, the pointers that the second    *)
(* benchmark will dereference lead to blocks and orders that it holds,     *)
(* each with its id                                                        *)
(* (mem_pool_separate_free_structure_benchmark.cpp:86, 97, 110, 120-126,   *)
(* 151, 161, 182-188, 212, 223, 251-258).                                  *)
(***************************************************************************)
THEOREM SeparateBenchPointersGood == BenchSpec => []HeldBlocksIntact
  <1>1. BenchInv => HeldBlocksIntact
    <2> SUFFICES ASSUME BenchInv PROVE HeldBlocksIntact
      OBVIOUS
    <2>1. Bench!HeldObjectsIntact
      BY Bench!PointersIntact, NumElemsAssumption, WordsAssumption,
         ObjectsAssumption, ColdSamplesAssumption, NullAssumption, PoolHasNElements,
         PointerAssumption, IdAssumption DEF BenchInv, Slots, Bench!Slots, Index, Bench!Index
    <2>2. Bench!Held = Held
      BY DEF Bench!Held, Held, Bench!Filling, Filling, Bench!Draining, Draining, Bench!Turn, Turn,
         Bench!Rounds, Rounds, Bench!half, half, Bench!cold_n, cold_n, Bench!Index, Index
    <2>3. Bench!InUse = live /\ live \subseteq Slots
      BY DEF Bench!InUse, Bench!Slots, Slots, BenchInv, IInv, TypeOK
    <2> QED
      BY <2>1, <2>2, <2>3 DEF HeldBlocksIntact, Bench!HeldObjectsIntact, Intact, Bench!Intact
  <1> QED
    BY <1>1, BenchInitMaps, BenchNextMaps, PTL DEF BenchSpec

(***************************************************************************)
(* For every n, the two benchmarks put the two pools and the heap through  *)
(* the same allocations and frees, with the same elements                  *)
(* (mem_pool_separate_free_structure_benchmark.cpp:315-379).               *)
(***************************************************************************)
THEOREM BenchmarksCompareLikeWithLike == BenchSpec => ComparesLikeWithLike
  BY BenchInitMaps, BenchNextMaps, PTL DEF BenchSpec, ComparesLikeWithLike, Other!BenchSpec
=============================================================================
