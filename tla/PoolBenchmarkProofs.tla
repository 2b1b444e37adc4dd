------------------------ MODULE PoolBenchmarkProofs ------------------------
(***************************************************************************)
(* The pool benchmark is correct for every n.  The invariant says that the *)
(* allocator at work, be it the pool or the heap, holds exactly the orders *)
(* that the benchmark still has a pointer to, each with its id, and that   *)
(* the other one holds nothing.  It is stated once, about a function from  *)
(* the live pointers to their ids: the heap is one, and the pool is seen   *)
(* as one through AsHeap.                                                  *)
(***************************************************************************)
EXTENDS PoolBenchmark, MemPoolProofs

Churning == {"prefill", "churn", "cleanup"}

\* The entries of churned that will still be freed.
Kept == IF stage = "cleanup" THEN i + 1 .. Len(churned) ELSE 1 .. Len(churned)

\* The rounds' variables, with pointers from P.
RoundsTypes(P) ==
    /\ allocator \in {"pool", "new", "malloc"}
    /\ stage \in Filling \cup Draining \cup Churning \cup {"done"}
    /\ i \in 0 .. Rounds
    /\ ptrs \in [Index -> P \cup {NULL}]
    /\ churned \in Seq([ptr : P, id : Index])
    /\ random_order \in [Index -> Index]
    /\ \A k, l \in Index : random_order[k] = random_order[l] => k = l

\* h holds what ptrs says, and nothing else.
HoldsPtrs(h) ==
    /\ \A r \in Held : ptrs[r] \in DOMAIN h /\ h[ptrs[r]] = r
    /\ \A a \in DOMAIN h : \E r \in Held : ptrs[r] = a

\* h holds what churned says, each entry once, and nothing else.
HoldsChurned(h) ==
    /\ \A k \in Kept : churned[k].ptr \in DOMAIN h /\ h[churned[k].ptr] = churned[k].id
    /\ \A k, l \in Kept : churned[k].ptr = churned[l].ptr => k = l
    /\ \A a \in DOMAIN h : \E k \in Kept : churned[k].ptr = a

\* h is what the allocator at work, with pointers from P, holds.
RoundsInv(P, h) ==
    /\ RoundsTypes(P)
    /\ DOMAIN h \subseteq P /\ h = [a \in DOMAIN h |-> h[a]]
    /\ stage \in Filling \cup Draining => HoldsPtrs(h)
    /\ stage \in Churning => HoldsChurned(h)
    /\ stage = "prefill" => Len(churned) = i
    /\ stage = "done" => DOMAIN h = {}

\* The pool, seen as a heap.
Stored == [p \in InUse |-> word[p]]

BenchInv ==
    /\ IInv
    /\ IF allocator = "pool" THEN RoundsInv(Slots, Stored) /\ heap = << >>
       ELSE RoundsInv(Addresses, heap) /\ InUse = {}

\* An order with this id comes to h at a, and the one at a goes.
Grown(h, g, a, id) ==
    /\ a \notin DOMAIN h
    /\ g = [x \in DOMAIN h \cup {a} |-> IF x = a THEN id ELSE h[x]]
Shrunk(h, g, a) ==
    /\ a \in DOMAIN h
    /\ g = [x \in DOMAIN h \ {a} |-> h[x]]

----------------------------------------------------------------------------
\* How many rounds there are.
LEMMA Counts ==
    /\ N \in Nat \ {0} /\ Index = 0 .. N - 1 /\ Index = Slots
    /\ half \in Nat /\ half <= N
    /\ cold_n \in Nat /\ cold_n <= N
  <1>1. N \in Nat \ {0} /\ Index = 0 .. N - 1 /\ Index = Slots
    BY NumElemsAssumption, PoolHasNElements DEF Index, Slots
  <1>2. half \in Nat /\ half <= N
    BY <1>1 DEF half
  <1> QED
    BY <1>1, <1>2, ColdSamplesAssumption DEF cold_n

\* bench_*_allocate() and the cold allocations: one more entry is held.
LEMMA FillKeeps ==
    ASSUME NEW P, NEW h, NEW g, NEW a \in P,
           RoundsInv(P, h), FillRound(a), Grown(h, g, a, i)
    PROVE  RoundsInv(P, g)'
  <1>1. /\ stage \in Filling /\ stage' = stage /\ i' = i + 1 /\ i < Rounds
        /\ ptrs' = [ptrs EXCEPT ![i] = a]
        /\ UNCHANGED <<allocator, random_order, churned>>
    BY DEF FillRound, Advance, More
  <1>2. Rounds \in Nat /\ Rounds <= N /\ Rounds' = Rounds
    BY <1>1, Counts DEF Rounds, Filling
  <1>3. i \in Index /\ i \in Nat /\ i + 1 \in 0 .. Rounds
    BY <1>1, <1>2, Counts DEF RoundsInv, RoundsTypes
  <1>4. RoundsTypes(P)'
    <2>1. ptrs' \in [Index -> P \cup {NULL}]
      BY <1>1, <1>3 DEF RoundsInv, RoundsTypes
    <2> QED
      BY <1>1, <1>2, <1>3, <2>1 DEF RoundsInv, RoundsTypes
  <1>5. /\ \A r \in Held' : r \in Held \/ r = i
        /\ \A r \in Held : r \in Held' /\ r # i /\ r \in Index
        /\ i \in Held'
    BY <1>1, <1>3, Counts DEF Held, Filling, Draining
  <1>6. DOMAIN g \subseteq P /\ g = [x \in DOMAIN g |-> g[x]]
    BY DEF RoundsInv, Grown
  <1>7. HoldsPtrs(h)
    BY <1>1 DEF RoundsInv
  <1>8. \A r \in Held : ptrs'[r] = ptrs[r]
    BY <1>1, <1>3, <1>5 DEF RoundsInv, RoundsTypes
  <1>9. ptrs'[i] = a
    BY <1>1, <1>3 DEF RoundsInv, RoundsTypes
  <1>10. HoldsPtrs(g)'
    <2>1. \A r \in Held' : ptrs'[r] \in DOMAIN g /\ g[ptrs'[r]] = r
      BY <1>5, <1>7, <1>8, <1>9 DEF HoldsPtrs, Grown
    <2>2. \A x \in DOMAIN g : \E r \in Held' : ptrs'[r] = x
      BY <1>5, <1>7, <1>8, <1>9 DEF HoldsPtrs, Grown
    <2> QED
      BY <2>1, <2>2 DEF HoldsPtrs
  <1> QED
    BY <1>1, <1>4, <1>6, <1>10 DEF RoundsInv, Filling, Draining, Churning

\* What a draining stage frees next is still held.
LEMMA TurnIsHeld ==
    ASSUME NEW P, RoundsTypes(P), stage \in Draining, i < Rounds
    PROVE  /\ Turn(i) \in Held
           /\ Rounds \in Nat /\ Rounds <= N /\ i \in Index
  <1>1. Rounds \in Nat /\ Rounds <= N /\ (stage = "shuffled" => Rounds = N)
    BY Counts DEF Rounds, Draining
  <1>2. i \in Index /\ i \in Nat /\ i \notin 0 .. i - 1
    BY <1>1, Counts DEF RoundsTypes
  <1>3. \A k \in 0 .. i - 1 : k \in Index /\ k # i
    BY <1>2, Counts
  <1>4. Turn(i) \in Index /\ Turn(i) < Rounds
    BY <1>1, <1>2, Counts DEF Turn, RoundsTypes
  <1>5. \A k \in 0 .. i - 1 : Turn(k) # Turn(i)
    BY <1>2, <1>3 DEF Turn, RoundsTypes
  <1> QED
    BY <1>1, <1>2, <1>4, <1>5 DEF Held

\* bench_*_deallocate(), in either order: one entry less is held.
LEMMA DrainKeeps ==
    ASSUME NEW P, NEW h, NEW g, NEW a,
           RoundsInv(P, h), DrainRound(a), Shrunk(h, g, a)
    PROVE  RoundsInv(P, g)'
  <1>1. /\ stage \in Draining /\ stage' = stage /\ i' = i + 1 /\ i < Rounds
        /\ a = ptrs[Turn(i)]
        /\ UNCHANGED <<allocator, random_order, churned, ptrs>>
    BY DEF DrainRound, Advance, More
  <1>2. Turn(i) \in Held /\ Rounds \in Nat /\ Rounds <= N /\ i \in Index
    BY <1>1, TurnIsHeld DEF RoundsInv
  <1>3. Rounds' = Rounds /\ i \in Nat /\ i + 1 \in 0 .. Rounds
    BY <1>1, <1>2, Counts DEF Rounds, Draining
  <1>4. RoundsTypes(P)'
    BY <1>1, <1>3 DEF RoundsInv, RoundsTypes
  <1>5. \A k : Turn(k)' = Turn(k)
    BY <1>1 DEF Turn
  <1>6. \A k : k \in 0 .. i' - 1 <=> k \in 0 .. i - 1 \/ k = i
    BY <1>1, <1>3
  <1>7. \A r : r \in Held' <=> r \in Held /\ r # Turn(i)
    <2>1. \A r : r \in Held <=> /\ r \in Index /\ r < Rounds
                               /\ \A k \in 0 .. i - 1 : Turn(k) # r
      BY <1>1 DEF Held, Filling, Draining
    <2>2. \A r : r \in Held' <=> /\ r \in Index /\ r < Rounds
                                /\ \A k \in 0 .. i' - 1 : Turn(k) # r
      BY <1>1, <1>3, <1>5 DEF Held, Filling, Draining
    <2> QED
      BY <1>6, <2>1, <2>2
  <1>8. HoldsPtrs(h)
    BY <1>1 DEF RoundsInv
  <1>9. HoldsPtrs(g)'
    <2>1. \A r \in Held' : ptrs'[r] \in DOMAIN g /\ g[ptrs'[r]] = r
      BY <1>1, <1>2, <1>7, <1>8 DEF HoldsPtrs, Shrunk
    <2>2. \A x \in DOMAIN g : \E r \in Held' : ptrs'[r] = x
      BY <1>1, <1>2, <1>7, <1>8 DEF HoldsPtrs, Shrunk
    <2> QED
      BY <2>1, <2>2 DEF HoldsPtrs
  <1>10. DOMAIN g \subseteq P /\ g = [x \in DOMAIN g |-> g[x]]
    BY DEF RoundsInv, Shrunk
  <1> QED
    BY <1>1, <1>4, <1>9, <1>10 DEF RoundsInv, Filling, Draining, Churning

\* One more entry in churned, for an order with the id i.
LEMMA AppendKeeps ==
    ASSUME NEW P, NEW h, NEW g, NEW a \in P, RoundsInv(P, h), Grown(h, g, a, i),
           stage \in {"prefill", "churn"}, Advance, UNCHANGED ptrs,
           churned' = Append(churned, [ptr |-> a, id |-> i])
    PROVE  RoundsInv(P, g)'
  <1>1. /\ stage' = stage /\ i' = i + 1 /\ i < Rounds
        /\ UNCHANGED <<allocator, random_order>>
    BY DEF Advance, More
  <1>2. Rounds \in Nat /\ Rounds <= N /\ Rounds' = Rounds
    BY <1>1, Counts DEF Rounds
  <1>3. i \in Index /\ i \in Nat /\ i + 1 \in 0 .. Rounds
    BY <1>1, <1>2, Counts DEF RoundsInv, RoundsTypes
  <1> DEFINE E == [ptr : P, id : Index]
             e == [ptr |-> a, id |-> i]
  <1>4. churned \in Seq(E) /\ e \in E /\ e.ptr = a /\ e.id = i
    BY <1>3 DEF RoundsInv, RoundsTypes
  <1> HIDE DEF E, e
  <1>5. /\ churned' \in Seq(E) /\ Len(churned) \in Nat /\ Len(churned') = Len(churned) + 1
        /\ churned'[Len(churned) + 1] = e
        /\ \A k \in 1 .. Len(churned) : churned'[k] = churned[k]
    BY <1>4 DEF e
  <1>6. RoundsTypes(P)'
    BY <1>1, <1>2, <1>3, <1>5 DEF RoundsInv, RoundsTypes, E
  <1>7. /\ Kept = 1 .. Len(churned)
        /\ \A k \in Kept' : k \in Kept \/ k = Len(churned) + 1
        /\ \A k \in Kept : k \in Kept' /\ k # Len(churned) + 1 /\ churned'[k] = churned[k]
        /\ Len(churned) + 1 \in Kept'
    BY <1>1, <1>5 DEF Kept
  <1>8. HoldsChurned(h)
    BY DEF RoundsInv, Churning
  <1>9. HoldsChurned(g)'
    <2>1. \A k \in Kept' : churned'[k].ptr \in DOMAIN g /\ g[churned'[k].ptr] = churned'[k].id
      BY <1>4, <1>5, <1>7, <1>8 DEF HoldsChurned, Grown
    <2>2. \A k, l \in Kept' : churned'[k].ptr = churned'[l].ptr => k = l
      BY <1>4, <1>5, <1>7, <1>8 DEF HoldsChurned, Grown
    <2>3. \A x \in DOMAIN g : \E k \in Kept' : churned'[k].ptr = x
      BY <1>4, <1>5, <1>7, <1>8 DEF HoldsChurned, Grown
    <2> QED
      BY <2>1, <2>2, <2>3 DEF HoldsChurned
  <1>10. DOMAIN g \subseteq P /\ g = [x \in DOMAIN g |-> g[x]]
    BY DEF RoundsInv, Grown
  <1> QED
    BY <1>1, <1>3, <1>5, <1>6, <1>9, <1>10 DEF RoundsInv, Filling, Draining, Churning

\* A churn round that obtains nothing leaves everything as it was.
LEMMA RefusedKeeps ==
    ASSUME NEW P, NEW h, RoundsInv(P, h), ChurnAllocateRound(NULL)
    PROVE  RoundsInv(P, h)'
  <1>1. /\ stage = "churn" /\ stage' = stage /\ i' = i + 1 /\ i < Rounds
        /\ UNCHANGED <<allocator, random_order, churned, ptrs>>
    BY DEF ChurnAllocateRound, Advance, More
  <1>2. Rounds = N /\ Rounds' = N /\ i \in Nat /\ i + 1 \in 0 .. N
    BY <1>1, Counts DEF Rounds, RoundsInv, RoundsTypes
  <1>3. RoundsTypes(P)'
    BY <1>1, <1>2 DEF RoundsInv, RoundsTypes
  <1>4. HoldsChurned(h)'
    BY <1>1 DEF RoundsInv, Churning, HoldsChurned, Kept
  <1> QED
    BY <1>1, <1>3, <1>4 DEF RoundsInv, Filling, Draining, Churning

\* The last entry takes the place of the k-th.
LEMMA VacatedEntries ==
    ASSUME NEW S, NEW c \in Seq(S), NEW k \in 1 .. Len(c)
    PROVE  /\ Vacated(c, k) \in Seq(S)
           /\ Len(c) \in Nat /\ Len(Vacated(c, k)) = Len(c) - 1
           /\ \A l \in 1 .. Len(c) - 1 : Vacated(c, k)[l] = IF l = k THEN c[Len(c)] ELSE c[l]
  <1> DEFINE d == [c EXCEPT ![k] = c[Len(c)]]
  <1>1. /\ Len(c) \in Nat /\ c[Len(c)] \in S /\ d \in Seq(S) /\ Len(d) = Len(c)
        /\ \A l \in 1 .. Len(c) : d[l] = IF l = k THEN c[Len(c)] ELSE c[l]
    OBVIOUS
  <1> HIDE DEF d
  <1>2. /\ SubSeq(d, 1, Len(c) - 1) \in Seq(S)
        /\ Len(SubSeq(d, 1, Len(c) - 1)) = Len(c) - 1
        /\ \A l \in 1 .. Len(c) - 1 : SubSeq(d, 1, Len(c) - 1)[l] = d[l]
    BY <1>1
  <1>3. Vacated(c, k) = SubSeq(d, 1, Len(c) - 1)
    BY DEF Vacated, d
  <1> QED
    BY <1>1, <1>2, <1>3

\* bench_*_churn(), heads: one entry less.
LEMMA ChurnFreeKeeps ==
    ASSUME NEW P, NEW h, NEW g, NEW k \in DOMAIN churned,
           RoundsInv(P, h), ChurnFreeRound(k), Shrunk(h, g, churned[k].ptr)
    PROVE  RoundsInv(P, g)'
  <1>1. /\ stage = "churn" /\ stage' = stage /\ i' = i + 1 /\ i < Rounds
        /\ churned' = Vacated(churned, k)
        /\ UNCHANGED <<allocator, random_order, ptrs>>
    BY DEF ChurnFreeRound, Advance, More
  <1>2. Rounds = N /\ Rounds' = N /\ i \in Nat /\ i + 1 \in 0 .. N
    BY <1>1, Counts DEF Rounds, RoundsInv, RoundsTypes
  <1> DEFINE E == [ptr : P, id : Index]
             n == Len(churned)
  <1>3. churned \in Seq(E) /\ k \in 1 .. n /\ n \in Nat
    BY DEF RoundsInv, RoundsTypes
  <1> HIDE DEF E
  <1>4. /\ churned' \in Seq(E) /\ Len(churned') = n - 1
        /\ \A l \in 1 .. n - 1 : churned'[l] = IF l = k THEN churned[n] ELSE churned[l]
    BY <1>1, <1>3, VacatedEntries
  <1>5. RoundsTypes(P)'
    BY <1>1, <1>2, <1>4 DEF RoundsInv, RoundsTypes, E
  <1>6. Kept = 1 .. n /\ Kept' = 1 .. n - 1
    BY <1>1, <1>4 DEF Kept
  <1>7. HoldsChurned(h)
    BY <1>1 DEF RoundsInv, Churning
  <1>8. HoldsChurned(g)'
    <2>1. \A l \in Kept' : \E m \in Kept : m # k /\ churned'[l] = churned[m]
      BY <1>3, <1>4, <1>6
    <2>2. \A l \in Kept' : churned'[l].ptr \in DOMAIN g /\ g[churned'[l].ptr] = churned'[l].id
      <3> SUFFICES ASSUME NEW l \in Kept'
                   PROVE  churned'[l].ptr \in DOMAIN g /\ g[churned'[l].ptr] = churned'[l].id
        OBVIOUS
      <3>1. PICK m \in Kept : m # k /\ churned'[l] = churned[m]
        BY <2>1
      <3>2. churned[m].ptr \in DOMAIN h /\ h[churned[m].ptr] = churned[m].id
        BY <1>7 DEF HoldsChurned
      <3>3. churned[m].ptr # churned[k].ptr
        BY <1>3, <1>6, <1>7, <3>1 DEF HoldsChurned
      <3> QED
        BY <3>1, <3>2, <3>3 DEF Shrunk
    <2>3. \A l, m \in Kept' : churned'[l].ptr = churned'[m].ptr => l = m
      <3> SUFFICES ASSUME NEW l \in Kept', NEW m \in Kept', churned'[l].ptr = churned'[m].ptr
                   PROVE  l = m
        OBVIOUS
      <3>1. /\ l \in 1 .. n - 1 /\ m \in 1 .. n - 1 /\ l \in Kept /\ m \in Kept /\ n \in Kept
            /\ l # n /\ m # n
        BY <1>3, <1>6
      <3>2. \A x, y \in Kept : churned[x].ptr = churned[y].ptr => x = y
        BY <1>7 DEF HoldsChurned
      <3>3. /\ churned'[l] = IF l = k THEN churned[n] ELSE churned[l]
            /\ churned'[m] = IF m = k THEN churned[n] ELSE churned[m]
        BY <1>4, <3>1
      <3> QED
        BY <3>1, <3>2, <3>3
    <2>4. \A x \in DOMAIN g : \E l \in Kept' : churned'[l].ptr = x
      <3> SUFFICES ASSUME NEW x \in DOMAIN g PROVE \E l \in Kept' : churned'[l].ptr = x
        OBVIOUS
      <3>1. PICK l \in Kept : churned[l].ptr = x /\ l # k
        BY <1>3, <1>6, <1>7 DEF HoldsChurned, Shrunk
      <3>2. CASE l = n
        <4>1. k \in Kept' /\ churned'[k] = churned[n]
          BY <1>3, <1>4, <1>6, <3>1, <3>2
        <4> QED
          BY <3>1, <3>2, <4>1
      <3>3. CASE l # n
        <4>1. l \in Kept' /\ churned'[l] = churned[l]
          BY <1>3, <1>4, <1>6, <3>1, <3>3
        <4> QED
          BY <3>1, <4>1
      <3> QED
        BY <3>2, <3>3
    <2> QED
      BY <2>2, <2>3, <2>4 DEF HoldsChurned
  <1>9. DOMAIN g \subseteq P /\ g = [x \in DOMAIN g |-> g[x]]
    BY DEF RoundsInv, Shrunk
  <1> QED
    BY <1>1, <1>5, <1>8, <1>9 DEF RoundsInv, Filling, Draining, Churning

\* What the churn left is freed from the front.
LEMMA CleanUpKeeps ==
    ASSUME NEW P, NEW h, NEW g, NEW a,
           RoundsInv(P, h), CleanUpRound(a), Shrunk(h, g, a)
    PROVE  RoundsInv(P, g)'
  <1>1. /\ stage = "cleanup" /\ stage' = stage /\ i' = i + 1 /\ i < Rounds
        /\ a = churned[i + 1].ptr
        /\ UNCHANGED <<allocator, random_order, churned, ptrs>>
    BY DEF CleanUpRound, Advance, More
  <1>2. /\ Len(churned) \in Nat /\ Rounds = Len(churned) /\ Rounds' = Len(churned)
        /\ i \in Nat /\ i + 1 \in 1 .. Len(churned)
    <2>1. Len(churned) \in Nat
      BY DEF RoundsInv, RoundsTypes
    <2>2. Rounds = Len(churned) /\ Rounds' = Len(churned)
      BY <1>1 DEF Rounds
    <2> QED
      BY <1>1, <2>1, <2>2 DEF RoundsInv, RoundsTypes
  <1>3. RoundsTypes(P)'
    BY <1>1, <1>2 DEF RoundsInv, RoundsTypes
  <1>4. \A k : k \in Kept' <=> k \in Kept /\ k # i + 1
    BY <1>1, <1>2 DEF Kept
  <1>5. i + 1 \in Kept
    BY <1>1, <1>2 DEF Kept
  <1>6. HoldsChurned(h)
    BY <1>1 DEF RoundsInv, Churning
  <1>7. HoldsChurned(g)'
    <2>1. \A k \in Kept' : churned'[k].ptr \in DOMAIN g /\ g[churned'[k].ptr] = churned'[k].id
      BY <1>1, <1>4, <1>5, <1>6 DEF HoldsChurned, Shrunk
    <2>2. \A k, l \in Kept' : churned'[k].ptr = churned'[l].ptr => k = l
      BY <1>1, <1>4, <1>6 DEF HoldsChurned
    <2>3. \A x \in DOMAIN g : \E k \in Kept' : churned'[k].ptr = x
      BY <1>1, <1>4, <1>5, <1>6 DEF HoldsChurned, Shrunk
    <2> QED
      BY <2>1, <2>2, <2>3 DEF HoldsChurned
  <1>8. DOMAIN g \subseteq P /\ g = [x \in DOMAIN g |-> g[x]]
    BY DEF RoundsInv, Shrunk
  <1> QED
    BY <1>1, <1>3, <1>7, <1>8 DEF RoundsInv, Filling, Draining, Churning

----------------------------------------------------------------------------
\* A permutation of the indices reaches each of them.
LEMMA EveryIndexHasATurn ==
    ASSUME NEW f \in [Index -> Index],
           \A k, l \in Index : f[k] = f[l] => k = l,
           NEW r \in Index
    PROVE  \E k \in Index : f[k] = r
  <1> SUFFICES ASSUME \A k \in Index : f[k] # r PROVE FALSE
    OBVIOUS
  <1>1. IsFiniteSet(Index) /\ Cardinality(Index) = N /\ N \in Nat \ {0}
    BY Counts, FS_Interval
  <1>2. IsFiniteSet(Index \ {r}) /\ Cardinality(Index \ {r}) = N - 1
    BY <1>1, FS_RemoveElement
  <1>3. f \in [Index -> Index \ {r}]
    OBVIOUS
  <1>4. \E k, l \in Index : k # l /\ f[k] = f[l]
    BY <1>1, <1>2, <1>3, FS_PigeonHole
  <1> QED
    BY <1>4

\* A store of fewer orders than there are places is not full.
LEMMA NotFull ==
    ASSUME NEW f, NEW m \in Nat, m < N, f \in [Slots -> 0 .. m - 1]
    PROVE  \E p, q \in Slots : p # q /\ f[p] = f[q]
  <1>1. IsFiniteSet(Slots) /\ Cardinality(Slots) = N
    BY Counts, FS_Interval
  <1>2. IsFiniteSet(0 .. m - 1) /\ Cardinality(0 .. m - 1) = m
    <2>1. 0 \in Int /\ m - 1 \in Int
      OBVIOUS
    <2> QED
      BY <2>1, FS_Interval
  <1> QED
    BY <1>1, <1>2, Counts, FS_PigeonHole

\* When a loop that frees has ended, nothing is left.
LEMMA EndedIsEmpty ==
    ASSUME NEW P, NEW h, RoundsInv(P, h), Ended, stage \in Draining \cup {"cleanup"}
    PROVE  DOMAIN h = {}
  <1>1. i = Rounds /\ Rounds \in Nat
    <2>1. Len(churned) \in Nat
      BY DEF RoundsInv, RoundsTypes
    <2>2. Rounds \in Nat
      BY <2>1, Counts DEF Rounds
    <2> QED
      BY <2>2 DEF Ended, More, RoundsInv, RoundsTypes
  <1>2. CASE stage = "cleanup"
    <2>1. Rounds = Len(churned)
      BY <1>2 DEF Rounds
    <2>2. Kept = {}
      BY <1>1, <1>2, <2>1 DEF Kept
    <2> QED
      BY <1>2, <2>2 DEF RoundsInv, Churning, HoldsChurned
  <1>3. CASE stage \in Draining
    <2>1. ASSUME NEW r \in Held PROVE FALSE
      <3>1. r \in Index /\ r < Rounds /\ \A k \in 0 .. i - 1 : Turn(k) # r
        BY <1>3, <2>1 DEF Held, Filling, Draining
      <3>2. CASE stage = "shuffled"
        <4>1. i = N
          BY <1>1, <3>2 DEF Rounds
        <4>2. PICK k \in Index : random_order[k] = r
          BY <3>1, EveryIndexHasATurn DEF RoundsInv, RoundsTypes
        <4>3. k \in 0 .. i - 1 /\ Turn(k) = r
          BY <3>2, <4>1, <4>2, Counts DEF Turn
        <4> QED
          BY <3>1, <4>3
      <3>3. CASE stage # "shuffled"
        <4>1. r \in 0 .. i - 1 /\ Turn(r) = r
          BY <1>1, <3>1, <3>3, Counts DEF Turn
        <4> QED
          BY <3>1, <4>1
      <3> QED
        BY <3>2, <3>3
    <2> QED
      BY <1>3, <2>1 DEF RoundsInv, HoldsPtrs
  <1> QED
    BY <1>2, <1>3

\* The counter of a loop that has ended.
LEMMA EndedAtRounds ==
    ASSUME NEW P, RoundsTypes(P), Ended
    PROVE  i = Rounds /\ Rounds \in Nat /\ Len(churned) \in Nat
  <1>1. Len(churned) \in Nat
    BY DEF RoundsTypes
  <1>2. Rounds \in Nat
    BY <1>1, Counts DEF Rounds
  <1> QED
    BY <1>1, <1>2 DEF Ended, More, RoundsTypes

\* Loops that go on with the pointers of the one before.
LEMMA ContinueKeeps ==
    ASSUME NEW P, NEW h, RoundsInv(P, h), NextLoop, ~StartsAnew
    PROVE  RoundsInv(P, h)' /\ allocator' = allocator
  <1>1. /\ i = Rounds /\ Rounds \in Nat /\ Len(churned) \in Nat
        /\ stage \in {"fill", "drain", "refill", "prefill", "churn", "cold"}
    <2>1. Ended
      BY DEF NextLoop
    <2> QED
      BY <2>1, EndedAtRounds
         DEF RoundsInv, RoundsTypes, Ended, StartsAnew, Filling, Draining, Churning
  <1>2. /\ i' = 0
        /\ UNCHANGED <<ptrs, churned, random_order, allocator>>
        /\ stage' = NextStage[stage]
    BY <1>1 DEF NextLoop, StartsAnew
  <1>3. /\ stage = "fill" => stage' = "drain"
        /\ stage = "drain" => stage' = "refill"
        /\ stage = "refill" => stage' = "shuffled"
        /\ stage = "prefill" => stage' = "churn"
        /\ stage = "churn" => stage' = "cleanup"
        /\ stage = "cold" => stage' = "uncold"
    BY <1>2 DEF NextStage
  <1>4. RoundsTypes(P)'
    <2>1. Rounds' \in Nat
      BY <1>1, <1>2, Counts DEF Rounds
    <2> QED
      BY <1>1, <1>2, <1>3, <2>1 DEF RoundsInv, RoundsTypes, Filling, Draining, Churning
  <1>5. CASE stage \in {"prefill", "churn"}
    <2>1. Kept' = Kept
      BY <1>1, <1>2, <1>3, <1>5 DEF Kept
    <2>2. HoldsChurned(h)'
      BY <1>2, <1>5, <2>1 DEF RoundsInv, Churning, HoldsChurned
    <2> QED
      BY <1>2, <1>3, <1>4, <1>5, <2>2 DEF RoundsInv, Filling, Draining, Churning
  <1>6. CASE stage \in {"fill", "refill", "cold"}
    <2>1. /\ stage' \in Draining
          /\ stage' = "uncold" <=> stage = "cold"
      BY <1>3, <1>6 DEF Draining
    <2>2. Rounds' = Rounds
      BY <1>2, <1>3, <1>6 DEF Rounds
    <2>3. \A r : r \in Held <=> r \in Index /\ r < Rounds
      BY <1>1, <1>6 DEF Held, Filling, Draining
    <2>4. \A r : r \in Held' <=> r \in Index /\ r < Rounds
      BY <1>2, <2>1, <2>2 DEF Held, Filling, Draining
    <2>5. HoldsPtrs(h)'
      BY <1>2, <1>6, <2>3, <2>4 DEF RoundsInv, Filling, HoldsPtrs
    <2> QED
      BY <1>2, <1>4, <1>6, <2>1, <2>5 DEF RoundsInv, Filling, Draining, Churning
  <1>7. CASE stage = "drain"
    <2>1. DOMAIN h = {}
      BY <1>7, EndedIsEmpty DEF NextLoop, Draining
    <2>2. \A r : r \notin Held'
      BY <1>2, <1>3, <1>7, Counts DEF Held, Filling, Draining
    <2>3. HoldsPtrs(h)'
      BY <2>1, <2>2 DEF HoldsPtrs
    <2> QED
      BY <1>2, <1>3, <1>4, <1>7, <2>3 DEF RoundsInv, Filling, Draining, Churning
  <1> QED
    BY <1>1, <1>2, <1>5, <1>6, <1>7

\* Loops that start with vectors of their own, on a store that holds nothing.
LEMMA StartKeeps ==
    ASSUME NEW P, NEW h, RoundsInv(P, h), NextLoop, StartsAnew,
           NEW Q, NEW g, DOMAIN g = {}, g = [x \in DOMAIN g |-> g[x]]
    PROVE  RoundsInv(Q, g)'
  <1>1. /\ stage \in {"shuffled", "cleanup", "uncold"}
        /\ i' = 0 /\ random_order' = random_order
        /\ ptrs' = [k \in Index |-> NULL] /\ churned' = << >>
        /\ allocator' = IF stage = "uncold" THEN NextAllocator[allocator] ELSE allocator
        /\ stage' = NextStage[stage]
    BY DEF NextLoop, StartsAnew
  <1>2. stage' \in {"prefill", "cold", "fill", "done"}
    BY <1>1 DEF NextStage
  <1>3. allocator' \in {"pool", "new", "malloc"}
    BY <1>1 DEF NextAllocator, RoundsInv, RoundsTypes
  <1>4. Len(churned') = 0 /\ churned' \in Seq([ptr : Q, id : Index])
    BY <1>1
  <1>5. Rounds' \in Nat
    BY <1>2, <1>4, Counts DEF Rounds
  <1>6. RoundsTypes(Q)'
    BY <1>1, <1>2, <1>3, <1>4, <1>5 DEF RoundsInv, RoundsTypes, Filling, Draining, Churning
  <1>7. stage' \in Filling => HoldsPtrs(g)'
    BY <1>1, Counts DEF HoldsPtrs, Held, Filling, Draining
  <1>8. stage' = "prefill" => HoldsChurned(g)'
    BY <1>4 DEF HoldsChurned, Kept
  <1> QED
    BY <1>1, <1>2, <1>4, <1>6, <1>7, <1>8 DEF RoundsInv, Filling, Draining, Churning

----------------------------------------------------------------------------
\* While orders are added that nobody frees, the pool always has room.
LEMMA RoomWhileFilling ==
    ASSUME IInv, RoundsInv(Slots, Stored), stage \in Filling \cup {"prefill"}, i < Rounds
    PROVE  ~Exhausted
  <1> SUFFICES ASSUME Exhausted PROVE FALSE
    OBVIOUS
  <1>1. InUse = Slots
    BY FullIffExhausted DEF ExhaustedIffFull
  <1>2. PICK h : h = Stored
    OBVIOUS
  <1>3. DOMAIN h = Slots
    BY <1>1, <1>2 DEF Stored
  <1>4. i \in Nat /\ i < N
    <2>1. Rounds \in Nat /\ Rounds <= N
      BY Counts DEF Rounds, Filling
    <2> QED
      BY <2>1, Counts DEF RoundsInv, RoundsTypes
  <1>5. CASE stage \in Filling
    <2>1. HoldsPtrs(h)
      BY <1>2, <1>5 DEF RoundsInv
    <2>2. \A r \in Held : r \in 0 .. i - 1
      BY <1>4, <1>5, Counts DEF Held, Filling, Draining
    <2>3. h \in [Slots -> 0 .. i - 1]
      <3>1. \A p \in Slots : h[p] \in 0 .. i - 1
        BY <1>3, <2>1, <2>2 DEF HoldsPtrs
      <3> QED
        BY <1>1, <1>2, <3>1 DEF Stored
    <2>4. \A p, q \in Slots : h[p] = h[q] => p = q
      BY <1>3, <2>1 DEF HoldsPtrs
    <2> QED
      BY <1>4, <2>3, <2>4, NotFull
  <1>6. CASE stage = "prefill"
    <2>1. HoldsChurned(h) /\ Len(churned) = i
      BY <1>2, <1>6 DEF RoundsInv, Churning
    <2>2. Kept = 1 .. i
      BY <1>6, <2>1 DEF Kept
    <2> DEFINE f == [p \in Slots |-> (CHOOSE k \in Kept : churned[k].ptr = p) - 1]
    <2>3. \A p \in Slots : \E k \in Kept : churned[k].ptr = p
      BY <1>3, <2>1 DEF HoldsChurned
    <2>4. \A p \in Slots : f[p] \in 0 .. i - 1 /\ churned[f[p] + 1].ptr = p
      <3> SUFFICES ASSUME NEW p \in Slots
                   PROVE  f[p] \in 0 .. i - 1 /\ churned[f[p] + 1].ptr = p
        OBVIOUS
      <3>1. PICK k : k = CHOOSE l \in Kept : churned[l].ptr = p
        OBVIOUS
      <3>2. k \in Kept /\ churned[k].ptr = p
        BY <2>3, <3>1
      <3>3. f[p] = k - 1
        BY <3>1
      <3> HIDE DEF f
      <3>4. f[p] + 1 = k
        BY <1>4, <2>2, <3>2, <3>3
      <3> QED
        BY <1>4, <2>2, <3>2, <3>3, <3>4
    <2>5. f \in [Slots -> 0 .. i - 1]
      BY <2>4
    <2> HIDE DEF f
    <2>6. \A p, q \in Slots : f[p] = f[q] => p = q
      BY <2>4
    <2> QED
      BY <1>4, <2>5, <2>6, NotFull
  <1> QED
    BY <1>5, <1>6

\* allocate() on the pool is an allocation on the heap it is seen as.
LEMMA AllocateGrows ==
    ASSUME IInv, NEW id \in Index, Allocate(id, ZeroObject)
    PROVE  /\ IInv'
           /\ next_free_index \in Slots
           /\ Grown(Stored, Stored', next_free_index, id)
  <1>1. id \in Words /\ ZeroObject \in Objects
    BY IdAssumption, ObjectsAssumption
  <1>2. IInv' /\ next_free_index \in is_free
    BY <1>1, AllocateIInv
  <1>3. next_free_index \in Slots /\ is_free \subseteq Slots /\ word \in [Slots -> Nat]
    BY <1>2 DEF IInv, TypeOK
  <1>4. is_free' = is_free \ {next_free_index} /\ word' = [word EXCEPT ![next_free_index] = id]
    BY DEF Allocate
  <1>5. InUse' = InUse \cup {next_free_index} /\ next_free_index \notin InUse
    BY <1>2, <1>3, <1>4 DEF InUse
  <1> QED
    BY <1>2, <1>3, <1>4, <1>5 DEF Grown, Stored, InUse

\* deallocate() is a free.
LEMMA DeallocateShrinks ==
    ASSUME IInv, NEW p \in DOMAIN Stored, Deallocate(p)
    PROVE  IInv' /\ Shrunk(Stored, Stored', p)
  <1>1. p \in InUse
    BY DEF Stored
  <1>2. IInv'
    BY <1>1, DeallocateIInv
  <1>3. word \in [Slots -> Nat] /\ p \in Slots
    BY <1>1 DEF IInv, TypeOK, InUse
  <1>4. is_free' = is_free \cup {p} /\ word' = [word EXCEPT ![p] = next_free_index]
    BY DEF Deallocate
  <1>5. InUse' = InUse \ {p}
    BY <1>3, <1>4 DEF InUse
  <1> QED
    BY <1>1, <1>2, <1>3, <1>4, <1>5 DEF Shrunk, Stored, InUse

----------------------------------------------------------------------------
\* A round that turns h, with pointers from P, into g.
Load(P, h, g) ==
    \/ \E a \in P : /\ FillRound(a) \/ PrefillRound(a) \/ ChurnAllocateRound(a)
                    /\ Grown(h, g, a, i)
    \/ \E a \in P : /\ DrainRound(a) \/ CleanUpRound(a)
                    /\ Shrunk(h, g, a)
    \/ \E k \in DOMAIN churned : ChurnFreeRound(k) /\ Shrunk(h, g, churned[k].ptr)

\* A churn round that meets the full pool.
Refused == ChurnAllocateRound(NULL) /\ InUse = Slots /\ UNCHANGED vars

\* Whatever the store, its rounds keep the invariant.
LEMMA LoadKeeps ==
    ASSUME NEW P, NEW h, NEW g, NULL \notin P, RoundsInv(P, h), Load(P, h, g)
    PROVE  RoundsInv(P, g)' /\ allocator' = allocator
  <1>1. CASE \E a \in P : FillRound(a) /\ Grown(h, g, a, i)
    BY <1>1, FillKeeps DEF FillRound, Advance
  <1>2. CASE \E a \in P : PrefillRound(a) /\ Grown(h, g, a, i)
    BY <1>2, AppendKeeps DEF PrefillRound, Advance
  <1>3. CASE \E a \in P : ChurnAllocateRound(a) /\ Grown(h, g, a, i)
    <2>1. PICK a \in P : ChurnAllocateRound(a) /\ Grown(h, g, a, i)
      BY <1>3
    <2>2. /\ a # NULL /\ stage = "churn" /\ Advance /\ UNCHANGED ptrs
          /\ churned' = Append(churned, [ptr |-> a, id |-> i])
      BY <2>1 DEF ChurnAllocateRound
    <2> QED
      BY <2>1, <2>2, AppendKeeps DEF Advance
  <1>4. CASE \E a \in P : DrainRound(a) /\ Shrunk(h, g, a)
    BY <1>4, DrainKeeps DEF DrainRound, Advance
  <1>5. CASE \E a \in P : CleanUpRound(a) /\ Shrunk(h, g, a)
    BY <1>5, CleanUpKeeps DEF CleanUpRound, Advance
  <1>6. CASE \E k \in DOMAIN churned : ChurnFreeRound(k) /\ Shrunk(h, g, churned[k].ptr)
    BY <1>6, ChurnFreeKeeps DEF ChurnFreeRound, Advance
  <1> QED
    BY <1>1, <1>2, <1>3, <1>4, <1>5, <1>6 DEF Load

\* What is freed is held.
LEMMA FreesWhatIsHeld ==
    ASSUME NEW P, NEW h, RoundsInv(P, h)
    PROVE  /\ \A a : DrainRound(a) \/ CleanUpRound(a) => a \in DOMAIN h
           /\ \A k \in DOMAIN churned : ChurnFreeRound(k) => churned[k].ptr \in DOMAIN h
  <1>1. ASSUME NEW a, DrainRound(a) PROVE a \in DOMAIN h
    <2>1. stage \in Draining /\ i < Rounds /\ a = ptrs[Turn(i)]
      BY <1>1 DEF DrainRound, Advance, More
    <2>2. Turn(i) \in Held
      BY <2>1, TurnIsHeld DEF RoundsInv
    <2> QED
      BY <2>1, <2>2 DEF RoundsInv, HoldsPtrs
  <1>2. ASSUME NEW a, CleanUpRound(a) PROVE a \in DOMAIN h
    <2>1. stage = "cleanup" /\ i < Rounds /\ a = churned[i + 1].ptr
      BY <1>2 DEF CleanUpRound, Advance, More
    <2>2. Rounds = Len(churned)
      BY <2>1 DEF Rounds
    <2>3. Len(churned) \in Nat /\ i \in Nat
      BY <2>2 DEF RoundsInv, RoundsTypes
    <2>4. i + 1 \in Kept
      BY <2>1, <2>2, <2>3 DEF Kept
    <2> QED
      BY <2>1, <2>4 DEF RoundsInv, Churning, HoldsChurned
  <1>3. ASSUME NEW k \in DOMAIN churned, ChurnFreeRound(k) PROVE churned[k].ptr \in DOMAIN h
    <2>1. stage = "churn"
      BY <1>3 DEF ChurnFreeRound
    <2>2. k \in Kept
      BY <1>3, <2>1 DEF Kept, RoundsInv, RoundsTypes
    <2> QED
      BY <2>1, <2>2 DEF RoundsInv, Churning, HoldsChurned
  <1> QED
    BY <1>1, <1>2, <1>3

\* Every round on the pool is a round on the heap it is seen as, or refused.
LEMMA PoolRoundsLoad ==
    ASSUME IInv, RoundsInv(Slots, Stored), PoolRounds
    PROVE  /\ IInv'
           /\ heap' = heap
           /\ Load(Slots, Stored, Stored') \/ Refused
  <1>1. heap' = heap
    BY DEF PoolRounds
  <1>2. stage \in Filling \cup {"prefill", "churn"} /\ More => i \in Index
    <2>1. stage \in Filling \cup {"prefill", "churn"} => Rounds \in Nat /\ Rounds <= N
      BY Counts DEF Rounds, Filling
    <2> QED
      BY <2>1, Counts DEF More, RoundsInv, RoundsTypes
  <1>3. Exhausted <=> InUse = Slots
    BY FullIffExhausted DEF ExhaustedIffFull
  <1>4. ASSUME ~Exhausted, CallAllocate(i), i \in Index
        PROVE  /\ IInv' /\ Returned \in Slots
               /\ Grown(Stored, Stored', Returned, i)
    BY <1>4, AllocateGrows DEF CallAllocate, Returned
  <1>5. CASE Fill \/ Prefill
    <2>1. /\ More /\ stage \in Filling \cup {"prefill"} /\ CallAllocate(i)
          /\ FillRound(Returned) \/ PrefillRound(Returned)
      BY <1>5 DEF Fill, Prefill, FillRound, PrefillRound, Advance
    <2>2. ~Exhausted
      BY <2>1, RoomWhileFilling DEF More
    <2>3. i \in Index
      BY <1>2, <2>1
    <2> QED
      BY <1>1, <1>4, <2>1, <2>2, <2>3 DEF Load
  <1>6. CASE ChurnAllocate
    <2>1. More /\ stage = "churn" /\ CallAllocate(i) /\ ChurnAllocateRound(Returned)
      BY <1>6 DEF ChurnAllocate, ChurnAllocateRound, Advance
    <2>2. CASE ~Exhausted
      BY <1>1, <1>2, <1>4, <2>1, <2>2 DEF Load
    <2>3. CASE Exhausted
      <3>1. UNCHANGED vars /\ ChurnAllocateRound(NULL)
        BY <2>1, <2>3 DEF CallAllocate, Returned
      <3>2. IInv'
        BY <3>1 DEF vars, IInv, TypeOK, FreeListExact, IsFreeList
      <3> QED
        BY <1>1, <1>3, <2>3, <3>1, <3>2 DEF Refused
    <2> QED
      BY <2>2, <2>3
  <1>7. CASE Drain \/ CleanUp
    <2>1. PICK p \in Slots : (DrainRound(p) \/ CleanUpRound(p)) /\ Deallocate(p)
      BY <1>7 DEF Drain, CleanUp
    <2>2. p \in DOMAIN Stored
      BY <2>1, FreesWhatIsHeld
    <2> QED
      BY <1>1, <2>1, <2>2, DeallocateShrinks DEF Load
  <1>8. CASE \E k \in DOMAIN churned : ChurnFree(k)
    <2>1. PICK k \in DOMAIN churned : ChurnFreeRound(k) /\ Deallocate(churned[k].ptr)
      BY <1>8 DEF ChurnFree
    <2>2. churned[k].ptr \in DOMAIN Stored
      BY <2>1, FreesWhatIsHeld
    <2> QED
      BY <1>1, <2>1, <2>2, DeallocateShrinks DEF Load
  <1> QED
    BY <1>5, <1>6, <1>7, <1>8 DEF PoolRounds

\* So is every round on the heap.
LEMMA HeapRoundsLoad ==
    ASSUME HeapRounds
    PROVE  Load(Addresses, heap, heap') /\ UNCHANGED vars
  <1>1. UNCHANGED vars /\ HeapRound
    BY DEF HeapRounds
  <1>2. ASSUME NEW a \in Addresses, HeapFill(a) \/ HeapPrefill(a) \/ HeapChurnAllocate(a)
        PROVE  Load(Addresses, heap, heap')
    BY <1>2 DEF HeapFill, HeapPrefill, HeapChurnAllocate, Heap!Allocate, Load, Grown
  <1>3. ASSUME NEW a \in Addresses, HeapDrain(a) \/ HeapCleanUp(a)
        PROVE  Load(Addresses, heap, heap')
    BY <1>3 DEF HeapDrain, HeapCleanUp, Heap!Deallocate, Load, Shrunk
  <1>4. ASSUME NEW k \in DOMAIN churned, HeapChurnFree(k)
        PROVE  Load(Addresses, heap, heap')
    BY <1>4 DEF HeapChurnFree, Heap!Deallocate, Load, Shrunk
  <1> QED
    BY <1>1, <1>2, <1>3, <1>4 DEF HeapRound

----------------------------------------------------------------------------
\* A heap without orders.
LEMMA EmptyHeap ==
    /\ DOMAIN << >> = {}
    /\ << >> = [x \in DOMAIN << >> |-> << >>[x]]
    /\ \A h : DOMAIN h = {} /\ h = [x \in DOMAIN h |-> h[x]] => h = << >>
  OBVIOUS

\* A new pool holds nothing.
LEMMA NewPoolIsEmpty ==
    ASSUME NewPool
    PROVE  IInv' /\ InUse' = {} /\ DOMAIN Stored' = {}
  <1>1. Init'
    BY DEF NewPool, Init
  <1>2. IInv'
    BY <1>1, InitIInv, PTL
  <1>3. InUse' = {}
    BY DEF NewPool, InUse
  <1> QED
    BY <1>2, <1>3 DEF Stored

\* The benchmark starts with an empty pool and an empty heap.
LEMMA BenchInitInv == BenchInit => BenchInv
  <1> SUFFICES ASSUME BenchInit PROVE BenchInv
    OBVIOUS
  <1>1. Init /\ RoundsInit
    BY DEF BenchInit
  <1>2. IInv /\ InUse = {} /\ DOMAIN Stored = {} /\ Stored = [p \in DOMAIN Stored |-> Stored[p]]
    BY <1>1, InitIInv DEF Init, InUse, Stored
  <1>3. heap = << >>
    BY <1>1, EmptyHeap DEF RoundsInit, Heap!Init
  <1>4. /\ allocator = "pool" /\ stage = "fill" /\ i = 0
        /\ random_order \in [Index -> Index]
        /\ \A k, l \in Index : random_order[k] = random_order[l] => k = l
        /\ ptrs = [k \in Index |-> NULL] /\ churned = << >>
    BY <1>1 DEF RoundsInit
  <1>5. Rounds = N
    BY <1>4 DEF Rounds
  <1>6. RoundsTypes(Slots)
    BY <1>4, <1>5, Counts DEF RoundsTypes, Filling
  <1>7. HoldsPtrs(Stored)
    BY <1>2, <1>4, Counts DEF HoldsPtrs, Held, Filling, Draining
  <1>8. RoundsInv(Slots, Stored)
    BY <1>2, <1>4, <1>6, <1>7 DEF RoundsInv, Filling, Draining, Churning
  <1> QED
    BY <1>2, <1>3, <1>4, <1>8 DEF BenchInv

\* run_benchmark() goes on to its next loop.
LEMMA ProceedInv ==
    ASSUME BenchInv, Proceed
    PROVE  BenchInv'
  <1>1. NextLoop /\ heap' = heap
    BY DEF Proceed, NextLoop
  <1> USE DEF RoundsInv, RoundsTypes, HoldsPtrs, HoldsChurned
  <1>2. CASE allocator = "pool" /\ ~StartsAnew
    <2>1. UNCHANGED vars
      BY <1>2 DEF Proceed
    <2>2. IInv' /\ Stored' = Stored
      BY <2>1 DEF vars, BenchInv, IInv, TypeOK, FreeListExact, IsFreeList, Stored, InUse
    <2>3. PICK h : h = Stored
      OBVIOUS
    <2>4. RoundsInv(Slots, h)' /\ allocator' = allocator
      <3> HIDE DEF RoundsInv
      <3> QED
        BY <1>1, <1>2, <2>3, ContinueKeeps DEF BenchInv
    <2>5. RoundsInv(Slots, Stored)'
      BY <2>2, <2>3, <2>4
    <2> QED
      BY <1>1, <1>2, <2>2, <2>4, <2>5 DEF BenchInv
  <1>3. CASE allocator = "pool" /\ StartsAnew
    <2>1. NewPool
      BY <1>3 DEF Proceed
    <2>2. IInv' /\ InUse' = {} /\ DOMAIN Stored' = {}
      BY <2>1, NewPoolIsEmpty
    <2>3. PICK h, g : h = Stored /\ g = Stored'
      OBVIOUS
    <2>4. DOMAIN g = {} /\ g = [x \in DOMAIN g |-> g[x]]
      BY <2>2, <2>3 DEF Stored
    <2>5. heap = << >> /\ RoundsInv(Slots, h)
      BY <1>3, <2>3 DEF BenchInv
    <2>6. RoundsInv(Slots, g)'
      <3> HIDE DEF RoundsInv
      <3> QED
        BY <1>1, <1>3, <2>4, <2>5, StartKeeps
    <2>7. RoundsInv(Slots, Stored)'
      BY <2>3, <2>6
    <2>8. RoundsInv(Addresses, << >>)'
      <3> HIDE DEF RoundsInv
      <3> QED
        BY <1>1, <1>3, <2>5, EmptyHeap, StartKeeps
    <2>9. RoundsInv(Addresses, heap)'
      BY <1>1, <2>5, <2>8
    <2> QED
      BY <1>1, <2>2, <2>5, <2>7, <2>9 DEF BenchInv
  <1>4. CASE allocator # "pool"
    <2>1. UNCHANGED vars
      BY <1>4 DEF Proceed
    <2>2. IInv' /\ InUse' = {}
      BY <1>4, <2>1 DEF vars, BenchInv, IInv, TypeOK, FreeListExact, IsFreeList, InUse
    <2>3. PICK h : h = heap
      OBVIOUS
    <2>4. RoundsInv(Addresses, h)
      BY <1>4, <2>3 DEF BenchInv
    <2>5. allocator' # "pool"
      BY <1>1, <1>4, <2>4 DEF NextLoop, NextAllocator
    <2>6. RoundsInv(Addresses, h)'
      <3> HIDE DEF RoundsInv
      <3>1. CASE ~StartsAnew
        BY <1>1, <2>4, <3>1, ContinueKeeps
      <3>2. CASE StartsAnew
        <4>1. DOMAIN h = {} /\ h = [x \in DOMAIN h |-> h[x]]
          BY <1>1, <2>4, <3>2, EndedIsEmpty DEF NextLoop, StartsAnew, Draining, RoundsInv
        <4> QED
          BY <1>1, <2>4, <3>2, <4>1, StartKeeps
      <3> QED
        BY <3>1, <3>2
    <2>7. RoundsInv(Addresses, heap)'
      BY <1>1, <2>3, <2>6
    <2> QED
      BY <2>2, <2>5, <2>7 DEF BenchInv
  <1> QED
    BY <1>2, <1>3, <1>4

\* Each step keeps the invariant.
LEMMA BenchNextInv == BenchInv /\ [BenchNext]_allVars => BenchInv'
  <1> SUFFICES ASSUME BenchInv, [BenchNext]_allVars PROVE BenchInv'
    OBVIOUS
  <1>1. CASE PoolRounds
    <2>1. allocator = "pool" /\ IInv /\ RoundsInv(Slots, Stored) /\ heap = << >>
      BY <1>1 DEF PoolRounds, BenchInv
    <2>2. IInv' /\ heap' = heap /\ (Load(Slots, Stored, Stored') \/ Refused)
      BY <1>1, <2>1, PoolRoundsLoad
    <2>3. PICK h, g : h = Stored /\ g = Stored'
      OBVIOUS
    <2>4. RoundsInv(Slots, g)' /\ allocator' = allocator
      <3>1. CASE Load(Slots, h, g)
        BY <2>1, <2>3, <3>1, LoadKeeps, PointerAssumption
      <3>2. CASE Refused
        <4>1. g = h /\ ChurnAllocateRound(NULL)
          BY <2>3, <3>2 DEF Refused, Stored, InUse, vars
        <4> QED
          BY <2>1, <2>3, <4>1, RefusedKeeps DEF ChurnAllocateRound, Advance
      <3> QED
        BY <2>2, <2>3, <3>1, <3>2
    <2>5. RoundsInv(Slots, Stored)'
      BY <2>3, <2>4 DEF RoundsInv, RoundsTypes, HoldsPtrs, HoldsChurned
    <2> QED
      BY <2>1, <2>2, <2>4, <2>5 DEF BenchInv
  <1>2. CASE HeapRounds
    <2>1. allocator # "pool" /\ RoundsInv(Addresses, heap) /\ InUse = {} /\ IInv
      BY <1>2 DEF HeapRounds, BenchInv
    <2>2. Load(Addresses, heap, heap') /\ UNCHANGED vars
      BY <1>2, HeapRoundsLoad
    <2>3. IInv' /\ InUse' = {}
      BY <2>1, <2>2 DEF vars, IInv, TypeOK, FreeListExact, IsFreeList, InUse
    <2>4. PICK h, g : h = heap /\ g = heap'
      OBVIOUS
    <2>5. RoundsInv(Addresses, g)' /\ allocator' = allocator
      BY <2>1, <2>2, <2>4, LoadKeeps, NullAssumption
    <2>6. RoundsInv(Addresses, heap)'
      BY <2>4, <2>5 DEF RoundsInv, RoundsTypes, HoldsPtrs, HoldsChurned
    <2> QED
      BY <2>1, <2>3, <2>5, <2>6 DEF BenchInv
  <1>3. CASE Proceed
    BY <1>3, ProceedInv
  <1>4. CASE UNCHANGED allVars
    <2>1. UNCHANGED <<vars, allocator, stage, i, random_order, ptrs, churned, heap>>
      BY <1>4 DEF allVars, benchVars
    <2>2. (IInv' <=> IInv) /\ InUse' = InUse /\ Stored' = Stored
      BY <2>1 DEF vars, IInv, TypeOK, FreeListExact, IsFreeList, Stored, InUse
    <2>3. Rounds' = Rounds /\ Kept' = Kept
      BY <2>1 DEF Rounds, Kept
    <2>4. Held' = Held
      BY <2>1, <2>3 DEF Held, Turn
    <2>5. PICK h, g : h = Stored /\ g = heap
      OBVIOUS
    <2>6. /\ RoundsInv(Slots, h)' <=> RoundsInv(Slots, h)
          /\ RoundsInv(Addresses, g)' <=> RoundsInv(Addresses, g)
      BY <2>1, <2>3, <2>4 DEF RoundsInv, RoundsTypes, HoldsPtrs, HoldsChurned
    <2>7. /\ RoundsInv(Slots, Stored)' <=> RoundsInv(Slots, h)'
          /\ RoundsInv(Addresses, heap)' <=> RoundsInv(Addresses, g)'
      BY <2>1, <2>2, <2>5 DEF RoundsInv, RoundsTypes, HoldsPtrs, HoldsChurned
    <2> QED
      BY <2>1, <2>2, <2>5, <2>6, <2>7 DEF BenchInv
  <1> QED
    BY <1>1, <1>2, <1>3, <1>4 DEF BenchNext, Finished

\* The invariant of all the theorems below.
LEMMA AlwaysBenchInv == BenchSpec => []BenchInv
  BY BenchInitInv, BenchNextInv, PTL DEF BenchSpec

\* The entries of churned.
LEMMA ChurnedEntries ==
    ASSUME NEW P, RoundsTypes(P), NEW k \in DOMAIN churned
    PROVE  churned[k].ptr \in P /\ churned[k].id \in Index
           /\ churned[k] \in [ptr : P \cup {NULL}, id : Index]
  <1> DEFINE E == [ptr : P, id : Index]
  <1>1. churned \in Seq(E)
    BY DEF RoundsTypes
  <1> HIDE DEF E
  <1>2. churned[k] \in E
    BY <1>1
  <1> QED
    BY <1>2 DEF E

(***************************************************************************)
(* For every n, the counters stay within their loops and every pointer     *)
(* within the store of the allocator it came from                          *)
(* (mem_pool_benchmark.cpp:71-248).                                        *)
(***************************************************************************)
THEOREM BenchTypes == BenchSpec => []BenchTypeOK
  <1>1. BenchInv => BenchTypeOK
    <2> SUFFICES ASSUME BenchInv PROVE BenchTypeOK
      OBVIOUS
    <2>1. TypeOK
      BY DEF BenchInv, IInv
    <2> DEFINE P == IF allocator = "pool" THEN Slots ELSE Addresses
    <2>2. RoundsTypes(P)
      BY DEF BenchInv, RoundsInv
    <2> HIDE DEF P
    <2>3. \A k \in DOMAIN churned : churned[k] \in [ptr : P \cup {NULL}, id : Index]
      BY <2>2, ChurnedEntries
    <2>4. DOMAIN heap \subseteq Addresses /\ \A a \in DOMAIN heap : heap[a] \in Index
      <3>1. CASE allocator = "pool"
        BY <3>1, EmptyHeap DEF BenchInv
      <3>2. CASE allocator # "pool"
        <4>1. RoundsInv(Addresses, heap)
          BY <3>2 DEF BenchInv
        <4>2. DOMAIN heap \subseteq Addresses
          BY <4>1 DEF RoundsInv
        <4>3. \A r \in Held : r \in Index
          BY DEF Held
        <4>4. ASSUME stage \in Churning, NEW k \in Kept PROVE churned[k].id \in Index
          <5>1. k \in DOMAIN churned
            BY <4>4, <4>1 DEF RoundsInv, RoundsTypes, Kept
          <5> QED
            BY <4>1, <5>1, ChurnedEntries DEF RoundsInv
        <4>5. ASSUME NEW a \in DOMAIN heap PROVE heap[a] \in Index
          <5>1. CASE stage \in Filling \cup Draining
            BY <4>1, <4>3, <5>1 DEF RoundsInv, HoldsPtrs
          <5>2. CASE stage \in Churning
            BY <4>1, <4>4, <5>2 DEF RoundsInv, HoldsChurned
          <5> QED
            BY <4>1, <5>1, <5>2 DEF RoundsInv, RoundsTypes
        <4> QED
          BY <4>2, <4>5
      <3> QED
        BY <3>1, <3>2
    <2>5. RoundsTypeOK(P)
      BY <2>2, <2>3, <2>4
         DEF RoundsTypes, RoundsTypeOK, NextAllocator, NextStage, Filling, Draining, Churning
    <2> QED
      BY <2>1, <2>5 DEF BenchTypeOK, P
  <1> QED
    BY <1>1, AlwaysBenchInv, PTL

\* The invariant has the ids of all pointers that will be dereferenced.
LEMMA PointersIntact == BenchInv => HeldObjectsIntact
  <1> SUFFICES ASSUME BenchInv PROVE HeldObjectsIntact
    OBVIOUS
  <1>1. ASSUME NEW P, NEW h, RoundsInv(P, h)
        PROVE  /\ \A r \in Held : ptrs[r] \in DOMAIN h /\ h[ptrs[r]] = r
               /\ stage \in {"prefill", "churn"} =>
                     \A k \in DOMAIN churned :
                        churned[k].ptr \in DOMAIN h /\ h[churned[k].ptr] = churned[k].id
    <2>1. stage \notin Filling \cup Draining => Held = {}
      BY DEF Held
    <2>2. stage \in {"prefill", "churn"} => DOMAIN churned = Kept
      BY <1>1 DEF RoundsInv, RoundsTypes, Kept
    <2> QED
      BY <1>1, <2>1, <2>2 DEF RoundsInv, HoldsPtrs, HoldsChurned, Churning
  <1>2. CASE allocator = "pool"
    <2>1. RoundsInv(Slots, Stored)
      BY <1>2 DEF BenchInv
    <2>2. /\ \A r \in Held : ptrs[r] \in InUse /\ word[ptrs[r]] = r
          /\ stage \in {"prefill", "churn"} =>
                \A k \in DOMAIN churned :
                   churned[k].ptr \in InUse /\ word[churned[k].ptr] = churned[k].id
      BY <1>1, <2>1 DEF Stored
    <2> QED
      BY <1>2, <2>2 DEF HeldObjectsIntact, Intact
  <1>3. CASE allocator # "pool"
    <2>1. RoundsInv(Addresses, heap)
      BY <1>3 DEF BenchInv
    <2> QED
      BY <1>1, <1>3, <2>1 DEF HeldObjectsIntact, Intact
  <1> QED
    BY <1>2, <1>3

(***************************************************************************)
(* For every n and every order of freeing, no pointer that the benchmark   *)
(* will dereference is null, dangling or shared: the unchecked results of  *)
(* allocate() are always elements, and each still holds its id             *)
(* (mem_pool_benchmark.cpp:80, 90, 102, 112-118, 143, 153, 174-180, 204,   *)
(* 214, 238-245).                                                          *)
(***************************************************************************)
THEOREM BenchPointersGood == BenchSpec => []HeldObjectsIntact
  BY PointersIntact, AlwaysBenchInv, PTL

(***************************************************************************)
(* For every n, each of the loops that free ends with an empty pool and an *)
(* empty heap: also the one in random order, because a permutation reaches *)
(* every index, and the one after the churn (mem_pool_benchmark.cpp:79-92, *)
(* 124, 183, 248).                                                         *)
(***************************************************************************)
THEOREM BenchReturnsAll == BenchSpec => []AllReturned
  <1>1. BenchInv => AllReturned
    <2> SUFFICES ASSUME BenchInv, Ended, stage \in Draining \cup {"cleanup"}
                 PROVE  InUse = {} /\ heap = << >>
      BY DEF AllReturned
    <2>1. CASE allocator = "pool"
      <3>1. RoundsInv(Slots, Stored) /\ heap = << >>
        BY <2>1 DEF BenchInv
      <3>2. DOMAIN Stored = {}
        BY <3>1, EndedIsEmpty
      <3> QED
        BY <3>1, <3>2 DEF Stored
    <2>2. CASE allocator # "pool"
      <3>1. RoundsInv(Addresses, heap) /\ InUse = {}
        BY <2>2 DEF BenchInv
      <3>2. DOMAIN heap = {}
        BY <3>1, EndedIsEmpty
      <3> QED
        BY <3>1, <3>2, EmptyHeap DEF RoundsInv
    <2> QED
      BY <2>1, <2>2
  <1> QED
    BY <1>1, AlwaysBenchInv, PTL

\* The rounds are the same rounds, whatever their store is.
LEMMA RoundsAsHeap ==
    /\ \A a : /\ FillRound(a) => AsHeap!FillRound(a)
              /\ DrainRound(a) => AsHeap!DrainRound(a)
              /\ PrefillRound(a) => AsHeap!PrefillRound(a)
              /\ ChurnAllocateRound(a) => AsHeap!ChurnAllocateRound(a)
              /\ CleanUpRound(a) => AsHeap!CleanUpRound(a)
              /\ ChurnFreeRound(a) => AsHeap!ChurnFreeRound(a)
    /\ AsHeap!Ended = Ended
  <1>1. AsHeap!Rounds = Rounds
    BY DEF AsHeap!Rounds, Rounds, AsHeap!half, half, AsHeap!cold_n, cold_n
  <1>2. Advance => AsHeap!Advance
    BY <1>1 DEF Advance, AsHeap!Advance, More, AsHeap!More
  <1>3. AsHeap!Ended = Ended
    BY <1>1 DEF Ended, AsHeap!Ended, More, AsHeap!More
  <1> QED
    BY <1>2, <1>3 DEF FillRound, AsHeap!FillRound, DrainRound, AsHeap!DrainRound,
       PrefillRound, AsHeap!PrefillRound, ChurnAllocateRound, AsHeap!ChurnAllocateRound,
       CleanUpRound, AsHeap!CleanUpRound, ChurnFreeRound, AsHeap!ChurnFreeRound,
       Filling, AsHeap!Filling, Draining, AsHeap!Draining, Turn, AsHeap!Turn,
       Vacated, AsHeap!Vacated

(***************************************************************************)
(* For every n, the rounds of the pool are rounds of a heap over its       *)
(* elements, with the same draws, except for a churn that meets the full   *)
(* pool (mem_pool_benchmark.cpp:117-118, 179, 243-245, 319).               *)
(***************************************************************************)
THEOREM BenchLoadsAreEqual == BenchSpec => SameLoadAsHeap
  <1> DEFINE Same == \/ AsHeap!HeapRound
                     \/ AsHeap!NextLoop
                     \/ stage = "churn" /\ InUse = Slots /\ UNCHANGED <<vars, churned>>
  <1>1. BenchInv /\ [BenchNext]_allVars => [allocator = "pool" => Same]_allVars
    <2> SUFFICES ASSUME BenchInv, BenchNext, allocator = "pool"
                 PROVE  Same \/ UNCHANGED allVars
      OBVIOUS
    <2>1. IInv /\ RoundsInv(Slots, Stored)
      BY DEF BenchInv
    <2>2. CASE PoolRounds
      <3>1. Load(Slots, Stored, Stored') \/ Refused
        BY <2>1, <2>2, PoolRoundsLoad
      <3>2. CASE Refused
        BY <3>2 DEF Refused, ChurnAllocateRound
      <3>3. ASSUME NEW a \in Slots, Grown(Stored, Stored', a, i)
            PROVE  AsHeap!Heap!Allocate(a, i)
        BY <3>3 DEF Grown, AsHeap!Heap!Allocate, Stored
      <3>4. ASSUME NEW a, Shrunk(Stored, Stored', a)
            PROVE  AsHeap!Heap!Deallocate(a)
        BY <3>4 DEF Shrunk, AsHeap!Heap!Deallocate, Stored
      <3>5. CASE \E a \in Slots : /\ FillRound(a) \/ PrefillRound(a) \/ ChurnAllocateRound(a)
                                  /\ Grown(Stored, Stored', a, i)
        BY <3>3, <3>5, RoundsAsHeap
           DEF AsHeap!HeapRound, AsHeap!HeapFill, AsHeap!HeapPrefill, AsHeap!HeapChurnAllocate
      <3>6. CASE \E a \in Slots : /\ DrainRound(a) \/ CleanUpRound(a)
                                  /\ Shrunk(Stored, Stored', a)
        BY <3>4, <3>6, RoundsAsHeap DEF AsHeap!HeapRound, AsHeap!HeapDrain, AsHeap!HeapCleanUp
      <3>7. CASE \E k \in DOMAIN churned :
                    ChurnFreeRound(k) /\ Shrunk(Stored, Stored', churned[k].ptr)
        <4>1. PICK k \in DOMAIN churned :
                 ChurnFreeRound(k) /\ Shrunk(Stored, Stored', churned[k].ptr)
          BY <3>7
        <4>2. AsHeap!ChurnFreeRound(k)
          BY <4>1, RoundsAsHeap
        <4>3. AsHeap!Heap!Deallocate(churned[k].ptr)
          BY <4>1 DEF Shrunk, AsHeap!Heap!Deallocate, Stored
        <4> QED
          BY <4>2, <4>3 DEF AsHeap!HeapRound, AsHeap!HeapChurnFree
      <3> QED
        BY <3>1, <3>2, <3>5, <3>6, <3>7 DEF Load
    <2>3. CASE Proceed
      <3>1. NextLoop
        BY <2>3 DEF Proceed
      <3>2. Stored' = Stored
        <4>1. CASE ~StartsAnew
          BY <2>3, <4>1 DEF Proceed, vars, Stored, InUse
        <4>2. CASE StartsAnew
          <5>1. DOMAIN Stored = {}
            BY <2>1, <3>1, <4>2, EndedIsEmpty DEF NextLoop, StartsAnew, Draining
          <5>2. DOMAIN Stored' = {}
            BY <2>3, <4>2, NewPoolIsEmpty DEF Proceed
          <5> QED
            BY <5>1, <5>2 DEF Stored
        <4> QED
          BY <4>1, <4>2
      <3>3. AsHeap!NextLoop
        BY <3>1, <3>2, RoundsAsHeap DEF NextLoop, AsHeap!NextLoop, NextStage, AsHeap!NextStage,
           NextAllocator, AsHeap!NextAllocator, StartsAnew, AsHeap!StartsAnew,
           Index, AsHeap!Index, Stored
      <3> QED
        BY <3>3
    <2> QED
      BY <2>2, <2>3 DEF BenchNext, HeapRounds, Finished
  <1> QED
    BY <1>1, AlwaysBenchInv, PTL DEF BenchSpec, SameLoadAsHeap
=============================================================================
