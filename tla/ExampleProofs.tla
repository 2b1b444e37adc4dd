--------------------------- MODULE ExampleProofs ---------------------------
(***************************************************************************)
(* The two examples.                                                       *)
(*                                                                         *)
(* The containers add the same to sink, for every number of keys, and the  *)
(* vector's binary search is right though it compares nothing in the end.  *)
(* The invariant has three parts: Shape, the types and that no key is      *)
(* looked up twice; Stored, what the containers hold; and Counted, what    *)
(* sink has grown by in the turn of the container, loop by loop.  Sums and *)
(* the recursion of the search are followed by their smallest failure: see *)
(* HasFirst of QueueLemmas.                                                *)
(*                                                                         *)
(* The threads, which have variables of their own, follow below.           *)
(***************************************************************************)
EXTENDS ContainerBenchmark, ThreadExample, QueueLemmas

\* The entries of the vector and of a map that hold the keys below n, and the
\* keys of the first n lookups.
Entries(n) == [k \in 1 .. n |-> [key |-> k - 1, value |-> (k - 1) * 2]]
Below(n) == [k \in 0 .. n - 1 |-> k * 2]
Looked(n) == {random_keys[r] : r \in 0 .. n - 1}

Sum(T) == SumFunctionOnSet(Values, T)
Samples == IF N < ColdSamples THEN N ELSE ColdSamples

Shape ==
    /\ container \in {"vector", "map", "unordered_map"}
    /\ stage \in {"insert", "sort", "lookup", "cold", "iterate", "done"}
    /\ stage = "sort" => container = "vector"
    /\ i \in 0 .. Rounds
    /\ random_keys \in [keys -> keys]
    /\ \A k, l \in keys : random_keys[k] = random_keys[l] => k = l

\* What the containers hold.
Stored ==
    /\ vec = Entries(IF container = "vector" /\ stage = "insert" THEN i ELSE N)
    /\ m = Below(IF container = "vector" THEN 0
                 ELSE IF container = "map" /\ stage = "insert" THEN i ELSE N)
    /\ um = Below(IF container # "unordered_map" THEN 0
                  ELSE IF stage = "insert" THEN i ELSE N)

\* What sink was when the turn of the container began.
Earned == IF container = "vector" THEN 0 ELSE IF container = "map" THEN Worth ELSE 2 * Worth

Counted ==
    /\ stage \in {"insert", "sort"} => sink = Earned
    /\ stage = "lookup" => sink = Earned + Sum(Looked(i))
    /\ stage = "cold" => sink = Earned + Sum(keys) + Sum(Looked(i))
    /\ stage = "iterate" => sink = Earned + Sum(keys) + Sum(Looked(Samples)) + i * Sum(keys)
    /\ stage = "done" => container = "unordered_map" /\ sink = 3 * Worth

CInv == Shape /\ Stored /\ Counted

----------------------------------------------------------------------------
(* The binary search.                                                      *)

\* The two halves in which the search of a stretch goes on.
Upper(r) == [first |-> r.first + r.len \div 2 + 1, len |-> r.len - r.len \div 2 - 1]
Lower(r) == [first |-> r.first, len |-> r.len \div 2]

\* Both are stretches of the vector, and shorter.
LEMMA HalvesAreShorter ==
    ASSUME Len(vec) \in Nat, NEW r \in Stretches, r.len # 0
    PROVE  /\ Upper(r) \in Stretches /\ Upper(r).len < r.len
           /\ Lower(r) \in Stretches /\ Lower(r).len < r.len
  <1>1. PICK f, l, n : f = r.first /\ l = r.len /\ n = Len(vec)
    OBVIOUS
  <1>2. f \in Nat /\ l \in Nat /\ n \in Nat /\ f + l <= n /\ l # 0
    BY <1>1 DEF Stretches
  <1>3. PICK h \in Nat : h = l \div 2 /\ h < l
    BY <1>2
  <1>4. Upper(r) = [first |-> f + h + 1, len |-> l - h - 1] /\ Lower(r) = [first |-> f, len |-> h]
    BY <1>1, <1>3 DEF Upper, Lower
  <1>5. /\ f + h + 1 \in 0 .. n /\ l - h - 1 \in 0 .. n /\ f + h + 1 + (l - h - 1) <= n
        /\ f \in 0 .. n /\ h \in 0 .. n /\ f + h <= n
    BY <1>2, <1>3
  <1> QED
    BY <1>1, <1>2, <1>3, <1>4, <1>5 DEF Stretches

\* The definition of the search of key k, as a map from a guess at the answers
\* to the next one.
Answers(k, g) ==
    [r \in Stretches |->
        IF r.len = 0 THEN r.first
        ELSE IF Before(vec[r.first + r.len \div 2 + 1], k) THEN g[Upper(r)] ELSE g[Lower(r)]]

\* The definition has a solution: one that is right on the stretches of at most
\* n entries yields one that is right on those of one more.
LEMMA AnswersExist ==
    ASSUME Len(vec) \in Nat, NEW k
    PROVE  \E g : g = Answers(k, g)
  <1> DEFINE Right(g, n) == \A r \in Stretches : r.len <= n => g[r] = Answers(k, g)[r]
  <1> DEFINE Bad == {n \in Nat : \A g : ~Right(g, n)}
  <1>1. ASSUME Bad # {} PROVE FALSE
    <2>1. PICK n \in Bad : \A x \in Bad : n <= x
      <3>1. Bad \subseteq Nat
        OBVIOUS
      <3> HIDE DEF Bad
      <3> QED
        BY <1>1, <3>1, HasFirst
    <2>2. n \in Nat /\ \A g : ~Right(g, n)
      OBVIOUS
    <2> HIDE DEF Bad
    <2>3. \A r \in Stretches : r.len \in Nat
      BY DEF Stretches
    <2>4. \E h : \A r \in Stretches : r.len < n => h[r] = Answers(k, h)[r]
      <3>1. CASE n = 0
        BY <2>3, <3>1
      <3>2. CASE n # 0
        <4>1. n - 1 \in Nat /\ n - 1 \notin Bad
          BY <2>1, <2>2, <3>2
        <4>2. PICK h : Right(h, n - 1)
          BY <4>1 DEF Bad
        <4>3. \A r \in Stretches : r.len < n => r.len <= n - 1
          BY <2>2, <2>3
        <4> QED
          BY <4>2, <4>3
      <3> QED
        BY <3>1, <3>2
    <2>5. PICK h : \A r \in Stretches : r.len < n => h[r] = Answers(k, h)[r]
      BY <2>4
    <2>6. PICK g : g = Answers(k, h)
      OBVIOUS
    <2>7. ASSUME NEW r \in Stretches, r.len <= n
          PROVE  g[r] = Answers(k, g)[r]
      <3>1. CASE r.len = 0
        BY <2>6, <3>1 DEF Answers
      <3>2. CASE r.len # 0
        <4>1. Upper(r) \in Stretches /\ Upper(r).len < n /\ Lower(r) \in Stretches /\ Lower(r).len < n
          <5>1. /\ Upper(r) \in Stretches /\ Upper(r).len < r.len
                /\ Lower(r) \in Stretches /\ Lower(r).len < r.len
            BY <3>2, HalvesAreShorter
          <5> QED
            BY <2>2, <2>3, <2>7, <5>1
        <4>2. h[Upper(r)] = g[Upper(r)] /\ h[Lower(r)] = g[Lower(r)]
          BY <2>5, <2>6, <4>1
        <4>3. /\ Answers(k, h)[r] = IF Before(vec[r.first + r.len \div 2 + 1], k)
                                    THEN h[Upper(r)] ELSE h[Lower(r)]
              /\ Answers(k, g)[r] = IF Before(vec[r.first + r.len \div 2 + 1], k)
                                    THEN g[Upper(r)] ELSE g[Lower(r)]
          BY <3>2 DEF Answers
        <4> QED
          BY <2>6, <4>2, <4>3
      <3> QED
        BY <3>1, <3>2
    <2> QED
      BY <2>2, <2>7
  <1>2. PICK g : Right(g, Len(vec))
    BY <1>1
  <1>3. \A r \in Stretches : r.len <= Len(vec)
    BY DEF Stretches
  <1>4. PICK e : e = Answers(k, g)
    OBVIOUS
  <1>5. \A r \in Stretches : e[r] = g[r]
    BY <1>2, <1>3, <1>4
  <1>6. Answers(k, e) = Answers(k, g)
    <2>1. \A r \in Stretches : r.len # 0 => e[Upper(r)] = g[Upper(r)] /\ e[Lower(r)] = g[Lower(r)]
      BY <1>5, HalvesAreShorter
    <2> QED
      BY <2>1 DEF Answers
  <1> QED
    BY <1>4, <1>6

\* The search in a vector of the keys in order ends at the entry of the key: a
\* shortest stretch around the key with another answer would have a shorter one.
LEMMA SearchFinds ==
    ASSUME vec = Entries(N), NEW k \in keys
    PROVE  lower_bound(k) = k /\ Len(vec) = N /\ k < N /\ vec[k + 1] = [key |-> k, value |-> k * 2]
  <1>1. N \in Nat /\ k \in Nat /\ k < N
    BY ContainerAssumption DEF keys
  <1>2. Len(vec) = N /\ DOMAIN vec = 1 .. N
    <2>1. PICK n : n = N /\ n \in Nat
      BY <1>1
    <2>2. PICK v : v = [j \in 1 .. n |-> [key |-> j - 1, value |-> (j - 1) * 2]]
      OBVIOUS
    <2>3. v = vec
      BY <2>1, <2>2 DEF Entries
    <2>4. Len(v) = n /\ DOMAIN v = 1 .. n
      BY <2>1, <2>2
    <2> QED
      BY <2>1, <2>3, <2>4
  <1>3. \A j \in 1 .. N : vec[j] = [key |-> j - 1, value |-> (j - 1) * 2]
    BY DEF Entries
  <1>4. \A j \in 1 .. N : Before(vec[j], k) <=> j - 1 < k
    <2> SUFFICES ASSUME NEW j \in 1 .. N PROVE Before(vec[j], k) <=> j - 1 < k
      OBVIOUS
    <2>1. PICK e : e = vec[j]
      OBVIOUS
    <2>2. e = [key |-> j - 1, value |-> (j - 1) * 2]
      BY <1>3, <2>1
    <2>3. e.key = j - 1
      BY <2>2
    <2> QED
      BY <2>1, <2>3 DEF Before
  <1>5. lower_bound(k) = (CHOOSE g : g = Answers(k, g))[[first |-> 0, len |-> Len(vec)]]
    BY DEF lower_bound, Answers, Upper, Lower
  <1>6. PICK g : g = Answers(k, g) /\ lower_bound(k) = g[[first |-> 0, len |-> N]]
    BY <1>1, <1>2, <1>5, AnswersExist
  <1> DEFINE Bad == {n \in Nat : \E r \in Stretches :
                        r.len = n /\ r.first <= k /\ k <= r.first + r.len /\ g[r] # k}
  <1>7. ASSUME Bad # {} PROVE FALSE
    <2>1. PICK n \in Bad : \A x \in Bad : n <= x
      <3>1. Bad \subseteq Nat
        OBVIOUS
      <3> HIDE DEF Bad
      <3> QED
        BY <1>7, <3>1, HasFirst
    <2>2. PICK r \in Stretches : r.len = n /\ r.first <= k /\ k <= r.first + r.len /\ g[r] # k
      OBVIOUS
    <2>3. \A t \in Stretches : t.len < n /\ t.first <= k /\ k <= t.first + t.len => g[t] = k
      <3>1. \A t \in Stretches : t.len \in Nat
        BY <1>1, <1>2 DEF Stretches
      <3> QED
        BY <2>1, <3>1
    <2>4. PICK f, l : f = r.first /\ l = r.len /\ f \in Nat /\ l \in Nat /\ f + l <= N
      BY <1>1, <1>2 DEF Stretches
    <2>5. Answers(k, g)[r] = IF l = 0 THEN f
                             ELSE IF Before(vec[f + l \div 2 + 1], k) THEN g[Upper(r)] ELSE g[Lower(r)]
      BY <2>4 DEF Answers
    <2>6. l # 0
      BY <1>1, <1>6, <2>2, <2>4, <2>5
    <2>7. PICK h \in Nat : h = l \div 2 /\ h < l
      BY <2>4, <2>6
    <2>8. Before(vec[f + h + 1], k) <=> f + h < k
      <3>1. PICK j \in 1 .. N : j = f + h + 1 /\ j - 1 = f + h
        BY <1>1, <2>4, <2>7
      <3> QED
        BY <1>4, <3>1
    <2>9. Upper(r).first = f + h + 1 /\ Upper(r).len = l - h - 1 /\ Lower(r).first = f /\ Lower(r).len = h
      BY <2>4, <2>7 DEF Upper, Lower
    <2>10. Upper(r) \in Stretches /\ Lower(r) \in Stretches
      BY <1>1, <1>2, <2>4, <2>6, HalvesAreShorter
    <2>11. f + h < k => g[Upper(r)] = k
      BY <1>1, <2>2, <2>3, <2>4, <2>7, <2>9, <2>10
    <2>12. ~(f + h < k) => g[Lower(r)] = k
      BY <1>1, <2>2, <2>3, <2>4, <2>7, <2>9, <2>10
    <2> QED
      BY <1>6, <2>2, <2>5, <2>6, <2>7, <2>8, <2>11, <2>12
  <1>8. lower_bound(k) = k
    <2>1. PICK r : r = [first |-> 0, len |-> N]
      OBVIOUS
    <2>2. r \in Stretches /\ r.len = N /\ r.first <= k /\ k <= r.first + r.len
      BY <1>1, <1>2, <2>1 DEF Stretches
    <2> QED
      BY <1>1, <1>6, <1>7, <2>1, <2>2
  <1> QED
    BY <1>1, <1>2, <1>3, <1>8

----------------------------------------------------------------------------
(* What the keys are worth.                                                *)

\* Sums over keys are numbers, and grow by the value of a key that is new.
LEMMA SumFacts ==
    /\ \A T \in SUBSET keys : Sum(T) \in Nat
    /\ Sum({}) = 0
    /\ \A T \in SUBSET keys : \A k \in keys \ T : Sum(T \cup {k}) = k * 2 + Sum(T)
  <1>1. IsFiniteSet(keys)
    BY ContainerAssumption, FS_Interval DEF keys
  <1>2. \A k \in keys : Values[k] = k * 2 /\ Values[k] \in Nat
    BY ContainerAssumption DEF Values, keys
  <1>3. \A T \in SUBSET keys : Sum(T) \in Nat
    BY <1>1, <1>2, SumType DEF Sum
  <1>4. Sum({}) = 0
    BY SumOfNone DEF Sum
  <1>5. ASSUME NEW T \in SUBSET keys, NEW k \in keys \ T
        PROVE  Sum(T \cup {k}) = k * 2 + Sum(T)
    <2>1. PICK V, K : V = Values /\ K = keys
      OBVIOUS
    <2>2. SumFunctionOnSet(V, T \cup {k}) = V[k] + SumFunctionOnSet(V, T)
      <3>1. /\ IsFiniteSet(K) /\ \A y \in K : V[y] \in Nat
            /\ T \in SUBSET K /\ k \in K /\ k \notin T
        BY <1>1, <1>2, <2>1
      <3> QED
        BY ONLY <3>1, SumWithOneMore
    <2> QED
      BY <1>2, <2>1, <2>2 DEF Sum
  <1> QED
    BY <1>3, <1>4, <1>5

\* The random order looks up every key once.
LEMMA LookedFacts ==
    ASSUME Shape, NEW n \in 0 .. N
    PROVE  /\ Looked(n) \in SUBSET keys
           /\ n = 0 => Looked(n) = {}
           /\ n = N => Looked(n) = keys
           /\ n < N => /\ n \in keys /\ random_keys[n] \in keys \ Looked(n)
                       /\ Looked(n + 1) = Looked(n) \cup {random_keys[n]}
  <1>0. N \in Nat /\ keys = 0 .. N - 1
    BY ContainerAssumption DEF keys
  <1>1. /\ random_keys \in [keys -> keys]
        /\ \A k, l \in keys : random_keys[k] = random_keys[l] => k = l
    BY DEF Shape
  <1>2. Looked(n) \in SUBSET keys
    BY <1>0, <1>1 DEF Looked
  <1>3. n = 0 => Looked(n) = {}
    BY DEF Looked
  <1>4. ASSUME n = N PROVE Looked(n) = keys
    <2>1. IsFiniteSet(keys)
      BY <1>0, FS_Interval
    <2>2. random_keys \in Injection(keys, keys)
      BY <1>1 DEF Injection, IsInjective
    <2>3. random_keys \in Surjection(keys, keys)
      BY <2>1, <2>2, FS_Injection
    <2>4. \A k \in keys : \E r \in keys : random_keys[r] = k
      BY <2>3 DEF Surjection
    <2> QED
      BY <1>0, <1>2, <1>4, <2>4 DEF Looked
  <1>5. ASSUME n < N PROVE /\ n \in keys /\ random_keys[n] \in keys \ Looked(n)
                           /\ Looked(n + 1) = Looked(n) \cup {random_keys[n]}
    <2>1. n \in keys /\ \A r \in 0 .. n - 1 : r \in keys /\ r # n
      BY <1>0, <1>5
    <2>2. random_keys[n] \in keys \ Looked(n)
      BY <1>1, <2>1 DEF Looked
    <2>3. \A r : r \in 0 .. n + 1 - 1 <=> r \in 0 .. n - 1 \/ r = n
      BY <1>0
    <2>4. Looked(n + 1) = Looked(n) \cup {random_keys[n]}
      BY <2>3 DEF Looked
    <2> QED
      BY <2>1, <2>2, <2>4
  <1> QED
    BY <1>2, <1>3, <1>4, <1>5

\* The worth of a container's turn, by its loops.
LEMMA WorthFacts ==
    ASSUME Shape
    PROVE  /\ Samples \in 0 .. N
           /\ Worth = 2 * Sum(keys) + Sum(Looked(Samples))
           /\ Sum(keys) \in Nat /\ Sum(Looked(Samples)) \in Nat /\ Worth \in Nat
  <1>1. Samples \in 0 .. N
    BY ContainerAssumption DEF Samples
  <1>2. SumFunction(Values) = Sum(keys)
    BY DEF SumFunction, Sum, Values
  <1>3. \A r : r \in {x \in keys : x < ColdSamples} <=> r \in 0 .. Samples - 1
    BY ContainerAssumption DEF Samples, keys
  <1>4. {random_keys[r] : r \in {x \in keys : x < ColdSamples}} = Looked(Samples)
    BY <1>3 DEF Looked
  <1>5. Worth = 2 * Sum(keys) + Sum(Looked(Samples))
    BY <1>2, <1>4 DEF Worth, Sum
  <1>6. Sum(keys) \in Nat /\ Sum(Looked(Samples)) \in Nat
    BY <1>1, LookedFacts, SumFacts
  <1> QED
    BY <1>1, <1>5, <1>6

\* The loops over all entries.
LEMMA IterateFacts ==
    /\ vec = Entries(N) => SumFunction([k \in DOMAIN vec |-> vec[k].value]) = Sum(keys)
    /\ SumFunction(Below(N)) = Sum(keys)
  <1>0. N \in Nat /\ keys = 0 .. N - 1
    BY ContainerAssumption DEF keys
  <1>1. SumFunction(Below(N)) = Sum(keys)
    BY DEF SumFunction, Sum, Values, Below, keys
  <1>2. ASSUME vec = Entries(N)
        PROVE  SumFunction([k \in DOMAIN vec |-> vec[k].value]) = Sum(keys)
    <2>1. PICK e : e = [k \in DOMAIN vec |-> vec[k].value]
      OBVIOUS
    <2>2. DOMAIN vec = 1 .. N /\ DOMAIN e = 1 .. N
      BY <1>2, <2>1 DEF Entries
    <2>3. \A k \in 1 .. N : e[k] = (k - 1) * 2
      <3> SUFFICES ASSUME NEW k \in 1 .. N PROVE e[k] = (k - 1) * 2
        OBVIOUS
      <3>1. PICK x : x = vec[k]
        OBVIOUS
      <3>2. x = [key |-> k - 1, value |-> (k - 1) * 2]
        BY <1>2, <3>1 DEF Entries
      <3>3. x.value = (k - 1) * 2
        BY <3>2
      <3> QED
        BY <2>1, <2>2, <3>1, <3>3
    <2>4. PICK w, f, T, n : w = [k \in 1 .. N |-> k - 1] /\ f = Values /\ T = keys /\ n = N
      OBVIOUS
    <2>5. w \in Bijection(1 .. n, T)
      <3>1. w \in [1 .. n -> T] /\ \A k, l \in 1 .. n : w[k] = w[l] => k = l
        BY <1>0, <2>4
      <3>2. ASSUME NEW y \in T PROVE \E k \in 1 .. n : w[k] = y
        <4>1. y + 1 \in 1 .. n /\ w[y + 1] = y
          BY <1>0, <2>4
        <4> QED
          BY <4>1
      <3> QED
        BY <3>1, <3>2 DEF Bijection, Injection, Surjection, IsInjective
    <2>6. \A y \in T : f[y] \in Nat /\ f[y] = y * 2
      BY <1>0, <2>4 DEF Values
    <2>7. \A k \in 1 .. n : e[k] = f[w[k]]
      BY <1>0, <2>3, <2>4, <2>6
    <2>8. IsFiniteSet(T)
      BY <1>0, <2>4, FS_Interval
    <2>9. SumFunctionOnSet(e, 1 .. n) = SumFunctionOnSet(f, T)
      <3>1. n \in Nat /\ \A y \in T : f[y] \in Nat
        BY <1>0, <2>4, <2>6
      <3> QED
        BY ONLY <2>5, <2>7, <2>8, <3>1, SumAlong
    <2> QED
      BY <2>1, <2>2, <2>4, <2>9 DEF SumFunction, Sum
  <1> QED
    BY <1>1, <1>2

----------------------------------------------------------------------------
(* The steps.                                                              *)

\* A benchmark begins with nothing.
LEMMA InitCInv == Init => CInv
  <1> SUFFICES ASSUME Init PROVE CInv
    OBVIOUS
  <1>1. Shape
    BY ContainerAssumption DEF Init, Shape, Rounds
  <1>2. vec = Entries(0) /\ m = Below(0) /\ um = Below(0)
    <2>1. 0 .. 0 - 1 = {} /\ 1 .. 0 = {}
      OBVIOUS
    <2> QED
      BY <2>1 DEF Init, Entries, Below
  <1>3. Stored
    BY <1>2 DEF Init, Stored
  <1>4. Counted
    BY DEF Init, Counted, Earned
  <1> QED
    BY <1>1, <1>3, <1>4 DEF CInv

\* The keys and their order stay, and with them what they are worth.
LEMMA WorthStays ==
    ASSUME random_keys' = random_keys
    PROVE  Worth' = Worth /\ \A n : Looked(n)' = Looked(n) /\ Sum(Looked(n))' = Sum(Looked(n))
  BY DEF Worth, Looked, Sum, Values, keys

\* An insertion appends the next key.
LEMMA InsertCInv ==
    ASSUME CInv, bench_vector_insert \/ bench_map_insert \/ bench_umap_insert
    PROVE  CInv'
  <1>1. /\ stage = "insert" /\ i < Rounds /\ i' = i + 1
        /\ UNCHANGED <<container, stage, random_keys, sink>>
    BY DEF bench_vector_insert, bench_map_insert, bench_umap_insert, Round
  <1>2. Rounds = N /\ Rounds' = N /\ i \in Nat /\ N \in Nat /\ i < N
    BY <1>1, ContainerAssumption DEF CInv, Shape, Rounds
  <1>3. Shape'
    BY <1>1, <1>2 DEF CInv, Shape
  <1>4. Append(Entries(i), [key |-> i, value |-> i * 2]) = Entries(i + 1)
    <2>1. PICK E, s, e, j : /\ E = [key : Nat, value : Nat] /\ s = Entries(i)
                            /\ e = [key |-> i, value |-> i * 2] /\ j = i
      OBVIOUS
    <2>2. e \in E /\ j \in Nat
      BY <1>2, <2>1
    <2>3. \A k \in 1 .. j : [key |-> k - 1, value |-> (k - 1) * 2] \in E
      BY <2>1, <2>2
    <2>4. s \in [1 .. j -> E]
      BY <2>1, <2>3 DEF Entries
    <2>5. s \in Seq(E) /\ Len(s) = j
      BY <2>2, <2>4, FunctionIsSeq
    <2>6. Append(s, e) = [k \in 1 .. j + 1 |-> IF k = j + 1 THEN e ELSE s[k]]
      BY <2>2, <2>5, AppendEntries
    <2>7. \A k \in 1 .. j + 1 : (IF k = j + 1 THEN e ELSE s[k])
                                  = [key |-> k - 1, value |-> (k - 1) * 2]
      <3> SUFFICES ASSUME NEW k \in 1 .. j + 1
                   PROVE  (IF k = j + 1 THEN e ELSE s[k]) = [key |-> k - 1, value |-> (k - 1) * 2]
        OBVIOUS
      <3>1. CASE k = j + 1
        <4>1. k - 1 = i
          BY <2>1, <2>2, <3>1
        <4> QED
          BY <2>1, <3>1, <4>1
      <3>2. CASE k # j + 1
        <4>1. k \in 1 .. i
          BY <2>1, <2>2, <3>2
        <4> QED
          BY <2>1, <3>2, <4>1 DEF Entries
      <3> QED
        BY <3>1, <3>2
    <2>8. Append(s, e) = [k \in 1 .. j + 1 |-> [key |-> k - 1, value |-> (k - 1) * 2]]
      BY <2>6, <2>7
    <2> QED
      BY <2>1, <2>8 DEF Entries
  <1>5. Assign(Below(i), i, i * 2) = Below(i + 1)
    <2>1. DOMAIN Below(i) \cup {i} = 0 .. i + 1 - 1
      BY <1>2 DEF Below
    <2>2. \A k \in 0 .. i + 1 - 1 : (IF k = i THEN i * 2 ELSE Below(i)[k]) = k * 2
      BY <1>2 DEF Below
    <2> QED
      BY <2>1, <2>2 DEF Assign, Below
  <1>6. Stored'
    <2>1. CASE bench_vector_insert
      BY <1>1, <1>2, <1>4, <2>1 DEF bench_vector_insert, Round, CInv, Stored
    <2>2. CASE bench_map_insert
      BY <1>1, <1>2, <1>5, <2>2 DEF bench_map_insert, Round, CInv, Stored
    <2>3. CASE bench_umap_insert
      BY <1>1, <1>2, <1>5, <2>3 DEF bench_umap_insert, Round, CInv, Stored
    <2> QED
      BY <2>1, <2>2, <2>3
  <1>7. Counted'
    BY <1>1, WorthStays DEF CInv, Counted, Earned
  <1> QED
    BY <1>3, <1>6, <1>7 DEF CInv

\* Only one order of different numbers ascends: the first that is not in its
\* place would have a place further down, before a smaller one.
LEMMA AscendingIsInPlace ==
    ASSUME NEW n, n \in Nat, NEW p, p \in Bijection(1 .. n, 1 .. n),
           \A k, l \in 1 .. n : k < l => p[k] <= p[l]
    PROVE  \A k \in 1 .. n : p[k] = k
  <1>1. /\ p \in [1 .. n -> 1 .. n]
        /\ \A k, l \in 1 .. n : p[k] = p[l] => k = l
        /\ \A y \in 1 .. n : \E k \in 1 .. n : p[k] = y
    BY DEF Bijection, Injection, Surjection, IsInjective
  <1> DEFINE Bad == {k \in 1 .. n : p[k] # k}
  <1>2. ASSUME Bad # {} PROVE FALSE
    <2>1. PICK b \in Bad : \A x \in Bad : b <= x
      <3>1. Bad \subseteq Nat
        OBVIOUS
      <3> HIDE DEF Bad
      <3> QED
        BY <1>2, <3>1, HasFirst
    <2>2. b \in 1 .. n /\ p[b] # b
      OBVIOUS
    <2>3. \A k \in 1 .. n : k < b => p[k] = k
      BY <2>1, <2>2
    <2>4. p[b] \in 1 .. n /\ p[b] > b
      <3>1. p[b] \in 1 .. n
        BY <1>1, <2>2
      <3>2. ~(p[b] < b)
        BY <1>1, <2>2, <2>3, <3>1
      <3> QED
        BY <2>2, <3>1, <3>2
    <2>5. PICK v \in 1 .. n : p[v] = b
      BY <1>1, <2>2
    <2>6. v > b
      BY <2>2, <2>3, <2>5
    <2>7. p[b] <= p[v]
      BY <2>2, <2>5, <2>6
    <2> QED
      BY <2>2, <2>4, <2>5, <2>7
  <1> QED
    BY <1>2

\* The sort finds the vector in order and leaves it as it is.
LEMMA SortCInv ==
    ASSUME CInv, Sort
    PROVE  CInv'
  <1>1. /\ container = "vector" /\ stage = "sort" /\ i < Rounds /\ i' = i + 1
        /\ UNCHANGED <<container, stage, random_keys, m, um, sink>>
    BY DEF Sort, Round
  <1>2. Rounds = 1 /\ Rounds' = 1 /\ i = 0 /\ i' = 1 /\ N \in Nat
    BY <1>1, ContainerAssumption DEF CInv, Shape, Rounds
  <1>3. Shape'
    BY <1>1, <1>2 DEF CInv, Shape
  <1>4. vec = Entries(N)
    BY <1>1 DEF CInv, Stored
  <1>5. DOMAIN vec = 1 .. N /\ \A k \in 1 .. N : vec[k] = [key |-> k - 1, value |-> (k - 1) * 2]
    BY <1>4 DEF Entries
  <1>6. \A k \in 1 .. N : vec[k].key = k - 1
    <2> SUFFICES ASSUME NEW k \in 1 .. N PROVE vec[k].key = k - 1
      OBVIOUS
    <2>1. PICK e : e = vec[k] /\ e = [key |-> k - 1, value |-> (k - 1) * 2]
      BY <1>5
    <2> QED
      BY <2>1
  <1>7. PICK p \in Bijection(1 .. N, 1 .. N) :
           /\ \A k, l \in 1 .. N : k < l => vec[p[k]].key <= vec[p[l]].key
           /\ vec' = [k \in 1 .. N |-> vec[p[k]]]
    BY <1>5 DEF Sort
  <1>8. \A k \in 1 .. N : p[k] \in 1 .. N
    BY <1>7 DEF Bijection, Surjection
  <1>9. \A k, l \in 1 .. N : k < l => p[k] <= p[l]
    <2> SUFFICES ASSUME NEW k \in 1 .. N, NEW l \in 1 .. N, k < l PROVE p[k] <= p[l]
      OBVIOUS
    <2>1. PICK a \in 1 .. N, b \in 1 .. N : a = p[k] /\ b = p[l]
      BY <1>8
    <2>2. vec[a].key <= vec[b].key
      BY <1>7, <2>1
    <2>3. a - 1 <= b - 1
      BY <1>6, <2>2
    <2> QED
      BY <1>2, <2>1, <2>3
  <1>10. \A k \in 1 .. N : p[k] = k
    BY <1>2, <1>7, <1>9, AscendingIsInPlace
  <1>11. vec' = Entries(N)
    BY <1>5, <1>7, <1>10 DEF Entries
  <1>12. Stored'
    BY <1>1, <1>11 DEF CInv, Stored
  <1>13. Counted'
    BY <1>1, WorthStays DEF CInv, Counted, Earned
  <1> QED
    BY <1>3, <1>12, <1>13 DEF CInv

\* What a lookup adds to sink.
LEMMA LookupFinds ==
    ASSUME CInv, stage \in {"lookup", "cold"}, NEW k \in keys
    PROVE  /\ container = "vector" => vector_value(k) = k * 2
           /\ container = "map" => map_value(k) = k * 2
           /\ container = "unordered_map" => umap_value(k) = k * 2
  <1>1. ASSUME container = "vector" PROVE vector_value(k) = k * 2
    <2>1. vec = Entries(N)
      BY <1>1 DEF CInv, Stored
    <2>2. lower_bound(k) = k /\ Len(vec) = N /\ k < N
      BY <2>1, SearchFinds
    <2>3. PICK e : e = vec[k + 1]
      OBVIOUS
    <2>4. e = [key |-> k, value |-> k * 2]
      BY <2>1, <2>3, SearchFinds
    <2>5. e.value = k * 2
      BY <2>4
    <2>6. k # N
      BY <2>2, ContainerAssumption DEF keys
    <2> QED
      BY <2>2, <2>3, <2>5, <2>6 DEF vector_value
  <1>2. ASSUME container = "map" PROVE map_value(k) = k * 2
    BY <1>2 DEF CInv, Stored, Below, map_value, keys
  <1>3. ASSUME container = "unordered_map" PROVE umap_value(k) = k * 2
    BY <1>3 DEF CInv, Stored, Below, umap_value, keys
  <1> QED
    BY <1>1, <1>2, <1>3

\* A lookup, cold or not, adds the value of the next key in the random order.
LEMMA LookupCInv ==
    ASSUME CInv, bench_vector_lookup \/ bench_map_lookup \/ bench_umap_lookup
    PROVE  CInv'
  <1>1. /\ stage \in {"lookup", "cold"} /\ i < Rounds /\ i' = i + 1
        /\ UNCHANGED <<container, stage, random_keys, vec, m, um>>
    BY DEF bench_vector_lookup, bench_map_lookup, bench_umap_lookup, Lookup, Round, data
  <1>2. /\ Rounds' = Rounds /\ Rounds \in 0 .. N /\ i \in Nat /\ N \in Nat
        /\ i \in 0 .. N /\ i < N
    BY <1>1, ContainerAssumption DEF CInv, Shape, Rounds
  <1>3. Shape'
    BY <1>1, <1>2 DEF CInv, Shape
  <1>4. Stored'
    BY <1>1 DEF CInv, Stored
  <1>5. PICK k \in keys : /\ k = random_keys[i] /\ k \notin Looked(i)
                          /\ Looked(i + 1) = Looked(i) \cup {k} /\ Looked(i) \in SUBSET keys
    BY <1>2, LookedFacts DEF CInv
  <1>6. Sum(Looked(i + 1)) = k * 2 + Sum(Looked(i)) /\ Sum(Looked(i)) \in Nat
    BY <1>5, SumFacts
  <1>7. sink' = sink + k * 2
    <2>1. CASE bench_vector_lookup
      <3>1. container = "vector" /\ sink' = sink + vector_value(k)
        BY <1>5, <2>1 DEF bench_vector_lookup, Lookup, Round
      <3> QED
        BY <1>1, <3>1, LookupFinds
    <2>2. CASE bench_map_lookup
      <3>1. container = "map" /\ sink' = sink + map_value(k)
        BY <1>5, <2>2 DEF bench_map_lookup, Lookup, Round
      <3> QED
        BY <1>1, <3>1, LookupFinds
    <2>3. CASE bench_umap_lookup
      <3>1. container = "unordered_map" /\ sink' = sink + umap_value(k)
        BY <1>5, <2>3 DEF bench_umap_lookup, Lookup, Round
      <3> QED
        BY <1>1, <3>1, LookupFinds
    <2> QED
      BY <2>1, <2>2, <2>3
  <1>8. Worth' = Worth /\ Sum(Looked(i))' = Sum(Looked(i + 1)) /\ Sum(keys)' = Sum(keys)
    <2>1. Looked(i)' = Looked(i + 1)
      BY <1>1 DEF Looked
    <2> QED
      BY <1>1, <2>1, WorthStays DEF Sum, Values, keys
  <1>9. Earned' = Earned /\ Earned \in Nat /\ Sum(keys) \in Nat /\ k * 2 \in Nat
    <2>1. Worth \in Nat /\ Sum(keys) \in Nat
      BY WorthFacts DEF CInv
    <2>2. k * 2 \in Nat
      BY ContainerAssumption DEF keys
    <2> QED
      BY <1>1, <1>8, <2>1, <2>2 DEF Earned
  <1>10. Counted'
    <2>1. CASE stage = "lookup"
      <3>1. sink = Earned + Sum(Looked(i))
        BY <2>1 DEF CInv, Counted
      <3>2. sink' = Earned' + Sum(Looked(i))'
        BY <1>6, <1>7, <1>8, <1>9, <3>1
      <3> QED
        BY <1>1, <2>1, <3>2 DEF Counted
    <2>2. CASE stage = "cold"
      <3>1. sink = Earned + Sum(keys) + Sum(Looked(i))
        BY <2>2 DEF CInv, Counted
      <3>2. sink' = Earned' + Sum(keys)' + Sum(Looked(i))'
        BY <1>6, <1>7, <1>8, <1>9, <3>1
      <3> QED
        BY <1>1, <2>2, <3>2 DEF Counted
    <2> QED
      BY <1>1, <2>1, <2>2
  <1> QED
    BY <1>3, <1>4, <1>10 DEF CInv

\* A loop over all entries adds the values of all keys.
LEMMA IterateCInv ==
    ASSUME CInv, bench_vector_iterate \/ bench_map_iterate \/ bench_umap_iterate
    PROVE  CInv'
  <1>1. /\ stage = "iterate" /\ i < Rounds /\ i' = i + 1
        /\ UNCHANGED <<container, stage, random_keys, vec, m, um>>
    BY DEF bench_vector_iterate, bench_map_iterate, bench_umap_iterate, Round, data
  <1>2. Rounds = 1 /\ Rounds' = 1 /\ i = 0 /\ i' = 1
    BY <1>1 DEF CInv, Shape, Rounds
  <1>3. Shape'
    BY <1>1, <1>2 DEF CInv, Shape
  <1>4. Stored'
    BY <1>1 DEF CInv, Stored
  <1>5. sink' = sink + Sum(keys)
    <2>1. CASE bench_vector_iterate
      <3>1. vec = Entries(N)
        BY <1>1 DEF CInv, Stored
      <3> QED
        BY <2>1, <3>1, IterateFacts DEF bench_vector_iterate
    <2>2. CASE bench_map_iterate
      <3>1. m = Below(N)
        BY <1>1, <2>2 DEF CInv, Stored, bench_map_iterate, Round
      <3> QED
        BY <2>2, <3>1, IterateFacts DEF bench_map_iterate
    <2>3. CASE bench_umap_iterate
      <3>1. um = Below(N)
        BY <1>1, <2>3 DEF CInv, Stored, bench_umap_iterate, Round
      <3> QED
        BY <2>3, <3>1, IterateFacts DEF bench_umap_iterate
    <2> QED
      BY <2>1, <2>2, <2>3
  <1>6. /\ Worth' = Worth /\ Sum(Looked(Samples))' = Sum(Looked(Samples)) /\ Sum(keys)' = Sum(keys)
        /\ Earned' = Earned
    <2>1. Looked(Samples)' = Looked(Samples)
      BY <1>1 DEF Looked, Samples
    <2> QED
      BY <1>1, <2>1, WorthStays DEF Sum, Values, keys, Earned
  <1>7. sink = Earned + Sum(keys) + Sum(Looked(Samples)) + 0 * Sum(keys)
    BY <1>1, <1>2 DEF CInv, Counted
  <1>8. Earned \in Nat /\ Sum(keys) \in Nat /\ Sum(Looked(Samples)) \in Nat
    BY WorthFacts DEF CInv, Earned
  <1>9. sink' = Earned' + Sum(keys)' + Sum(Looked(Samples))' + 1 * Sum(keys)'
    BY <1>5, <1>6, <1>7, <1>8
  <1>10. Counted'
    BY <1>1, <1>2, <1>9 DEF Counted
  <1> QED
    BY <1>3, <1>4, <1>10 DEF CInv

\* Where a loop ends, the next one begins.
LEMMA NextLoopCInv ==
    ASSUME CInv, NextLoop
    PROVE  CInv'
  <1>1. /\ stage # "done" /\ i = Rounds /\ i' = 0
        /\ stage' = NextStage[stage]
        /\ container' = IF stage = "iterate" THEN NextContainer[container] ELSE container
        /\ UNCHANGED <<random_keys, vec, m, um, sink>>
    BY DEF NextLoop, data
  <1>2. /\ stage = "insert" => stage' = IF container = "vector" THEN "sort" ELSE "lookup"
        /\ stage = "sort" => stage' = "lookup"
        /\ stage = "lookup" => stage' = "cold"
        /\ stage = "cold" => stage' = "iterate"
        /\ stage = "iterate" => stage' = IF container = "unordered_map" THEN "done" ELSE "insert"
    BY <1>1 DEF NextStage
  <1>3. /\ stage # "iterate" => container' = container
        /\ stage = "iterate" =>
              container' = IF container = "vector" THEN "map" ELSE "unordered_map"
    BY <1>1 DEF CInv, Shape, NextContainer
  <1>4. N \in Nat /\ ColdSamples \in Nat /\ Rounds' \in Nat
    BY ContainerAssumption DEF Rounds
  <1>5. Shape'
    BY <1>1, <1>2, <1>3, <1>4 DEF CInv, Shape
  <1>6. /\ stage = "insert" => i = N
        /\ stage = "lookup" => i = N
        /\ stage = "cold" => i = Samples
        /\ stage = "iterate" => i = 1
    BY <1>1 DEF Rounds, Samples
  <1>7. Stored'
    BY <1>1, <1>2, <1>3, <1>6 DEF CInv, Shape, Stored
  <1>8. /\ Sum(Looked(0)) = 0 /\ Sum(Looked(N)) = Sum(keys)
        /\ Samples \in 0 .. N /\ Worth = 2 * Sum(keys) + Sum(Looked(Samples))
        /\ Sum(keys) \in Nat /\ Sum(Looked(Samples)) \in Nat /\ Worth \in Nat
    <2>1. Shape /\ 0 \in 0 .. N /\ N \in 0 .. N
      BY <1>4 DEF CInv
    <2>2. Looked(0) = {} /\ Looked(N) = keys
      BY <2>1, LookedFacts
    <2> QED
      BY <2>1, <2>2, SumFacts, WorthFacts
  <1>9. /\ Worth' = Worth /\ Sum(keys)' = Sum(keys)
        /\ Sum(Looked(Samples))' = Sum(Looked(Samples)) /\ Sum(Looked(i))' = Sum(Looked(0))
    <2>1. Looked(Samples)' = Looked(Samples) /\ Looked(i)' = Looked(0)
      BY <1>1 DEF Looked, Samples
    <2> QED
      BY <1>1, <2>1, WorthStays DEF Sum, Values, keys
  <1>10. Counted'
    <2>1. CASE stage = "insert"
      <3>1. sink = Earned /\ Earned' = Earned /\ Earned \in Nat
        BY <1>3, <1>8, <1>9, <2>1 DEF CInv, Counted, Earned
      <3> QED
        BY <1>1, <1>2, <1>8, <1>9, <2>1, <3>1 DEF Counted
    <2>2. CASE stage = "sort"
      <3>1. sink = Earned /\ Earned' = Earned /\ Earned \in Nat
        BY <1>3, <1>8, <1>9, <2>2 DEF CInv, Counted, Earned
      <3> QED
        BY <1>1, <1>2, <1>8, <1>9, <2>2, <3>1 DEF Counted
    <2>3. CASE stage = "lookup"
      <3>1. sink = Earned + Sum(keys) /\ Earned' = Earned /\ Earned \in Nat
        BY <1>3, <1>6, <1>8, <1>9, <2>3 DEF CInv, Counted, Earned
      <3> QED
        BY <1>1, <1>2, <1>8, <1>9, <2>3, <3>1 DEF Counted
    <2>4. CASE stage = "cold"
      <3>1. sink = Earned + Sum(keys) + Sum(Looked(Samples)) /\ Earned' = Earned /\ Earned \in Nat
        BY <1>3, <1>6, <1>8, <1>9, <2>4 DEF CInv, Counted, Earned
      <3>2. sink' = Earned' + Sum(keys)' + Sum(Looked(Samples))' + 0 * Sum(keys)'
        BY <1>1, <1>8, <1>9, <3>1
      <3> QED
        BY <1>1, <1>2, <2>4, <3>2 DEF Counted
    <2>5. CASE stage = "iterate"
      <3>1. sink = Earned + Sum(keys) + Sum(Looked(Samples)) + 1 * Sum(keys)
        BY <1>6, <2>5 DEF CInv, Counted
      <3>2. Earned \in Nat /\ Worth \in Nat
        BY <1>8 DEF Earned
      <3>3. sink' = Earned + Worth
        BY <1>1, <1>8, <3>1, <3>2
      <3>4. CASE container = "unordered_map"
        <4>1. sink' = 3 * Worth'
          BY <1>9, <3>2, <3>3, <3>4 DEF Earned
        <4> QED
          BY <1>2, <1>3, <2>5, <3>4, <4>1 DEF Counted
      <3>5. CASE container # "unordered_map"
        <4>1. sink' = Earned'
          BY <1>3, <1>9, <2>5, <3>2, <3>3, <3>5 DEF CInv, Shape, Earned
        <4> QED
          BY <1>2, <2>5, <3>5, <4>1 DEF Counted
      <3> QED
        BY <3>4, <3>5
    <2> QED
      BY <1>1, <2>1, <2>2, <2>3, <2>4, <2>5 DEF CInv, Shape
  <1> QED
    BY <1>5, <1>7, <1>10 DEF CInv

\* Every step keeps the accounts.
LEMMA NextCInv == CInv /\ [Next]_vars => CInv'
  <1> SUFFICES ASSUME CInv, [Next]_vars PROVE CInv'
    OBVIOUS
  <1>1. CASE UNCHANGED vars
    <2>1. UNCHANGED <<container, stage, i, random_keys, vec, m, um, sink>>
      BY <1>1 DEF vars, data
    <2>2. Worth' = Worth /\ Earned' = Earned
      BY <2>1, WorthStays DEF Earned
    <2>3. Looked(i)' = Looked(i) /\ Looked(Samples)' = Looked(Samples) /\ Rounds' = Rounds
      BY <2>1 DEF Looked, Samples, Rounds
    <2>4. /\ Sum(Looked(i))' = Sum(Looked(i)) /\ Sum(Looked(Samples))' = Sum(Looked(Samples))
          /\ Sum(keys)' = Sum(keys)
      BY <2>3 DEF Sum, Values, keys
    <2> QED
      BY <2>1, <2>2, <2>3, <2>4 DEF CInv, Shape, Stored, Counted
  <1>2. CASE Finished
    <2>1. CInv /\ UNCHANGED vars => CInv'
      BY <1>1
    <2> QED
      BY <1>2, <2>1 DEF Finished
  <1> QED
    BY <1>1, <1>2, InsertCInv, SortCInv, LookupCInv, IterateCInv, NextLoopCInv DEF Next

(***************************************************************************)
(* For every number of keys and of cold samples, and in whatever order the *)
(* keys are looked up: the entry at which the vector's binary search ends  *)
(* is the entry of the key, though the code never compares the two         *)
(* (container_benchmark.cpp:135-138, 226-228).                             *)
(***************************************************************************)
THEOREM SearchIsRight == Spec => []FindsItsKey
  <1>1. CInv => FindsItsKey
    <2> SUFFICES ASSUME CInv, container = "vector", stage \in {"lookup", "cold"}, NEW k \in keys
                 PROVE  lower_bound(k) < Len(vec) /\ vec[lower_bound(k) + 1].key = k
      BY DEF FindsItsKey
    <2>1. vec = Entries(N)
      BY DEF CInv, Stored
    <2>2. lower_bound(k) = k /\ Len(vec) = N /\ k < N
      BY <2>1, SearchFinds
    <2>3. PICK e : e = vec[k + 1] /\ e = [key |-> k, value |-> k * 2]
      BY <2>1, SearchFinds
    <2> QED
      BY <2>2, <2>3
  <1> QED
    BY <1>1, InitCInv, NextCInv, PTL DEF Spec

(***************************************************************************)
(* For every number of keys and of cold samples, the three containers add  *)
(* the same to sink, in whatever order the keys are looked up              *)
(* (container_benchmark.cpp:20, 123-258).                                  *)
(***************************************************************************)
THEOREM SameDataSameSums == Spec => []ContainersAgree
  <1>1. CInv => ContainersAgree
    <2> SUFFICES ASSUME CInv PROVE ContainersAgree
      OBVIOUS
    <2>1. Worth \in Nat
      BY WorthFacts DEF CInv
    <2>2. stage = "done" => sink = Worth * 3
      BY <2>1 DEF CInv, Counted
    <2>3. ASSUME stage = "insert"
          PROVE  sink = Worth * [vector |-> 0, map |-> 1, unordered_map |-> 2][container]
      <3>1. sink = Earned /\ container \in {"vector", "map", "unordered_map"}
        BY <2>3 DEF CInv, Counted, Shape
      <3> QED
        BY <2>1, <3>1 DEF Earned
    <2> QED
      BY <2>2, <2>3 DEF ContainersAgree
  <1> QED
    BY <1>1, InitCInv, NextCInv, PTL DEF Spec

----------------------------------------------------------------------------
(***************************************************************************)
(* The threads.  main() is past a join only if the thread has ended        *)
(* (Joins); who has begun a line is at the statement that prints it, and   *)
(* the cursor is within a line only if somebody has begun one (Lines).     *)
(***************************************************************************)
Places ==
    /\ at \in [Threads -> Nat]
    /\ begun \in [Threads -> BOOLEAN]
    /\ cursor \in {"start", "within"}

Joins ==
    /\ at["main"] > 4 => Ended("t1")
    /\ at["main"] > 5 => Ended("t2")

Lines ==
    /\ \A t \in Threads : begun[t] => ~Ended(t) /\ Code[t][at[t]] = "print"
    /\ cursor = "within" => \E t \in Threads : begun[t]

TInv == Places /\ Joins /\ Lines

\* The threads and their statements.
LEMMA CodeFacts ==
    /\ Threads = {"t1", "t2", "main"}
    /\ Code["main"] = <<"start", "start", "print", "join", "join", "print">>
    /\ \A t \in Threads : Len(Code[t]) \in Nat
  <1>1. Threads = {"t1", "t2", "main"}
    BY DEF Threads, Code
  <1>2. Code["main"] = <<"start", "start", "print", "join", "join", "print">>
    BY DEF Code
  <1>3. ASSUME NEW b \in BOOLEAN PROVE Len(dummyFunction(b)) \in Nat
    <2>1. PICK S : S = {"print", "sleep"}
      OBVIOUS
    <2>2. /\ <<"print", "print">> \in Seq(S) /\ <<"print", "sleep">> \in Seq(S)
          /\ << >> \in Seq(S) /\ <<"print">> \in Seq(S)
      BY <2>1
    <2>3. PICK x \in Seq(S) : x = IF b THEN <<"print", "sleep">> ELSE << >>
      BY <2>2
    <2>4. <<"print", "print">> \o x \o <<"print">> \in Seq(S)
      BY <2>2, <2>3
    <2>5. dummyFunction(b) = <<"print", "print">> \o x \o <<"print">>
      BY <2>3 DEF dummyFunction
    <2> QED
      BY <2>4, <2>5
  <1>4. Len(Code["t1"]) \in Nat /\ Len(Code["t2"]) \in Nat
    <2>1. Code["t1"] = dummyFunction(FALSE) /\ Code["t2"] = dummyFunction(TRUE)
      BY DEF Code
    <2> QED
      BY <1>3, <2>1
  <1>5. Len(Code["main"]) \in Nat
    BY <1>2
  <1> QED
    BY <1>1, <1>2, <1>4, <1>5

\* A thread that goes on stays behind its end once it is there.
LEMMA DoneFacts ==
    ASSUME TInv, NEW t \in Threads, Done(t)
    PROVE  /\ at' \in [Threads -> Nat] /\ at'[t] = at[t] + 1
           /\ \A x \in Threads \ {t} : at'[x] = at[x]
           /\ \A x \in Threads : Ended(x) => Ended(x)'
  <1>1. at' = [at EXCEPT ![t] = at[t] + 1] /\ at \in [Threads -> Nat]
    BY DEF TInv, Places, Done
  <1>2. at' \in [Threads -> Nat] /\ at'[t] = at[t] + 1 /\ \A x \in Threads \ {t} : at'[x] = at[x]
    BY <1>1
  <1>3. ASSUME NEW x \in Threads, at[x] > Len(Code[x]) PROVE at'[x] > Len(Code[x])
    <2>1. PICK n : n = Len(Code[x]) /\ n \in Nat
      BY CodeFacts
    <2>2. at[x] \in Nat /\ (at'[x] = at[x] \/ at'[x] = at[x] + 1)
      BY <1>1, <1>2
    <2> QED
      BY <1>3, <2>1, <2>2
  <1>4. \A x \in Threads : Ended(x) => Ended(x)'
    <2>1. \A x : Ended(x) <=> at[x] > Len(Code[x])
      BY DEF Ended
    <2>2. \A x : Ended(x)' <=> at'[x] > Len(Code[x])
      BY DEF Ended, Code, dummyFunction
    <2> QED
      BY <1>3, <2>1, <2>2
  <1> QED
    BY <1>2, <1>4

\* main() goes past a join only if the thread has ended, and ended it stays.
LEMMA JoinsKept ==
    ASSUME TInv, NEW t \in Threads, Done(t),
           t = "main" => Code["main"][at["main"]] # "join" \/ Join(t),
           t = "main" => ~Ended("main")
    PROVE  Joins'
  <1>1. \A x \in Threads : Ended(x) => Ended(x)'
    BY DoneFacts
  <1>2. "main" \in Threads /\ "t1" \in Threads /\ "t2" \in Threads
    BY CodeFacts
  <1>3. PICK n \in Nat : n = at["main"]
    BY <1>2 DEF TInv, Places
  <1>4. CASE t # "main"
    <2>1. at'["main"] = at["main"]
      BY <1>2, <1>4, DoneFacts
    <2> QED
      BY <1>1, <1>2, <2>1 DEF TInv, Joins
  <1>5. CASE t = "main"
    <2>1. at'["main"] = n + 1
      BY <1>3, <1>5, DoneFacts
    <2>2. n > 4 => Ended("t1")
      BY <1>3 DEF TInv, Joins
    <2>3. n > 5 => Ended("t2")
      BY <1>3 DEF TInv, Joins
    <2>4. n \in {4, 5} => Join(t)
      <3>1. n \in {4, 5} => Code["main"][n] = "join"
        BY CodeFacts
      <3> QED
        BY <1>3, <1>5, <3>1
    <2>5. n = 4 => Ended("t1")
      BY <1>3, <2>4 DEF Join, Joined
    <2>6. n = 5 => Ended("t2")
      BY <1>3, <2>4 DEF Join, Joined
    <2>7. (n + 1 > 4 => Ended("t1")') /\ (n + 1 > 5 => Ended("t2")')
      BY <1>1, <1>2, <2>2, <2>3, <2>5, <2>6
    <2> QED
      BY <2>1, <2>7 DEF Joins
  <1> QED
    BY <1>4, <1>5

\* A statement that prints nothing leaves the lines alone.
LEMMA OtherStatementTInv ==
    ASSUME TInv, NEW t \in Threads,
           SleepFor(t) \/ Start(t) \/ Join(t)
    PROVE  TInv'
  <1>1. Done(t) /\ ~Ended(t) /\ UNCHANGED <<begun, cursor>>
    BY DEF SleepFor, Start, Join, IsAt
  <1>2. Code[t][at[t]] # "print" /\ (Code[t][at[t]] # "join" \/ Join(t))
    BY DEF SleepFor, Start, Join, IsAt
  <1>3. Places'
    BY <1>1, DoneFacts DEF TInv, Places
  <1>4. Joins'
    BY <1>1, <1>2, JoinsKept
  <1>5. ~begun[t]
    BY <1>2 DEF TInv, Lines
  <1>6. Lines'
    <2>1. ASSUME NEW x \in Threads, begun[x]
          PROVE  ~Ended(x)' /\ Code[x][at'[x]] = "print"
      <3>1. x # t /\ at'[x] = at[x]
        BY <1>1, <1>5, <2>1, DoneFacts
      <3>2. ~Ended(x) /\ Code[x][at[x]] = "print"
        BY <2>1 DEF TInv, Lines
      <3>3. ~Ended(x)'
        BY <3>1, <3>2 DEF Ended, Code, dummyFunction
      <3> QED
        BY <3>1, <3>2, <3>3
    <2>2. cursor' = "within" => \E x \in Threads : begun'[x]
      BY <1>1 DEF TInv, Lines
    <2>3. \A x \in Threads : begun'[x] => ~Ended(x)' /\ Code[x][at'[x]] = "print"
      BY <1>1, <2>1
    <2> QED
      BY <2>2, <2>3 DEF Lines, Threads, Code, dummyFunction
  <1> QED
    BY <1>3, <1>4, <1>6 DEF TInv

\* A thread begins a line.
LEMMA InsertTextTInv ==
    ASSUME TInv, NEW t \in Threads, InsertText(t)
    PROVE  TInv'
  <1>1. /\ ~Ended(t) /\ Code[t][at[t]] = "print"
        /\ begun' = [begun EXCEPT ![t] = TRUE] /\ cursor' = "within" /\ at' = at
    BY DEF InsertText, IsAt
  <1>2. begun' \in [Threads -> BOOLEAN] /\ begun'[t] /\ \A x \in Threads \ {t} : begun'[x] = begun[x]
    BY <1>1 DEF TInv, Places
  <1>3. Places'
    BY <1>1, <1>2 DEF TInv, Places
  <1>4. \A x : Ended(x)' <=> Ended(x)
    BY <1>1 DEF Ended
  <1>5. Joins'
    BY <1>1, <1>4 DEF TInv, Joins
  <1>6. \A x \in Threads : begun'[x] => ~Ended(x)' /\ Code[x][at'[x]] = "print"
    BY <1>1, <1>2, <1>4 DEF TInv, Lines
  <1>7. Lines'
    BY <1>2, <1>6 DEF Lines, Threads, Code, dummyFunction
  <1> QED
    BY <1>3, <1>5, <1>7 DEF TInv

\* A thread ends its line, and whatever line the cursor was within.
LEMMA InsertEndlTInv ==
    ASSUME TInv, NEW t \in Threads, InsertEndl(t)
    PROVE  TInv'
  <1>1. /\ ~Ended(t) /\ Code[t][at[t]] = "print" /\ Done(t)
        /\ begun' = [begun EXCEPT ![t] = FALSE] /\ cursor' = "start"
    BY DEF InsertEndl, IsAt
  <1>2. begun' \in [Threads -> BOOLEAN] /\ ~begun'[t] /\ \A x \in Threads \ {t} : begun'[x] = begun[x]
    BY <1>1 DEF TInv, Places
  <1>3. Places'
    BY <1>1, <1>2, DoneFacts DEF TInv, Places
  <1>4. Joins'
    BY <1>1, JoinsKept
  <1>5. ASSUME NEW x \in Threads, begun'[x]
        PROVE  ~Ended(x)' /\ Code[x][at'[x]] = "print"
    <2>1. x # t /\ begun[x]
      BY <1>2, <1>5
    <2>2. at'[x] = at[x]
      BY <1>1, <2>1, DoneFacts
    <2>3. ~Ended(x) /\ Code[x][at[x]] = "print"
      BY <2>1 DEF TInv, Lines
    <2>4. ~Ended(x)'
      BY <2>2, <2>3 DEF Ended, Code, dummyFunction
    <2> QED
      BY <2>2, <2>3, <2>4
  <1>6. Lines'
    BY <1>1, <1>5 DEF Lines, Threads, Code, dummyFunction
  <1> QED
    BY <1>3, <1>4, <1>6 DEF TInv

\* main() begins alone, at its first statement.
LEMMA InitTInv == ThreadInit => TInv
  <1> SUFFICES ASSUME ThreadInit PROVE TInv
    OBVIOUS
  <1>1. /\ at = [t \in Threads |-> 1] /\ begun = [t \in Threads |-> FALSE] /\ cursor = "start"
        /\ "main" \in Threads
    BY CodeFacts DEF ThreadInit
  <1> QED
    BY <1>1 DEF TInv, Places, Joins, Lines

\* Every statement of every thread keeps the invariant.
LEMMA NextTInv == TInv /\ [ThreadNext]_threadVars => TInv'
  <1> SUFFICES ASSUME TInv, [ThreadNext]_threadVars PROVE TInv'
    OBVIOUS
  <1>1. ASSUME UNCHANGED threadVars PROVE TInv'
    <2>1. at' = at /\ begun' = begun /\ cursor' = cursor
      BY <1>1 DEF threadVars
    <2>2. \A x : Ended(x)' <=> Ended(x)
      BY <2>1 DEF Ended
    <2> QED
      BY <2>1, <2>2 DEF TInv, Places, Joins, Lines, Threads, Code, dummyFunction
  <1>2. ASSUME NEW t \in Threads, Statement(t) PROVE TInv'
    BY <1>2, OtherStatementTInv, InsertTextTInv, InsertEndlTInv DEF Statement
  <1> QED
    BY <1>1, <1>2 DEF ThreadNext, Exited

(***************************************************************************)
(* However the insertions of the three threads alternate, main() begins    *)
(* its last line when the lines of both threads have ended, and at the     *)
(* start of a line (thread_example.cpp:22-25).                             *)
(***************************************************************************)
THEOREM LastLineIsMains == ThreadSpec => ExitsOnALineOfItsOwn
  <1>1. ASSUME TInv, at["main"] = Len(Code["main"]), InsertText("main")
        PROVE  cursor = "start" /\ \A t \in Threads \ {"main"} : Ended(t)
    <2>1. at["main"] = 6
      BY <1>1, CodeFacts
    <2>2. Ended("t1") /\ Ended("t2") /\ ~begun["main"]
      BY <1>1, <2>1 DEF TInv, Joins, InsertText
    <2>3. \A t \in Threads \ {"main"} : Ended(t)
      BY <2>2, CodeFacts
    <2>4. \A t \in Threads : ~begun[t]
      BY <1>1, <2>2, <2>3 DEF TInv, Lines
    <2> QED
      BY <1>1, <2>3, <2>4 DEF TInv, Lines, Places
  <1>2. TInv => [at["main"] = Len(Code["main"]) /\ InsertText("main") =>
                   cursor = "start" /\ \A t \in Threads \ {"main"} : Ended(t)]_threadVars
    BY <1>1
  <1> QED
    BY <1>2, InitTInv, NextTInv, PTL DEF ThreadSpec, ExitsOnALineOfItsOwn
=============================================================================
