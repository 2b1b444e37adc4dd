------------------------- MODULE ContainerBenchmark -------------------------
(***************************************************************************)
(* src/examples/container_benchmark.cpp: run_benchmark(n) puts the keys    *)
(* 0 .. n - 1 into a sorted vector, a map and an unordered_map, looks them *)
(* up in random order, looks a few up again with a cold cache, and sums    *)
(* over all entries.  Every value read is added to sink.  The vector's     *)
(* lookup trusts its binary search: it never compares the key it found     *)
(* with the one it wanted.                                                 *)
(*                                                                         *)
(* The maps of the standard library, external, are functions; the binary   *)
(* search of std::lower_bound is written out, as its answer on a vector    *)
(* depends on the order of the entries.  Time is left out, and so is the   *)
(* cache, whose flush adds the zeros of its buffer to sink.                *)
(***************************************************************************)
EXTENDS Naturals, Sequences, Functions

CONSTANTS N,             \* n of run_benchmark()
          ColdSamples    \* kColdSamples

ASSUME ContainerAssumption == N \in Nat \ {0} /\ ColdSamples \in Nat \ {0}

VARIABLES container,     \* the one whose turn it is
          stage,         \* its loop that is running
          i,             \* the counter of the loop
          random_keys,   \* the keys in the order in which they are looked up
          vec,           \* sequence of [key, value]
          m, um,         \* map and unordered_map, functions from keys to values
          sink           \* the sum of all values read

data == <<vec, m, um>>
vars == <<container, stage, i, random_keys, data, sink>>

keys == 0 .. N - 1

Init ==
    /\ container = "vector"
    /\ stage = "insert"
    /\ i = 0
    /\ random_keys \in {f \in [keys -> keys] : \A k, l \in keys : f[k] = f[l] => k = l}
    /\ vec = << >>
    /\ m = [k \in {} |-> 0]
    /\ um = [k \in {} |-> 0]
    /\ sink = 0

\* The rounds of the loop that is running.
Rounds ==
    CASE stage = "cold" -> IF N < ColdSamples THEN N ELSE ColdSamples
      [] stage \in {"sort", "iterate"} -> 1
      [] OTHER -> N

Round(c, s) ==
    /\ container = c /\ stage = s
    /\ i < Rounds
    /\ i' = i + 1
    /\ UNCHANGED <<container, stage, random_keys>>

----------------------------------------------------------------------------
bench_vector_insert ==
    /\ Round("vector", "insert")
    /\ vec' = Append(vec, [key |-> i, value |-> i * 2])
    /\ UNCHANGED <<m, um, sink>>

\* map[k] = value.
Assign(map, k, value) ==
    [x \in DOMAIN map \cup {k} |-> IF x = k THEN value ELSE map[x]]

bench_map_insert ==
    /\ Round("map", "insert")
    /\ m' = Assign(m, i, i * 2)
    /\ UNCHANGED <<vec, um, sink>>

bench_umap_insert ==
    /\ Round("unordered_map", "insert")
    /\ um' = Assign(um, i, i * 2)
    /\ UNCHANGED <<vec, m, sink>>

\* std::sort: the entries in some order in which their keys do not descend.
Sort ==
    /\ Round("vector", "sort")
    /\ \E p \in Bijection(DOMAIN vec, DOMAIN vec) :
          /\ \A k, l \in DOMAIN vec : k < l => vec[p[k]].key <= vec[p[l]].key
          /\ vec' = [k \in DOMAIN vec |-> vec[p[k]]]
    /\ UNCHANGED <<m, um, sink>>

\* Mutant: the comparison of std::upper_bound.
NotBefore(e, k) == e.key <= k

\* The comparison that the search is given.
Before(e, k) == e.key < k

\* The stretches of the vector, by the offset of the first entry and the length.
Stretches ==
    {r \in [first : 0 .. Len(vec), len : 0 .. Len(vec)] : r.first + r.len <= Len(vec)}

\* std::lower_bound: the offset of the first entry that is not before k, found
\* by halving the stretch in which it is searched.
lower_bound(k) ==
    LET search[r \in Stretches] ==
            LET half == r.len \div 2
            IN  IF r.len = 0 THEN r.first
                ELSE IF Before(vec[r.first + half + 1], k)
                THEN search[[first |-> r.first + half + 1, len |-> r.len - half - 1]]
                ELSE search[[first |-> r.first, len |-> half]]
    IN  search[[first |-> 0, len |-> Len(vec)]]

\* What a lookup of k adds to sink.
vector_value(k) ==
    LET found == lower_bound(k)
    IN  IF found # Len(vec) THEN vec[found + 1].value ELSE 0

map_value(k) == IF k \in DOMAIN m THEN m[k] ELSE 0
umap_value(k) == IF k \in DOMAIN um THEN um[k] ELSE 0

\* A round of bench_*_lookup() or bench_*_lookup_cold() that reads value.
Lookup(c, value) ==
    /\ Round(c, "lookup") \/ Round(c, "cold")
    /\ sink' = sink + value
    /\ UNCHANGED data

bench_vector_lookup == Lookup("vector", vector_value(random_keys[i]))
bench_map_lookup == Lookup("map", map_value(random_keys[i]))
bench_umap_lookup == Lookup("unordered_map", umap_value(random_keys[i]))

\* The loop over all entries, in one step.
bench_vector_iterate ==
    /\ Round("vector", "iterate")
    /\ sink' = sink + SumFunction([k \in DOMAIN vec |-> vec[k].value])
    /\ UNCHANGED data

bench_map_iterate ==
    /\ Round("map", "iterate")
    /\ sink' = sink + SumFunction(m)
    /\ UNCHANGED data

bench_umap_iterate ==
    /\ Round("unordered_map", "iterate")
    /\ sink' = sink + SumFunction(um)
    /\ UNCHANGED data

NextStage ==
    [insert |-> IF container = "vector" THEN "sort" ELSE "lookup", sort |-> "lookup",
     lookup |-> "cold", cold |-> "iterate",
     iterate |-> IF container = "unordered_map" THEN "done" ELSE "insert"]

NextContainer ==
    [vector |-> "map", map |-> "unordered_map", unordered_map |-> "unordered_map"]

\* run_benchmark() goes on to the next loop.
NextLoop ==
    /\ stage # "done" /\ i = Rounds
    /\ stage' = NextStage[stage]
    /\ container' = IF stage = "iterate" THEN NextContainer[container] ELSE container
    /\ i' = 0
    /\ UNCHANGED <<random_keys, data, sink>>

Finished == stage = "done" /\ UNCHANGED vars

Next ==
    \/ bench_vector_insert \/ Sort \/ bench_vector_lookup \/ bench_vector_iterate
    \/ bench_map_insert \/ bench_map_lookup \/ bench_map_iterate
    \/ bench_umap_insert \/ bench_umap_lookup \/ bench_umap_iterate
    \/ NextLoop \/ Finished

Spec == Init /\ [][Next]_vars

----------------------------------------------------------------------------
\* What the keys are worth, and what a container should add to sink in its turn.
Values == [k \in keys |-> k * 2]
Worth ==
    2 * SumFunction(Values)
    + SumFunctionOnSet(Values, {random_keys[r] : r \in {r \in keys : r < ColdSamples}})

(***************************************************************************)
(* "All three containers store the same data; only the data structure      *)
(* differs" (container_benchmark.cpp:20): when a container's turn is over, *)
(* sink has grown by what its keys are worth, twice for all of them and    *)
(* once for those looked up cold, the same for each container and in       *)
(* whatever order they were looked up (container_benchmark.cpp:123-258).   *)
(***************************************************************************)
ContainersAgree ==
    /\ stage = "insert" =>
          sink = Worth * [vector |-> 0, map |-> 1, unordered_map |-> 2][container]
    /\ stage = "done" => sink = Worth * 3

(***************************************************************************)
(* The vector's lookup, which takes the first entry that is not before the *)
(* key for the entry of the key, is always right about it                  *)
(* (container_benchmark.cpp:135-138, 226-228).                             *)
(***************************************************************************)
FindsItsKey ==
    container = "vector" /\ stage \in {"lookup", "cold"} =>
        \A k \in keys : /\ lower_bound(k) < Len(vec)
                        /\ vec[lower_bound(k) + 1].key = k
=============================================================================
