# A verification of the trading exchange

TLA+ models of the exchange in `src/project/` and of the programs in `src/examples/`,
TLC runs that check them on small instances, and TLAPS proofs of the results that hold
for every size.
`PROJECT.json` lists components, runs, mutants, hazards and theorems, and maps every
definition to the source lines it models.

## 1. The system

The exchange is one thread. There are no locks, messages or files, and nothing is
recovered after a crash. What makes it hard is manual memory: a pool that hands out
slots of one array, lists threaded through the objects in those slots, and callers that
keep raw pointers.

| component | state | operations | used by |
|---|---|---|---|
| `MemPool` (`mem_pool.hpp`) | array of elements, each a flag and storage; head index of a free list whose links overlay the first word of the storage | constructor, `allocate`, `deallocate` | `OrderBook`, benchmark |
| `MemPoolSeparateFreeStructure` | the same with the link in a field of its own and no flag | the same | its benchmark |
| `IntrusiveQueue` (`intrusive_queue.hpp`) | `head_`, `tail_`, `size_`; links in the items | `append`, `remove`, `pop`, `peek`, `empty` | a price level of the book |
| `Order`, `OrderType` | ids, size, price, side, type, links | `decreaseSize` | the book |
| `OrderBook` (`order_book.cpp`) | a pool of orders; two maps from price to level | `addOrder`, `cancelOrder`, `matchBidOrder`, `matchAskOrder`, `matchAtLevel`, `toString` | `main` |
| `RandomOrderDataGenerator` | next id, last price | `get_next_order_id`, `generate_random_size`, `generate_random_price` | `main` |
| `main` (`entrypoint.cpp`) | vector of pointers to orders | submit, track, cancel now and then, clean up | - |
| pool benchmarks | vectors of pointers | fill, drain, churn, on the pool, `new` and `malloc` in turn | - |
| container benchmark (`examples/`) | a sorted vector and two maps, a running sum | insert, sort, look up, iterate | - |
| thread example (`examples/`) | three threads, one stream | start, print, sleep, join | - |

`main` draws ids, sizes and prices from the generator and calls the book; the book calls the pool and the queues; all of them share the
`Order` objects through pointers. A filled resting order is freed inside somebody else's
`addOrder`, and whoever tracks it is not told.

What is hard to test, and the property that watches it, is the list of hazards in
`PROJECT.json`. In short: the free list aliases object bytes; the four paths of
`remove`; a level that must vanish with its last order; price-time priority through
partial fills and cancels; loops that end only if each pass makes progress; slots that
are never given back; sizes read through pointers to freed orders; unsigned sums; ids
that share a word with links; a comparison of allocators that may part ways under the
same seed; a search whose answer is not compared with the question; lines of several
threads on one stream.

## 2. The modules

| module | models | remarks |
|---|---|---|
| `ObjectPool` | what a pool promises | abstract; a function from elements in use to values |
| `MemPool` | `mem_pool.hpp` | `word` is the first machine word of the storage, a link or the head of an object; `object` is the rest; `is_free` is the flag, which the code writes and never reads |
| `MemPoolSeparateFreeStructure` | the second pool | `live` is what the callers hold: the blocks do not record it |
| `IntrusiveQueue` | `intrusive_queue.hpp` | constant operators from (queue, links) to (queue, links), for use by any owner |
| `QueueSystem` | several queues over one population of items | `fifo` is the contract, a plain sequence |
| `MatchingEngine` | the flow chart of the repository's README | abstract; a book is a queue for every side and price, `incoming` the set of at most one order that is being matched |
| `OrderBook` | `order_book.cpp`, `order.hpp` | instantiates `MemPool`, extends `IntrusiveQueue`, refines `MatchingEngine` |
| `DepthReport` | `OrderBook::toString` | operators over the book, as it changes nothing |
| `Entrypoint` | `main` | extends `OrderBook`, whose steps run inside `addOrder`, and `RandomOrderGenerator`, from which ids, sizes and prices are drawn one by one; the three have disjoint variables |
| `RandomOrderGenerator` | `random_order_generator.hpp` | unsigned arithmetic modulo `Modulus` |
| `BenchmarkRounds` | `run_benchmark` as both pool benchmarks have it | the benchmark's own variables, the order of the loops, and the rounds on the heap; a round takes what the allocator returned |
| `PoolBenchmark` | `mem_pool_benchmark.cpp` | adds the rounds on a `MemPool` |
| `SeparatePoolBenchmark` | `mem_pool_separate_free_structure_benchmark.cpp` | the rounds on the second pool; refines `PoolBenchmark` |
| `ContainerBenchmark` | `container_benchmark.cpp` | the maps are functions; `std::sort` yields some permutation in which keys do not descend; the binary search of `std::lower_bound` is written out |
| `ThreadExample` | `thread_example.cpp` | the statements of each thread; a line is its text and its end |
| `QueueLemmas` | - | what `append`, `remove` and a walk do to a queue, and what a sum over a set is, for the other proofs |
| `MemPoolProofs`, `QueueProofs`, `OrderBookProofs` | - | theorems about the component of that name, the depth report with the book; section 5 |
| `EntrypointProofs` | - | theorems about the generator and `main`, from those about the book |
| `PoolBenchmarkProofs` | - | theorems about the first pool benchmark, from those about its pool |
| `SeparatePoolProofs` | - | theorems about the second pool and its benchmark, from those about the first |
| `ExampleProofs` | - | theorems about the container benchmark and the thread example |
| `MC*` | the model of a run | |

Modelling decisions that matter:

* **Small steps.** A call of the book is not one step. `pc` is the place in the call:
  `match` is the loop of `matchBidOrder`/`matchAskOrder`, `level` the loop of
  `matchAtLevel`, `close` the point between the decrease of a maker to zero and its
  removal, `return` the rest of `addOrder`. The two matchers are one set of actions,
  parameterised by the side: they differ in the end of the map they start from and in
  the comparison. Invariants are checked between all these steps.
* **The bytes of a freed order.** `order_id` is the first word and is overwritten by the
  link; `size` stays as it was and `main` reads it; price and side are read by nobody
  after the free and are cleared to keep the state space small. Reading an object after
  its destructor is outside the language's guarantees. The model takes what the build
  does: the zero is stored before the opaque calls of the logger that precede the
  `deallocate`, the destructor is trivial, and the free writes the flag and the first
  word only.
* **A null dereference is a step that does not exist.** `MatchHead` has no step for a
  level that counts orders but has no head. A call that reached such a level would be
  stuck, and `CallReturns` would report it.
* **The heap** of the benchmarks is external: an `ObjectPool` over some addresses, which
  may return any free one. It never refuses, as the code takes for granted: it uses what
  `malloc` returns unchecked. `new`/`delete` and `malloc`/`free` are one set of actions.
* **One `run_benchmark`.** The programs call it for several sizes; it starts from nothing
  each time but for `sink`, of which `ContainersAgree` states by how much it grows.
* **Left out:** logging, text layout, `client_id`, `symbol` and the stored `order_type`
  (never read back), `total_matched` arguments other than the 0 that all callers pass.
* **The callers' side.** The pool's callers free and write only what they hold: that is
  an assumption of `MemPool` and `QueueSystem`, and a checked property of the book
  (`PoolDiscipline`, `BookIntact`) and of the
  benchmarks (`HeldObjectsIntact`, `HeldBlocksIntact`). The
  book's callers cancel only live orders. `CancelsFilled` says whether they also cancel
  orders that were filled on arrival while their price has a level; see the finding.

## 3. The runs

| run | bounds | shows |
|---|---|---|
| `mem_pool` | 4 elements | the free list is exact, `nullptr` means full, live objects are undisturbed (`ObjectPool` is implemented). Words include a valid index and one beyond the store, so that object bytes could pass for links |
| `separate_pool` | 3 blocks | no block is handed out twice; same answers as `MemPool` |
| `queue` | 4 items, 2 queues | links, ends and counters describe the FIFO contract; `pop` takes the oldest. Four items give `remove` an only, a first, a last and two middle items |
| `order_book` | 3 orders, 2 prices, sizes 0 to 2 | the seven properties below |
| `order_book_cancel_filled` | 3 orders, sizes 1, 2 | the finding, expected to be violated |
| `depth_report` | 3 orders, sizes 1 and 3, totals modulo 4 | the report accounts for all open shares up to the width of its totals |
| `entrypoint` | 3 slots, 5 iterations, orders at prices 2 to 4, sizes 500 and 1000 | the pointers `main` tracks, and ids that tell the age of orders; two more orders than slots, so that slots are reused and the pool runs out; the book would allow any cancel (`CancelsFilled`); several prices, so that the walk of the generator meets its floor and a taker crosses several levels |
| `generator` | tick, floor and offset divided by ten, 1024 for 2^64 | the walk neither wraps nor falls below its floor (which the type invariant has as the lower end of `last_price`). `MaxLast` and `MaxId` bound the model, far below the wrap at the top |
| `pool_benchmark` | 4 elements, 3 cold samples, 6 addresses | unchecked pointers are never null or freed, all is returned, and the pool answers as the heap does until the churn meets the full pool. 6 addresses are all that a churn of 4 can hold |
| `separate_benchmark` | the same | the same for the second pool; the two benchmarks put their pools through the same allocations and frees |
| `container_benchmark` | 5 keys, 3 cold samples | the containers give the same answers; the vector's search finds its key. Five keys make the search halve odd and even stretches, in all 120 orders of lookup |
| `thread_example` | as in the code | every interleaving: `main` gets past its joins, and its last line is alone and last |

The properties of the book: `NotCrossed`, every bid below every ask at every step;
`BookIntact`, every level a sound list of live orders of its side and price, none empty;
`NoOrderLost`, every live order with shares left rests where a taker meets it;
`PoolDiscipline`, the book's use of its pool is a behaviour of `MemPool`;
`ImplementsMatchingEngine`, price-time priority, conservation of shares, and cancels that
take out one order; `CallReturns`; and the type invariant. Three orders are enough for a
middle item of a level, for a taker against two makers at one or two prices, and for an
order that is refused because the pool is full; sizes 0 to 2 let an order be exactly
filled, partly filled or outlast another, and include the empty order, which matches
nothing and keeps a slot.

Each property has a mutant: a variant of one action with a plausible mistake, defined
next to it, under which the property must fail.

**Fairness.** `OrderBook` assumes weak fairness of the steps inside a call, and nothing
about new calls; `Entrypoint` weak fairness of its next step.
There is one thread and it never blocks, so a step that can be taken is taken.
`ThreadExample` assumes weak fairness of each of its three threads: the system schedules
every thread that is not blocked, a sleep ends, and a join that has become possible stays
possible. Nothing is assumed about who is faster.

**Finding.** `order_book.hpp` says that `cancelOrder` "Removes an order from the order
book and deallocates it from the memory pool." `addOrder` also returns orders that were
filled on arrival, which are in no level. Cancelling one while another order rests at the
same side and price runs `remove` on a level the order is not in: `head_` and `tail_`
become null, `size_` goes down by one, and the resting orders are lost. `main` avoids it
by looking at the size first. The run `order_book_cancel_filled` shows the shortest way
there; `order_book` and `depth_report` are about callers that do not do this, and `entrypoint` shows that `main` is one.

The runs also show, without a violated claim, that an order filled on arrival keeps its
slot until its caller cancels it, which `main` never does. `PoolSuffices` states what
remains true: `pool_size` orders can always be submitted, and 1024 slots are enough for
the 100 iterations of `main`.

## 4. What is not modelled

`common/`: reading a cycle counter and formatting the wall clock keep no state, and no
decision of the program depends on what they return. For the same reason the benchmarks
are modelled without time, cache eviction and the printed tables. The uuid that `main`
draws as `client_id` is stored and never read. The README of the repository also names a lock-free queue, an order server, a
market data publisher and a logger: there is no code for them yet.

## 5. The proofs

All are for every value of the constants, from the assumptions stated with the constants:
a pool is not empty, ids and prices are naturals, prices and sizes have an upper bound,
`NULL` is no slot and no address of the heap (`PointerAssumption`, `NullAssumption`), the
words of a slot can hold the ids that a benchmark writes (`IdAssumption`), and the book
that `main` uses takes the ids, sizes and prices that its generator can draw, which has
more ids than the loop has iterations (`GeneratorAssumption`).

* **`MemPoolProofs`.** `PoolTypes`, `FreeListCorrect`, `ExhaustionCorrect`,
  `PoolImplementsObjectPool`. The inductive invariant is `TypeOK /\ FreeListExact`: some
  sequence without repetition lists the free elements as the links do. `allocate` takes
  its first entry, `deallocate` puts one in front. That the head is free when the list is
  not empty (`HeadIsFree`) is what the refinement needs.
* **`PoolBenchmarkProofs`.** `BenchTypes`, `BenchPointersGood`, `BenchReturnsAll`,
  `BenchLoadsAreEqual`. The benchmark dereferences and frees what it holds without a
  check, so the invariant `BenchInv` ties three things together: the rounds done, the
  pointers held and what the allocator has in use. In the loops that fill or drain,
  exactly the indexes that the round counter and the permutation name have a pointer, no
  two the same, and these are all that is in use (`HoldsPtrs`); in the churn the vector
  lists all that is in use, once each (`HoldsChurned`). It is stated once for any
  allocator (`RoundsInv`) and used for the heap and, with the invariant of `MemPool`, for
  the pool. That a round always gets an element is a count: as long as an index is left
  without a pointer, fewer than n elements are in use, so the pool is not exhausted.
* **`SeparatePoolProofs`.** `SeparatePoolTypes`, `NextIsNeverLive`,
  `PoolsAreInterchangeable`, `SeparateBenchPointersGood`, `BenchmarksCompareLikeWithLike`.
  Each step is a step of `MemPool` under the mapping, provided that the head is not live;
  this is the invariant of `MemPool` seen through the mapping, so the lemmas of
  `MemPoolProofs` are used through an instance and no list argument is repeated. The
  benchmark follows in the same way from an instance of `PoolBenchmarkProofs`.
* **`QueueLemmas`.** `append` and `remove` take a queue that represents a sequence to one
  that represents the longer or shorter sequence (`AppendRepresents`,
  `RemoveRepresents`), and touch only nodes of that queue (`AppendFrame`, `RemoveFrame`,
  `NeighboursAreMembers`). A walk of `head` and `next` meets exactly the sequence that is
  represented (`WalkMeetsAll`); induction over data is out of the prover's reach, and the
  proof takes the least entry at which walk and sequence would differ instead. `Holds`
  states the same for an owner that knows which items are in a queue and not in which
  order. The last part is about sums: `SumFunctionOnSet` takes the elements of a set in
  an order left open, and no order changes what it adds up to (`TotalsAgree`), so that a
  sum grows by what one more element is worth (`SumWithOneMore`) and a loop along a
  sequence adds up to the sum over its entries (`SumAlong`). Here too the least
  counterexample takes the place of induction.
* **`QueueProofs`.** `QueueTypes`, `QueuesCorrect`, `PopCorrect`: the other queues keep
  what they represent as long as no item is in two of them.
* **`OrderBookProofs`.** `NeverCrossed`, whatever is cancelled, filled orders included.
  `NotCrossed` is not inductive: it needs that a matcher which returns with shares left
  has seen that nothing on the other side crosses (`NothingCrosses`), and for that that
  the best level is the first or the last of its map (`HasFirst`, `HasLast`) and that the
  maps, counters and locals are well formed (`Shape`). It does not need the links.
* **`OrderBookProofs`, second part.** `BookTypes`, `LevelsIntact`, `OrdersFindable`,
  `BookOwnsPool`, `CancelsAreExact`. The invariant `BInv` says by what the orders
  themselves say which of them belong to a level, `At(s, p)`: live, not the one coming
  in, of that side and price, with shares left or just being closed. Every level `Holds`
  its `At`, and where `At` is not empty there is a level (`Linked`). Levels are disjoint
  because an order has one side and one price, so a step that works on one level leaves
  the others alone. Two more parts are needed: the invariant of `MemPool`, through an
  instance of `MemPoolProofs`, so that a new order's slot is on no level; and what is
  known about the order a call has allocated (`Owned`). The step lemmas are about
  `CarefulNext`, in which a cancel is `Harmless`: the order has shares left, or no level
  has its price. `Spec` with `~CancelsFilled` allows no other, and the theorems assume
  `~CancelsFilled`; the finding shows that they fail without it.
* **`OrderBookProofs`, third part.** `MatchingImplemented`, under the same assumption.
  Beyond `BInv`, the level a matcher works at is still the best one and crosses
  (`Chosen`), and a matcher that returns with shares left has nothing to match (`Spent`).
  Each action is followed by what it does to the line of orders at each price, and that
  to the queues of `MatchingEngine`: `MatchHead` is a trade, in which the maker it empties
  leaves the abstract queue, so that the `CloseHead` that unlinks it is a stutter.
* **`OrderBookProofs`, last part.** `ReportsExact`, under the same assumption. `toString`
  finds the orders of a row along the links; `ReportExact` takes them from the pool. By
  `BInv` the walk of a level meets exactly its open orders (`OpenIsAt`), so that by
  `SumAlong` the loop, which reduces modulo the width at every addition, leaves the sum
  over them modulo that width (`RowLoop`).
* **`EntrypointProofs`, the generator.** `GeneratorTypes`, `WalkStaysClose`, from a bound
  on what each of the clustering, the rounding and the floor does to a price. The bound
  `MaxLast` on the walk is part of the model, so that a wrap at the upper end of the
  unsigned range is excluded and one below zero is what is proved not to happen.
* **`EntrypointProofs`, `main`.** `MainTypes`, `TrackingCorrect`, `CancelsResting`,
  `PoolIsEnough`, `AgeOrder`, `MainKeepsBookIntact`, `MainSeesMatching`. None of them assumes
  `~CancelsFilled`: the book would let `main` cancel an order that was filled, and that
  it never does so is part of what is proved. The invariant `EInv` is `BInv` with
  `Drawing` (the counters follow the phases of the loop), `Tracking` (what looks open in
  the vector rests on the book, what rests is in the vector or is the order just added,
  and no entry occurs twice) and `Aged` (live ids are distinct, at most the last one
  given out, and ascend along every line). The heart of it is `Shrinks`: inside a call,
  an order that goes leaves a size of zero behind, and the slot is not handed out again
  before the vector is cleaned. `PoolIsEnough` is a pigeonhole argument: ids mark the
  slots in use, and only so many were given out. `MainIsCareful` shows the steps of
  `main` to be steps of `CarefulNext`, which carries `BInv` and the refinement over.
* **`ExampleProofs`, the containers.** `SearchIsRight`, `SameDataSameSums`. The invariant
  `CInv` says what each container holds (`Stored`) and what `sink` has grown to, as a sum
  over the keys looked up so far (`Counted`). The sort leaves the vector as it is, since
  keys are inserted ascending and are distinct. The halving search ends at the first
  entry that is not before the key: of the stretches on which it would end elsewhere, a
  shortest one is searched in a half that is shorter still. The keys looked up cold are
  among `keys` and distinct, as the permutation is injective, so that they too are a sum
  over a set. `sink` is taken without its width of 64 bits, which the program's sizes, up
  to 10^7, do not come near; with it the three sums would still be equal.
* **`ExampleProofs`, the threads.** `LastLineIsMains`. The invariant `TInv` ties the place
  of `main` to the threads it has joined (`Joins`), and an unfinished line of the stream
  to a thread that has begun one and not ended (`Lines`): when both threads have ended,
  only `main` can have a line open, and it has none when it begins its last.

The parts of the inductive invariants were also checked with TLC on the bounds of the runs, `Linked` with the walk of a level as its sequence.

Every safety property of the passing runs, invariant, action property or refinement, is
the statement of a theorem. Only model-checked are the liveness properties `CallReturns`,
`MainTerminates` and `MainExits`, which need fairness and are out of the prover's reach.
Of the theorems about the book alone all but `NeverCrossed` assume `~CancelsFilled`, for
the reason that the finding gives; those about `main` do not.

## 6. Plan

Done: every program of the repository is modelled and checked, and every safety property
is proved. What remains depends on the code:

1. When `cancelOrder` is made to look whether the order rests (see the finding),
   `CancelsFilled` and the proviso of the theorems about the book go away.
2. When the lock-free queue, the order server or the publisher arrive, each gets a module
   of its own, composed with `OrderBook` in place of `main`.
