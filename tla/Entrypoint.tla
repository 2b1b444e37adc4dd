----------------------------- MODULE Entrypoint -----------------------------
(***************************************************************************)
(* main() (src/project/entrypoint.cpp): the one client of the order book.  *)
(* It submits orders, keeps the pointers of those that came to rest in a   *)
(* vector, now and then cancels one of them, and drops from the vector     *)
(* whatever has no shares left.  The book frees a resting order as soon as *)
(* it is filled and tells nobody, so the vector holds pointers to freed    *)
(* orders until the end of the iteration: main() reads the size that the   *)
(* pool happens to leave in place.                                         *)
(*                                                                         *)
(* Ids, sizes and prices come from the generator, the side, the type and   *)
(* what is cancelled are drawn by main() itself; all draws are             *)
(* nondeterministic choices.  The loop runs 100 times in the code,         *)
(* Iterations times here.                                                  *)
(***************************************************************************)
EXTENDS OrderBook, RandomOrderGenerator

CONSTANT Iterations

ASSUME IterationsAssumption == Iterations \in Nat

VARIABLES phase,      \* where in the loop body main() is
          i,          \* the iterations completed
          returned,   \* order, what the last addOrder() returned
          orders      \* the vector of tracked orders

mainVars == <<genVars, phase, i, returned, orders>>
allVars == <<vars, mainVars>>

\* The book takes whatever the generator draws, which does not run out of ids.
ASSUME GeneratorAssumption ==
    /\ Iterations < MaxId
    /\ 1 .. Iterations \subseteq OrderIds
    /\ MinPrice .. MaxLast + MaxOffset + Tick \subseteq Prices
    /\ Drawn \subseteq Sizes

MainInit ==
    /\ Init
    /\ GenInit
    /\ phase = "id"
    /\ i = 0
    /\ returned = NULL
    /\ orders = << >>

\* One step of the loop body, between two phases.
Goes(from, to) == phase = from /\ phase' = to

----------------------------------------------------------------------------
\* Mutant: one iteration too many.
OneMore == i <= Iterations

More == i < Iterations

\* The draws of an iteration.
DrawId == Goes("id", "size") /\ More /\ get_next_order_id /\ UNCHANGED <<vars, i, returned, orders>>
DrawSize == Goes("size", "price") /\ generate_random_size /\ UNCHANGED <<vars, i, returned, orders>>
DrawPrice == Goes("price", "add") /\ generate_random_price /\ UNCHANGED <<vars, i, returned, orders>>

\* The call of addOrder() with what was drawn, a random side and type.
CallAddOrder ==
    /\ Goes("add", "adding")
    /\ \/ AddOrderFails /\ returned' = NULL
       \/ /\ \E side \in Sides, type \in Types :
                AddOrder(current_id - 1, size, last_price, side, type)
          /\ returned' = next_free_index
    /\ UNCHANGED <<genVars, i, orders>>

\* addOrder() at work.
InAddOrder ==
    /\ phase = "adding"
    /\ Step
    /\ UNCHANGED mainVars

\* Mutant: does not look.
LooksOpenAlways(o) == TRUE

\* order->size > 0, which main() asks of live orders and of freed ones.
LooksOpen(o) == shares[o] > 0

\* addOrder() has returned: the order is tracked if something of it rests.
Track ==
    /\ Goes("adding", "cancel") /\ pc = "idle"
    /\ orders' = IF returned # NULL /\ LooksOpen(returned)
                 THEN Append(orders, returned) ELSE orders
    /\ UNCHANGED <<vars, genVars, i, returned>>

\* Nine times out of ten, or when nothing is tracked, nothing is cancelled.
NoCancel == Goes("cancel", "clean") /\ UNCHANGED <<vars, genVars, i, returned, orders>>

\* A tracked order is drawn, cancelled if it seems to have shares, and dropped.
CancelTracked(k) ==
    /\ Goes("cancel", "clean")
    /\ IF LooksOpen(orders[k]) THEN CancelOrder(orders[k]) ELSE UNCHANGED vars
    /\ orders' = Without(orders, k)
    /\ UNCHANGED <<genVars, i, returned>>

\* The entries of the vector that std::remove_if() keeps.
Kept == {k \in DOMAIN orders : LooksOpen(orders[k])}

\* Drops the orders whose size reads zero, and most of them are freed by now; the
\* others move up in their order.  The locals of the iteration go out of scope.
CleanUp ==
    /\ Goes("clean", "id")
    /\ \E n \in 0 .. Len(orders) : \E from \in [1 .. n -> Kept] :
          /\ \A j, k \in 1 .. n : j < k => from[j] < from[k]
          /\ Kept = {from[j] : j \in 1 .. n}
          /\ orders' = [j \in 1 .. n |-> orders[from[j]]]
    /\ i' = i + 1
    /\ size' = 0
    /\ returned' = NULL
    /\ UNCHANGED <<vars, current_id, last_price>>

Finish == Goes("id", "done") /\ ~More /\ UNCHANGED <<vars, genVars, i, returned, orders>>

Terminated == phase = "done" /\ UNCHANGED allVars

Main ==
    \/ DrawId \/ DrawSize \/ DrawPrice
    \/ CallAddOrder \/ InAddOrder \/ Track
    \/ NoCancel \/ \E k \in DOMAIN orders : CancelTracked(k)
    \/ CleanUp \/ Finish

MainNext == Main \/ Terminated

\* One thread, which is never blocked.
MainSpec == MainInit /\ [][MainNext]_allVars /\ WF_allVars(Main)

----------------------------------------------------------------------------
MainTypeOK ==
    /\ TypeOK
    /\ GenTypeOK
    /\ phase \in {"id", "size", "price", "add", "adding", "cancel", "clean", "done"}
    /\ i \in 0 .. Iterations
    /\ returned \in Pool!Slots \cup {NULL}
    /\ \A k \in DOMAIN orders : orders[k] \in Pool!Slots

(***************************************************************************)
(* At the top of the loop the vector holds every order on the book, once,  *)
(* and nothing else: no pointer to a freed order survives an iteration, so *)
(* none can come to mean the next order that gets the slot                 *)
(* (entrypoint.cpp:38-55).                                                 *)
(***************************************************************************)
TrackedAreResting ==
    phase = "id" =>
        /\ {orders[k] : k \in DOMAIN orders} = OnBook
        /\ \A k, l \in DOMAIN orders : orders[k] = orders[l] => k = l

(***************************************************************************)
(* main() cancels only orders that are on the book at that moment, however *)
(* many of those it tracks were filled and freed by the addOrder() before  *)
(* (entrypoint.cpp:44-51).                                                 *)
(***************************************************************************)
CancelsOnlyResting ==
    [][\A k \in DOMAIN orders :
          CancelTracked(k) /\ vars' # vars => orders[k] \in OnBook]_allVars

(***************************************************************************)
(* A run of at most pool_size orders never has one refused, although every *)
(* order that is filled on arrival keeps its slot for good                 *)
(* (entrypoint.cpp:18, 29, 38; order_book.cpp:20, 41-43).                  *)
(***************************************************************************)
PoolSuffices == phase = "id" /\ i < PoolSize => ~Pool!Exhausted

(***************************************************************************)
(* The ids tell the orders of main() apart and tell their age: no two live *)
(* orders share one, though the pool writes links over the ids of those it *)
(* frees, and along every level they ascend, so that the order a taker     *)
(* meets first is the oldest (entrypoint.cpp:30, 38; order_book.cpp:40;    *)
(* random_order_generator.hpp:15-18; mem_pool.hpp:37-40).                  *)
(***************************************************************************)
QueuedByAge ==
    /\ \A o \in Pool!InUse : word[o] < current_id
    /\ \A o1, o2 \in Pool!InUse : word[o1] = word[o2] => o1 = o2
    /\ \A s \in Sides : \A p \in DOMAIN levels[s] :
          LET w == Walk(levels[s][p], node)
          IN  \A k, l \in DOMAIN w : k < l => word[w[k]] < word[w[l]]

(***************************************************************************)
(* main() finishes its loop (entrypoint.cpp:29).                           *)
(***************************************************************************)
MainTerminates == <>(phase = "done")
=============================================================================
