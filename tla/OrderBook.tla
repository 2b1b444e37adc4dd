----------------------------- MODULE OrderBook -----------------------------
(***************************************************************************)
(* OrderBook (src/project/order_book.cpp, order_book.hpp, order.hpp): the  *)
(* limit order book of one symbol.  It owns a MemPool of orders and, for   *)
(* each side, a map from price to a PriceLevel, an IntrusiveQueue threaded *)
(* through the orders themselves.                                          *)
(*                                                                         *)
(* A call runs in small steps, so that what the book looks like between    *)
(* two of them is visible: pc says which loop the call is in, the locals   *)
(* of addOrder() and of the matchers are variables that are reset when the *)
(* call returns.  The caller's thread is the only one, so a new call       *)
(* starts only when pc is "idle".                                          *)
(*                                                                         *)
(* An order is split by what happens to its bytes when it is freed: its    *)
(* order_id is the word the pool overlays, its size is still read by a     *)
(* caller that kept the pointer, its price and side are read by nobody and *)
(* are cleared in the model.  client_id, symbol and the stored order_type  *)
(* are never read back by the book and are left out, as is the log.        *)
(***************************************************************************)
EXTENDS IntrusiveQueue

CONSTANTS PoolSize,       \* pool_size
          OrderIds,       \* order_id of incoming orders
          Prices,         \* price of incoming orders
          MaxPrice,       \* an upper bound of Prices
          Sizes,          \* size of incoming orders
          MaxSize,        \* an upper bound of Sizes
          CancelsFilled   \* do callers cancel orders that were filled?

ASSUME PoolSizeAssumption == PoolSize \in Nat \ {0}
ASSUME OrderIdsAssumption == OrderIds \subseteq Nat
ASSUME PricesAssumption == MaxPrice \in Nat /\ Prices \subseteq 0 .. MaxPrice
ASSUME SizesAssumption == MaxSize \in Nat /\ Sizes \subseteq 0 .. MaxSize
ASSUME NullAssumption == NULL \notin Nat
ASSUME CancelsFilledAssumption == CancelsFilled \in BOOLEAN

VARIABLES is_free, word, shares, next_free_index,  \* order_pool_, see MemPool;
                           \* shares is the size of every order
          terms,           \* its price and side
          node,            \* list_node of every order
          levels,          \* levels["bid"] is bid_levels_, levels["ask"] ask_levels_
          pc,              \* where the current call is
          taker,           \* the arguments of the call, and the order it allocated
          total_matched,   \* total_matched of the matcher
          it               \* price of the level the matcher's iterator is at

poolVars == <<is_free, word, shares, next_free_index>>
callVars == <<pc, taker, total_matched, it>>
vars == <<poolVars, terms, node, levels, callVars>>

Sides == {"bid", "ask"}
Types == {"Limit", "Market"}
Opposite(s) == IF s = "bid" THEN "ask" ELSE "bid"

NoTerms == [price |-> 0, side |-> "ask"]

Pool == INSTANCE MemPool WITH
    NumElems <- PoolSize, Words <- OrderIds, Objects <- 0 .. MaxSize,
    ZeroObject <- 0, object <- shares

NoTaker == [order |-> NULL, size |-> 0, price |-> 0, side |-> "bid", type |-> "Limit"]

Init ==
    /\ Pool!Init
    /\ terms = [o \in Pool!Slots |-> NoTerms]
    /\ node = [o \in Pool!Slots |-> NullNode]
    /\ levels = [s \in Sides |-> [p \in {} |-> EmptyQueue]]
    /\ pc = "idle"
    /\ taker = NoTaker
    /\ total_matched = 0
    /\ it = 0

----------------------------------------------------------------------------
(* The two maps.                                                           *)

HasLevel(s, p) == p \in DOMAIN levels[s]

SetLevel(s, p, q) ==
    [levels EXCEPT ![s] = [x \in DOMAIN levels[s] \cup {p} |->
                              IF x = p THEN q ELSE levels[s][x]]]

\* Mutant: leaves the level in the map.
LevelStays(s, p) == levels

EraseLevel(s, p) ==
    [levels EXCEPT ![s] = [x \in DOMAIN levels[s] \ {p} |-> levels[s][x]]]

\* Mutant: begin() and rbegin() swapped.
BestFirstSwapped(s, p, x) == IF s = "ask" THEN p >= x ELSE p <= x

\* p is met before x: begin() of the asks, rbegin() of the bids.
BestFirst(s, p, x) == IF s = "ask" THEN p <= x ELSE p >= x

IsBest(s, p) ==
    /\ HasLevel(s, p)
    /\ \A x \in DOMAIN levels[s] : BestFirst(s, p, x)

\* deallocate(order) of the pool.
Free(o) ==
    /\ Pool!Deallocate(o)
    /\ terms' = [terms EXCEPT ![o] = NoTerms]

\* Order::decreaseSize(amount): what is removed of a size, and what is left.
decreaseSize(size, amount) ==
    IF amount >= size THEN [removed |-> size, left |-> 0]
    ELSE [removed |-> amount, left |-> size - amount]

----------------------------------------------------------------------------
(* addOrder(), matchBidOrder(), matchAskOrder()                            *)

\* addOrder() without a free slot returns nullptr, whatever it could match.
AddOrderFails ==
    /\ pc = "idle"
    /\ Pool!Exhausted
    /\ UNCHANGED vars

\* addOrder() constructs the order, links empty, before it looks at the book.
AddOrder(id, size, price, side, type) ==
    /\ pc = "idle"
    /\ Pool!Allocate(id, size)
    /\ terms' = [terms EXCEPT ![next_free_index] = [price |-> price, side |-> side]]
    /\ node' = [node EXCEPT ![next_free_index] = NullNode]
    /\ taker' = [order |-> next_free_index, size |-> size, price |-> price,
                 side |-> side, type |-> type]
    /\ pc' = "match"
    /\ UNCHANGED <<levels, total_matched, it>>

\* A direct call of matchBidOrder() or matchAskOrder(), both public: an order
\* that takes what it finds and never rests.  Callers pass total_matched = 0.
MatchOrder(size, price, side, type) ==
    /\ pc = "idle"
    /\ taker' = [order |-> NULL, size |-> size, price |-> price,
                 side |-> side, type |-> type]
    /\ pc' = "match"
    /\ UNCHANGED <<poolVars, terms, node, levels, total_matched, it>>

\* Mutant: a limit order does not trade at its own price.
CrossesStrictly(p) ==
    \/ taker.type = "Market"
    \/ IF taker.side = "bid" THEN p < taker.price ELSE p > taker.price

\* The break of the matchers' loop, negated: p is good enough for the taker.
Crosses(p) ==
    \/ taker.type = "Market"
    \/ IF taker.side = "bid" THEN p <= taker.price ELSE p >= taker.price

EnterLevel ==
    /\ pc = "match"
    /\ total_matched < taker.size
    /\ \E p \in DOMAIN levels[Opposite(taker.side)] :
          /\ IsBest(Opposite(taker.side), p)
          /\ Crosses(p)
          /\ it' = p
    /\ pc' = "level"
    /\ UNCHANGED <<poolVars, terms, node, levels, taker, total_matched>>

\* The size is used up, the side is empty, or its best price does not cross.
StopMatching ==
    /\ pc = "match"
    /\ \/ total_matched >= taker.size
       \/ \A p \in DOMAIN levels[Opposite(taker.side)] :
             IsBest(Opposite(taker.side), p) => ~Crosses(p)
    /\ pc' = "return"
    /\ UNCHANGED <<poolVars, terms, node, levels, taker, total_matched, it>>

Level == levels[Opposite(taker.side)][it]

\* Mutant: asks each order for the whole size, not for what is missing of it.
WholeSize == taker.size

Missing == taker.size - total_matched

\* matchAtLevel(): the oldest order of the level gives what it has.  A level
\* with a size_ but no head_ would be a null dereference: no step.
MatchHead ==
    /\ pc = "level"
    /\ ~empty(Level) /\ total_matched < taker.size
    /\ peek(Level) # NULL
    /\ LET o == peek(Level)
           d == decreaseSize(shares[o], Missing)
       IN  /\ shares' = [shares EXCEPT ![o] = d.left]
           /\ total_matched' = total_matched + d.removed
           /\ pc' = IF d.left = 0 THEN "close" ELSE "level"
    /\ UNCHANGED <<is_free, word, next_free_index, terms, node, levels, taker, it>>

\* Mutant: the order stays linked.
HeadStays == [q |-> Level, node |-> node]

HeadRemoved == remove(Level, node, peek(Level))

\* ... and is unlinked and freed when nothing of it is left.
CloseHead ==
    /\ pc = "close"
    /\ levels' = SetLevel(Opposite(taker.side), it, HeadRemoved.q)
    /\ node' = HeadRemoved.node
    /\ Free(peek(Level))
    /\ pc' = "level"
    /\ UNCHANGED <<taker, total_matched, it>>

\* matchAtLevel() returned with the level empty: it is erased, the loop goes on.
LevelTaken ==
    /\ pc = "level"
    /\ empty(Level)
    /\ levels' = EraseLevel(Opposite(taker.side), it)
    /\ pc' = "match"
    /\ it' = 0
    /\ UNCHANGED <<poolVars, terms, node, taker, total_matched>>

\* matchAtLevel() returned with the size used up: the loop breaks.
LevelLeft ==
    /\ pc = "level"
    /\ ~empty(Level) /\ total_matched >= taker.size
    /\ pc' = "return"
    /\ UNCHANGED <<poolVars, terms, node, levels, taker, total_matched, it>>

Return ==
    /\ pc' = "idle"
    /\ taker' = NoTaker
    /\ total_matched' = 0
    /\ it' = 0

\* What addOrder() does with its order once the matcher has returned.
DecreaseTaker ==
    shares' = [shares EXCEPT ![taker.order] = decreaseSize(@, total_matched).left]

\* Mutant: starts a new level where one may be.
NewLevel(s, p) == EmptyQueue

LevelAt(s, p) == IF HasLevel(s, p) THEN levels[s][p] ELSE EmptyQueue

\* The remainder joins the level of its price, which levels[price] creates if
\* there is none.
RestRemainder ==
    /\ pc = "return" /\ taker.order # NULL
    /\ total_matched < taker.size
    /\ DecreaseTaker
    /\ LET r == append(LevelAt(taker.side, taker.price), node, taker.order)
       IN  /\ levels' = SetLevel(taker.side, taker.price, r.q)
           /\ node' = r.node
    /\ Return
    /\ UNCHANGED <<is_free, word, next_free_index, terms>>

\* A fully matched order is returned to the caller; its slot stays in use.
FullyMatched ==
    /\ pc = "return" /\ taker.order # NULL
    /\ total_matched >= taker.size
    /\ DecreaseTaker
    /\ Return
    /\ UNCHANGED <<is_free, word, next_free_index, terms, node, levels>>

\* matchBidOrder() or matchAskOrder() returns to its caller.
ReturnMatched ==
    /\ pc = "return" /\ taker.order = NULL
    /\ Return
    /\ UNCHANGED <<poolVars, terms, node, levels>>

----------------------------------------------------------------------------
(* cancelOrder()                                                           *)

\* A caller may cancel any order it holds that is live; one that was filled
\* on arrival is live too.  Careful callers only do so where it is harmless.
MayCancel(o) ==
    \/ shares[o] > 0
    \/ ~HasLevel(terms[o].side, terms[o].price)
    \/ CancelsFilled

\* cancelOrder(order): unlinks the order if its price has a level, drops the
\* level with its last order, and frees the order.  On nullptr it does nothing.
CancelOrder(o) ==
    /\ pc = "idle"
    /\ MayCancel(o)
    /\ LET s == terms[o].side
           p == terms[o].price
           r == remove(levels[s][p], node, o)
       IN  IF HasLevel(s, p)
           THEN /\ levels' = IF empty(r.q) THEN EraseLevel(s, p) ELSE SetLevel(s, p, r.q)
                /\ node' = r.node
           ELSE UNCHANGED <<levels, node>>
    /\ Free(o)
    /\ UNCHANGED callVars

----------------------------------------------------------------------------
Call ==
    \/ AddOrderFails
    \/ \E size \in Sizes, price \in Prices, side \in Sides, type \in Types :
          \/ \E id \in OrderIds : AddOrder(id, size, price, side, type)
          \/ MatchOrder(size, price, side, type)
    \/ \E o \in Pool!InUse : CancelOrder(o)

\* The steps a call takes after it began.
Step ==
    \/ EnterLevel \/ StopMatching \/ MatchHead \/ CloseHead
    \/ LevelTaken \/ LevelLeft
    \/ RestRemainder \/ FullyMatched \/ ReturnMatched

Next == Call \/ Step

\* The thread that is inside a call goes on; nothing makes it begin one.
Spec == Init /\ [][Next]_vars /\ WF_vars(Step)

----------------------------------------------------------------------------
Links == NodesOf(Pool!Slots)
PriceLevels == QueuesOf(Pool!Slots)

Takers == [order : Pool!Slots \cup {NULL}, size : 0 .. MaxSize,
           price : Prices \cup {0}, side : Sides, type : Types]

BookTypeOK ==
    /\ terms \in [Pool!Slots -> [price : Prices \cup {0}, side : Sides]]
    /\ node \in [Pool!Slots -> Links]
    /\ levels = [s \in Sides |-> levels[s]]
    /\ \A s \in Sides :
          /\ DOMAIN levels[s] \subseteq Prices
          /\ levels[s] \in [DOMAIN levels[s] -> PriceLevels]
    /\ pc \in {"idle", "match", "level", "close", "return"}
    /\ taker \in Takers
    /\ total_matched \in 0 .. taker.size
    /\ it \in Prices \cup {0}
    /\ pc # "idle" => taker.price \in Prices
    /\ pc \in {"level", "close"} => HasLevel(Opposite(taker.side), it)

TypeOK == Pool!TypeOK /\ BookTypeOK

(***************************************************************************)
(* The book is never crossed: every bid is below every ask, also in the    *)
(* middle of a call and after the remainder of a market order came to rest *)
(* at whatever price it carried (order_book.cpp:32-43, 64-98).             *)
(***************************************************************************)
NotCrossed ==
    \A b \in DOMAIN levels["bid"], a \in DOMAIN levels["ask"] : b < a

\* The level at which matchAtLevel() works, and the order it is closing.
Working(s, p) == pc = "level" /\ s = Opposite(taker.side) /\ p = it
Closing(o) == pc = "close" /\ o = peek(Level)

(***************************************************************************)
(* Every level is a sound list of live orders of that side and price with  *)
(* shares left, and no level stays in its map empty; the one matchAtLevel()*)
(* works at may be empty, and the order it closes has no shares            *)
(* (order_book.cpp:40, 54-58, 73-77, 91-95, 109-115).                      *)
(***************************************************************************)
BookIntact ==
    \A s \in Sides : \A p \in DOMAIN levels[s] :
        LET q == levels[s][p]
            w == Walk(q, node)
        IN  /\ empty(q) => Working(s, p)
            /\ Represents(q, node, w)
            /\ \A i \in DOMAIN w :
                  /\ w[i] \in Pool!InUse \ {taker.order}
                  /\ terms[w[i]].side = s /\ terms[w[i]].price = p
                  /\ shares[w[i]] > 0 \/ Closing(w[i])

(***************************************************************************)
(* Between calls, every live order that has shares left rests in the level *)
(* of its side and price, where a taker will meet it: whatever is live and *)
(* not on the book was filled (order_book.cpp:36-43, 48-62, 100-117).      *)
(***************************************************************************)
NoOrderLost ==
    pc = "idle" =>
        \A o \in Pool!InUse :
            LET s == terms[o].side
                p == terms[o].price
            IN  shares[o] > 0 =>
                    /\ HasLevel(s, p)
                    /\ \E i \in 1 .. levels[s][p].size : Walk(levels[s][p], node)[i] = o

(***************************************************************************)
(* The book is a well-behaved owner of its pool: in any sequence of calls  *)
(* it frees and writes only orders that are live, and frees each once      *)
(* (order_book.cpp:34, 61, 104, 114).                                      *)
(***************************************************************************)
PoolDiscipline == Pool!Spec

\* The orders at a price, oldest first, and how many of them are as good as
\* gone: the one matchAtLevel() has emptied and is about to unlink.
Line(s, p) == IF HasLevel(s, p) THEN Walk(levels[s][p], node) ELSE << >>
Gone(s, p) == IF pc = "close" /\ s = Opposite(taker.side) /\ p = it THEN 1 ELSE 0

\* The queue of orders at a price, as MatchingEngine sees it.
Queue(s, p) ==
    [i \in 1 .. Len(Line(s, p)) - Gone(s, p) |->
        LET o == Line(s, p)[i + Gone(s, p)] IN [ref |-> o, size |-> shares[o]]]

Queues == [s \in Sides |-> [p \in Prices |-> Queue(s, p)]]

\* The order of the current call, as MatchingEngine sees it.
CallOrder == [ref |-> taker.order, side |-> taker.side, price |-> taker.price,
              type |-> taker.type, left |-> taker.size - total_matched,
              rests |-> taker.order # NULL]
Processed == IF pc = "idle" THEN {} ELSE {CallOrder}

Engine == INSTANCE MatchingEngine WITH
    Refs <- Pool!Slots \cup {NULL}, book <- Queues, incoming <- Processed

(***************************************************************************)
(* The book implements the matching algorithm of the README's flow chart:  *)
(* trades go to the best price and, within it, to the oldest order; what a *)
(* taker gets is what the book gives; only the remainder rests; a cancel   *)
(* takes out its order and nothing else (order_book.cpp:15-117).           *)
(***************************************************************************)
ImplementsMatchingEngine == Engine!Spec

(***************************************************************************)
(* Every call returns: neither matching loop can run for ever or get stuck *)
(* (order_book.cpp:65-78, 83-96, 101-116).                                 *)
(***************************************************************************)
CallReturns == pc # "idle" ~> pc = "idle"

\* The orders that a reader of the levels meets.
OnBook ==
    {o \in Pool!Slots : \E s \in Sides : \E p \in DOMAIN levels[s] :
        \E i \in 1 .. levels[s][p].size : Walk(levels[s][p], node)[i] = o}

(***************************************************************************)
(* "Removes an order from the order book and deallocates it from the       *)
(* memory pool" (order_book.hpp:22-25): a cancel leaves every other order  *)
(* on the book.  Holds as long as the order cancelled rests on the book.   *)
(***************************************************************************)
CancelRemovesOnlyItsOrder ==
    [][\A o \in Pool!InUse : CancelOrder(o) => OnBook' = OnBook \ {o}]_vars
=============================================================================
