---------------------------- MODULE DepthReport ----------------------------
(***************************************************************************)
(* OrderBook::toString() (src/project/order_book.cpp:119-161): one row for *)
(* every price of either side, with the shares that rest there, and the    *)
(* mid price.  It reads the book and changes nothing, so it is a set of    *)
(* operators over the book's state.  The widths and the decimal points of  *)
(* the text are left out; the sums are those of a uint32_t.                *)
(***************************************************************************)
EXTENDS OrderBook, FiniteSetsExt

CONSTANT SizeRange   \* 2^32, the values of a uint32_t

ASSUME SizeRangeAssumption == SizeRange \in Nat /\ MaxSize < SizeRange

\* The orders met on the way from head() along next; NULL behind the last.
Visited(q) ==
    LET order[k \in 1 .. PoolSize + 1] ==
            IF k = 1 THEN q.head
            ELSE IF order[k - 1] = NULL THEN NULL ELSE node[order[k - 1]].next
    IN  order

\* Mutant: stops at the last order instead of behind it.
CountedButLast(order) == {k \in 1 .. PoolSize : order[k + 1] # NULL}

\* The orders for which the loop of a row runs.
Counted(order) == {k \in 1 .. PoolSize : order[k] # NULL}

\* total_size of the level at p, a uint32_t, which both halves of a row compute.
total_size(s, p) ==
    LET order == Visited(levels[s][p])
    IN  SumFunctionOnSet([k \in Counted(order) |-> shares[order[k]]], Counted(order))
            % SizeRange

\* The rows of the report: what it shows for a side at each of its prices.
Rows == DOMAIN levels["bid"] \cup DOMAIN levels["ask"]
Count(s, p) == IF HasLevel(s, p) THEN total_size(s, p) ELSE 0

\* mid_price, doubled: the code divides by 200.0 for cents and the mean.
MidPrice ==
    IF DOMAIN levels["bid"] = {} \/ DOMAIN levels["ask"] = {} THEN 0
    ELSE Max(DOMAIN levels["bid"]) + Min(DOMAIN levels["ask"])

----------------------------------------------------------------------------
\* The live orders at a side and price that have shares left, on the book or
\* not: what the callers of addOrder() believe is there.
Open(s, p) ==
    {o \in Pool!InUse : shares[o] > 0 /\ terms[o] = [price |-> p, side |-> s]}

(***************************************************************************)
(* Between calls, the report accounts for every share that its callers     *)
(* have open, found in the pool and not through the levels: each price has *)
(* a row, each row the total of its side up to the width of total_size,    *)
(* the walk along the links ends, and the mid price lies between the sides *)
(* (order_book.cpp:120-122, 132-134, 141-143, 151-156).                    *)
(***************************************************************************)
ReportExact ==
    pc = "idle" =>
        /\ Rows = {p \in Prices : \E s \in Sides : Open(s, p) # {}}
        /\ \A s \in Sides, p \in Rows :
              Count(s, p) = SumFunctionOnSet(shares, Open(s, p)) % SizeRange
        /\ \A s \in Sides : \A p \in DOMAIN levels[s] :
              Visited(levels[s][p])[PoolSize + 1] = NULL
        /\ MidPrice # 0 =>
              \A b \in DOMAIN levels["bid"], a \in DOMAIN levels["ask"] :
                  2 * b < MidPrice /\ MidPrice < 2 * a
=============================================================================
