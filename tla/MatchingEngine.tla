--------------------------- MODULE MatchingEngine ---------------------------
(***************************************************************************)
(* What an order book promises: the flow chart of the repository's README  *)
(* (README_order_book_flow_chart.png) over a book that is nothing but a    *)
(* queue of resting orders for every side and price.  An incoming order    *)
(* takes the best opposite order by price, then time, for as long as it    *)
(* crosses the book and has shares left; what is left of it rests.         *)
(***************************************************************************)
EXTENDS Naturals, Sequences

CONSTANTS Refs,     \* handles of orders
          Prices,   \* a set of numbers
          Sizes     \* the sizes an order may come in with

VARIABLES book,     \* book[side][price]: resting [ref, size], oldest first
          incoming  \* the order being processed, as a set of at most one

vars == <<book, incoming>>

Sides == {"bid", "ask"}
Types == {"Limit", "Market"}

Opposite(s) == IF s = "bid" THEN "ask" ELSE "bid"

Init ==
    /\ book = [s \in Sides |-> [p \in Prices |-> << >>]]
    /\ incoming = {}

RestsAt(r, s, p) == \E i \in DOMAIN book[s][p] : book[s][p][i].ref = r

\* An order comes in.  rests is FALSE for one that only takes what it finds.
Submit(o) ==
    /\ incoming = {}
    /\ \A s \in Sides, p \in Prices : ~RestsAt(o.ref, s, p)
    /\ incoming' = {o}
    /\ UNCHANGED book

Offered(s) == {p \in Prices : book[s][p] # << >>}

\* p is the best price on the opposite side and the incoming order crosses it.
Crosses(o, p) ==
    /\ p \in Offered(Opposite(o.side))
    /\ \A x \in Offered(Opposite(o.side)) : IF o.side = "bid" THEN p <= x ELSE p >= x
    /\ \/ o.type = "Market"
       \/ IF o.side = "bid" THEN p <= o.price ELSE p >= o.price

\* The oldest order at the best price is filled, or fills the incoming one.
Trade(o, p) ==
    LET s == Opposite(o.side)
        best == Head(book[s][p])
    IN  /\ o.left > 0
        /\ Crosses(o, p)
        /\ IF o.left >= best.size
           THEN /\ book' = [book EXCEPT ![s][p] = Tail(@)]
                /\ incoming' = {[o EXCEPT !.left = @ - best.size]}
           ELSE /\ book' = [book EXCEPT ![s][p][1].size = @ - o.left]
                /\ incoming' = {[o EXCEPT !.left = 0]}

\* Nothing is left, or nothing is left to trade with.
Finish(o) ==
    /\ o.left = 0 \/ \A p \in Prices : ~Crosses(o, p)
    /\ IF o.rests /\ o.left > 0
       THEN book' = [book EXCEPT ![o.side][o.price] =
                        Append(@, [ref |-> o.ref, size |-> o.left])]
       ELSE UNCHANGED book
    /\ incoming' = {}

\* s without its i-th entry.
Without(s, i) == [j \in 1 .. Len(s) - 1 |-> IF j < i THEN s[j] ELSE s[j + 1]]

\* A resting order is withdrawn; all others keep their places.
Cancel(s, p, i) ==
    /\ incoming = {}
    /\ book' = [book EXCEPT ![s][p] = Without(@, i)]
    /\ UNCHANGED incoming

Incoming ==
    [ref : Refs, side : Sides, price : Prices, type : Types, left : Sizes, rests : BOOLEAN]

Next ==
    \/ \E o \in Incoming : Submit(o)
    \/ \E o \in incoming : Finish(o) \/ \E p \in Prices : Trade(o, p)
    \/ \E s \in Sides, p \in Prices : \E i \in DOMAIN book[s][p] : Cancel(s, p, i)

Spec == Init /\ [][Next]_vars
=============================================================================
