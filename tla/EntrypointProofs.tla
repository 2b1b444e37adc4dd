-------------------------- MODULE EntrypointProofs --------------------------
(***************************************************************************)
(* main() is a careful client of the book, for every pool size, number of  *)
(* iterations and range of draws, and without any assumption on what other *)
(* callers may cancel.                                                     *)
(*                                                                         *)
(* The argument is a loop invariant in three parts.  Drawing ties the      *)
(* counters to the phase of the loop.  Tracking ties the vector to the     *)
(* book: what looks open in it rests on the book, what rests is in it or   *)
(* is the order just added, and no entry occurs twice.  Aged ties the ids  *)
(* to the lines of orders: ids are given out in ascending order, and the   *)
(* order that is coming in has the youngest.                               *)
(***************************************************************************)
EXTENDS Entrypoint, OrderBookProofs, FiniteSetTheorems

----------------------------------------------------------------------------
(***************************************************************************)
(* The walk of the generator's prices, for every tick, floor, largest      *)
(* offset and width of the unsigned arithmetic.  A price is drawn near the *)
(* last one, rounded to a tick and raised to the floor; each of the three  *)
(* is bounded on its own.                                                  *)
(***************************************************************************)
\* Rounding to a tick moves a price by less than one.
LEMMA RoundedFacts ==
    ASSUME NEW price \in Nat, price + Tick < Modulus
    PROVE  /\ Rounded(price) \in Nat
           /\ Rounded(price) <= price + Tick
           /\ Rounded(price) >= price - Tick
  <1>1. Tick \in Nat \ {0} /\ Modulus \in Nat
    BY ParametersAssumption
  <1>2. PICK h \in Nat : h = Tick \div 2 /\ h <= Tick
    BY <1>1
  <1>3. PICK a \in Nat : a = price + h
    BY <1>2
  <1>4. Plus(price, h) = a
    BY <1>1, <1>2, <1>3 DEF Plus
  <1>5. (a \div Tick) * Tick \in Nat /\ (a \div Tick) * Tick <= a /\ (a \div Tick) * Tick > a - Tick
    BY <1>1, <1>3
  <1>6. Rounded(price) = (a \div Tick) * Tick
    BY <1>2, <1>4 DEF Rounded
  <1> QED
    BY <1>1, <1>2, <1>3, <1>5, <1>6

\* Where a drawn price settles: near it, and not below the minimum.
LEMMA SettleFacts ==
    ASSUME NEW price \in Nat, price + Tick < Modulus, Settle(price)
    PROVE  /\ last_price' \in Nat /\ last_price' >= MinPrice
           /\ last_price' >= price - Tick
           /\ last_price' <= price + Tick \/ last_price' = MinPrice
  <1>1. Tick \in Nat \ {0} /\ MinPrice \in Nat
    BY ParametersAssumption
  <1>2. PICK p \in {price, Rounded(price)} : last_price' = Floor(p)
    BY DEF Settle
  <1>3. p \in Nat /\ p <= price + Tick /\ p >= price - Tick
    BY <1>1, <1>2, RoundedFacts
  <1> QED
    BY <1>1, <1>2, <1>3 DEF Floor

\* A clustered price is near the last one.
LEMMA StayCloseFacts ==
    ASSUME GenTypeOK, StayClose
    PROVE  /\ last_price' \in MinPrice .. MaxLast + MaxOffset + Tick
           /\ last_price' \in last_price - MaxOffset - Tick .. last_price + MaxOffset + Tick
  <1>1. /\ Tick \in Nat \ {0} /\ MinPrice \in Nat \ {0} /\ MaxOffset \in Nat /\ Modulus \in Nat
        /\ MaxLast \in Nat /\ MaxLast + MaxOffset + Tick < Modulus /\ MinPrice <= MaxLast
    BY ParametersAssumption
  <1>2. last_price \in Nat /\ last_price >= MinPrice /\ last_price <= MaxLast
    BY <1>1 DEF GenTypeOK, StayClose
  <1>3. PICK offset \in -MaxOffset .. MaxOffset : Settle(Clustered(offset))
    BY DEF StayClose
  <1>4. PICK price : price = Clustered(offset)
    OBVIOUS
  <1>5. /\ price \in Nat /\ price <= MaxLast + MaxOffset
        /\ price >= last_price - MaxOffset /\ price <= last_price + MaxOffset
    <2>1. CASE offset < 0 /\ -offset >= last_price
      BY <1>1, <1>2, <1>3, <1>4, <2>1 DEF Clustered
    <2>2. CASE ~(offset < 0 /\ -offset >= last_price)
      <3>1. last_price + offset \in Nat /\ last_price + offset < Modulus
        BY <1>1, <1>2, <1>3, <2>2
      <3>2. price = last_price + offset
        BY <1>1, <1>4, <2>2, <3>1 DEF Clustered, Plus
      <3> QED
        BY <1>1, <1>2, <1>3, <3>1, <3>2
    <2> QED
      BY <2>1, <2>2
  <1>6. /\ last_price' \in Nat /\ last_price' >= MinPrice
        /\ last_price' >= price - Tick
        /\ last_price' <= price + Tick \/ last_price' = MinPrice
    <2>1. price + Tick < Modulus /\ Settle(price)
      BY <1>1, <1>3, <1>4, <1>5
    <2> QED
      BY <1>5, <2>1, SettleFacts
  <1> QED
    BY <1>1, <1>2, <1>5, <1>6

\* Any drawn price is in the range the generator was given.
LEMMA PriceFacts ==
    ASSUME GenTypeOK, generate_random_price
    PROVE  last_price' \in MinPrice .. MaxLast + MaxOffset + Tick
  <1>1. /\ Tick \in Nat \ {0} /\ MinPrice \in Nat \ {0} /\ MaxOffset \in Nat /\ Modulus \in Nat
        /\ MaxLast \in Nat /\ MaxLast + MaxOffset + Tick < Modulus /\ MinPrice <= MaxLast
        /\ WidePrices \subseteq MinPrice .. MaxLast
    BY ParametersAssumption
  <1>2. CASE StayClose
    BY <1>2, StayCloseFacts
  <1>3. CASE StartAfresh
    <2>1. PICK price \in WidePrices : Settle(price)
      BY <1>3 DEF StartAfresh
    <2>2. price \in Nat /\ price <= MaxLast /\ price + Tick < Modulus
      BY <1>1, <2>1
    <2>3. /\ last_price' \in Nat /\ last_price' >= MinPrice
          /\ last_price' <= price + Tick \/ last_price' = MinPrice
      BY <2>1, <2>2, SettleFacts
    <2> QED
      BY <1>1, <2>2, <2>3
  <1> QED
    BY <1>2, <1>3 DEF generate_random_price

\* The walk stays in the range ...
LEMMA NextGen == GenTypeOK /\ [GenNext]_genVars => GenTypeOK'
  <1> SUFFICES ASSUME GenTypeOK, [GenNext]_genVars PROVE GenTypeOK'
    OBVIOUS
  <1>1. /\ Tick \in Nat /\ MinPrice \in Nat /\ MaxOffset \in Nat /\ Modulus \in Nat
        /\ MaxLast \in Nat /\ MaxLast + MaxOffset + Tick < Modulus /\ MaxId \in Nat
        /\ Lots \subseteq Nat /\ Fractions \subseteq Nat
    BY ParametersAssumption
  <1>2. CASE get_next_order_id
    BY <1>1, <1>2 DEF get_next_order_id, GenTypeOK
  <1>3. CASE generate_random_size
    <2>1. Drawn \subseteq Nat
      BY <1>1 DEF Drawn
    <2> QED
      BY <1>3, <2>1 DEF generate_random_size, GenTypeOK
  <1>4. CASE generate_random_price
    <2>1. last_price' \in MinPrice .. Modulus - 1
      BY <1>1, <1>4, PriceFacts
    <2>2. UNCHANGED <<current_id, size>>
      BY <1>4 DEF generate_random_price, StayClose, StartAfresh, Settle
    <2> QED
      BY <2>1, <2>2 DEF GenTypeOK
  <1>5. CASE UNCHANGED genVars
    BY <1>5 DEF genVars, GenTypeOK
  <1> QED
    BY <1>2, <1>3, <1>4, <1>5 DEF GenNext

\* ... in which it starts.
LEMMA InitGen == GenInit => GenTypeOK
  BY ParametersAssumption DEF GenInit, GenTypeOK

(***************************************************************************)
(* However the draws fall, no order comes in below the minimum price, and  *)
(* no price leaves the range of a uint64_t, for every tick, floor and      *)
(* largest offset.                                                         *)
(***************************************************************************)
THEOREM GeneratorTypes == GenSpec => []GenTypeOK
  BY InitGen, NextGen, PTL DEF GenSpec

(***************************************************************************)
(* The walk takes short steps: the unsigned sums never wrap around, also   *)
(* when a negative offset exceeds the last price.                          *)
(***************************************************************************)
THEOREM WalkStaysClose == GenSpec => StaysClose
  <1>1. GenTypeOK /\ [GenNext]_genVars =>
           [StayClose => last_price' \in last_price - MaxOffset - Tick
                                              .. last_price + MaxOffset + Tick]_genVars
    BY StayCloseFacts
  <1> QED
    BY <1>1, InitGen, NextGen, PTL DEF GenSpec, StaysClose

----------------------------------------------------------------------------
\* The live orders, other than the one coming in, that are not used up.
Resting ==
    {o \in Pool!InUse : o # taker.order /\ (shares[o] > 0 \/ Closing(o))}

Tracked == {orders[k] : k \in 1 .. Len(orders)}

\* The last id that was given to an order: the one drawn last is not yet.
Issued == IF phase \in {"size", "price", "add"} THEN current_id - 2 ELSE current_id - 1

Drawing ==
    /\ phase \in {"id", "size", "price", "add", "adding", "cancel", "clean", "done"}
    /\ i \in 0 .. Iterations
    /\ phase \notin {"id", "done"} => i < Iterations
    /\ current_id = IF phase \in {"id", "done"} THEN i + 1 ELSE i + 2
    /\ last_price \in MinPrice .. MaxLast + MaxOffset + Tick
    /\ size \in Nat
    /\ phase \in {"price", "add"} => size \in Drawn
    /\ pc # "idle" => phase = "adding"

Tracking ==
    /\ orders \in Seq(Pool!Slots)
    /\ \A k, l \in 1 .. Len(orders) : orders[k] = orders[l] => k = l
    /\ \A o \in Tracked : LooksOpen(o) => o \in Resting
    /\ phase \notin {"adding", "cancel", "clean"} => Tracked \subseteq Resting
    /\ phase # "adding" => Resting \subseteq Tracked
    /\ phase = "adding" => Resting \subseteq Tracked \cup {returned}
    /\ phase = "adding" /\ returned # NULL => returned \in Pool!InUse \ Tracked
    /\ returned \in Pool!Slots \cup {NULL}
    /\ pc # "idle" => taker.order = returned /\ returned # NULL
    /\ pc = "close" => ~LooksOpen(peek(Level))

Aged ==
    /\ \A o \in Pool!InUse : word[o] \in 1 .. Issued
    /\ \A o1, o2 \in Pool!InUse : word[o1] = word[o2] => o1 = o2
    /\ pc # "idle" => word[taker.order] = Issued
    /\ \A s \in Sides, p \in Prices : \A k, l \in 1 .. Len(Line(s, p)) :
          k < l => word[Line(s, p)[k]] < word[Line(s, p)[l]]

EInv == BInv /\ Drawing /\ Tracking /\ Aged

----------------------------------------------------------------------------
(* What a call does to the orders on the book.                             *)

\* A reader of the levels meets the orders that rest.
LEMMA OnBookIsResting == BInv => OnBook = Resting
  <1> SUFFICES ASSUME BInv PROVE OnBook = Resting
    OBVIOUS
  <1>1. OnBook = {o \in Pool!Slots : \E s \in Sides, p \in Prices : o \in At(s, p)}
    BY OnBookIsLinked DEF OnBookIsAt
  <1>2. OnBook \subseteq Resting
    BY <1>1 DEF At, Resting
  <1>3. ASSUME NEW o \in Resting PROVE o \in OnBook
    <2>1. PICK s, p : s = terms[o].side /\ p = terms[o].price
      OBVIOUS
    <2>2. o \in Pool!Slots /\ s \in Sides /\ p \in Prices \cup {0}
      BY <2>1 DEF Resting, Pool!InUse, BInv, IInv, Shape, BookTypeOK
    <2>3. o \in At(s, p)
      BY <2>1 DEF Resting, At
    <2>4. HasLevel(s, p)
      BY <2>2, <2>3 DEF BInv, Linked, LevelOK
    <2>5. p \in Prices
      BY <2>2, <2>4 DEF HasLevel, BInv, IInv, Shape, BookTypeOK
    <2> QED
      BY <1>1, <2>2, <2>3, <2>5
  <1> QED
    BY <1>2, <1>3

\* After a step inside a call fewer shares rest, except for those of the order
\* that is coming in, and no live order has lost its id.
Shrinks ==
    /\ \A o \in (Pool!InUse)' : o \in Pool!InUse /\ word'[o] = word[o]
    /\ \A o \in Pool!Slots : o # taker.order => shares'[o] <= shares[o]
    /\ Resting' \subseteq Resting \cup {taker.order}
    /\ \A o \in Resting : o \notin Resting' => shares'[o] = 0
    /\ taker.order # NULL => taker.order \in (Pool!InUse)'
    /\ pc' = "idle" \/ taker' = taker
    /\ pc' = "close" => shares'[peek(Level')] = 0

\* What the invariant says about shares and ids.
LEMMA ShareTypes ==
    ASSUME BInv
    PROVE  /\ shares \in [Pool!Slots -> 0 .. MaxSize] /\ word \in [Pool!Slots -> Nat]
           /\ \A o \in Pool!Slots : shares[o] \in Nat
           /\ total_matched \in Nat /\ taker.size \in Nat
           /\ taker.order # NULL => taker.order \in Pool!InUse
  <1>1. shares \in [Pool!Slots -> 0 .. MaxSize] /\ word \in [Pool!Slots -> Nat]
    BY DEF BInv, IInv, Shape
  <1>2. total_matched \in Nat /\ taker.size \in Nat
    BY SizesAssumption DEF BInv, IInv, Shape, BookTypeOK, Takers
  <1> QED
    BY <1>1, <1>2, SizesAssumption DEF BInv, Owned

\* A step that frees and matches nothing.
LEMMA QuietShrinks ==
    ASSUME BInv, UNCHANGED <<poolVars, taker>>, pc # "close", pc' # "close"
    PROVE  Shrinks
  <1>1. \A y : ~Closing(y) /\ ~Closing(y)'
    BY DEF Closing
  <1>2. Resting' = Resting /\ (Pool!InUse)' = Pool!InUse
    BY <1>1 DEF Resting, poolVars, Pool!InUse
  <1> QED
    BY <1>2, ShareTypes DEF Shrinks, poolVars

\* The head of a level loses shares; if none are left it still rests until
\* it is closed.
LEMMA MatchHeadShrinks ==
    ASSUME BInv, MatchHead
    PROVE  Shrinks
  <1>1. PICK o : o = peek(Level)
    OBVIOUS
  <1>2. PICK left : left = decreaseSize(shares[o], Missing).left
    OBVIOUS
  <1>3. /\ pc = "level" /\ ~empty(Level) /\ total_matched < taker.size
        /\ shares' = [shares EXCEPT ![o] = left]
        /\ pc' = IF left = 0 THEN "close" ELSE "level"
        /\ UNCHANGED <<is_free, word, levels, taker, it>>
    BY <1>1, <1>2 DEF MatchHead
  <1>4. o \in At(Opposite(taker.side), it)
    BY <1>1, <1>3, WorkedLevel
  <1>5. o \in Pool!InUse /\ o \in Pool!Slots /\ o # taker.order /\ shares[o] > 0
    BY <1>3, <1>4 DEF At, Closing, Pool!InUse
  <1>6. left \in Nat /\ left <= shares[o]
    BY <1>2, <1>3, <1>5, ShareTypes DEF decreaseSize, Missing
  <1>7. Level' = Level /\ peek(Level') = o
    BY <1>1, <1>3 DEF Level
  <1>8. \A y : ~Closing(y) /\ (Closing(y)' <=> left = 0 /\ y = o)
    BY <1>3, <1>7 DEF Closing
  <1>9. (Pool!InUse)' = Pool!InUse
    BY <1>3 DEF Pool!InUse
  <1>10. \A y \in Pool!InUse : y \in Pool!Slots
    BY DEF Pool!InUse
  <1>11. Resting' = Resting
    BY <1>3, <1>5, <1>6, <1>8, <1>9, <1>10, ShareTypes DEF Resting
  <1> QED
    BY <1>3, <1>5, <1>6, <1>7, <1>9, <1>11, ShareTypes DEF Shrinks

\* Only an order without shares is freed by a match.
LEMMA CloseHeadShrinks ==
    ASSUME BInv, CloseHead, shares[peek(Level)] = 0
    PROVE  Shrinks
  <1>1. PICK o : o = peek(Level)
    OBVIOUS
  <1>2. /\ pc = "close" /\ pc' = "level" /\ UNCHANGED <<taker, shares>>
        /\ is_free' = is_free \cup {o} /\ word' = [word EXCEPT ![o] = next_free_index]
    BY <1>1 DEF CloseHead, Free, Pool!Deallocate
  <1>3. ~empty(Level)
    BY <1>2, LevelFacts DEF BInv, IInv
  <1>4. o \in At(Opposite(taker.side), it)
    BY <1>1, <1>2, <1>3, WorkedLevel
  <1>5. o \in Pool!InUse /\ o \in Pool!Slots /\ o # taker.order
    BY <1>4 DEF At, Pool!InUse
  <1>6. (Pool!InUse)' = Pool!InUse \ {o}
    BY <1>2 DEF Pool!InUse
  <1>7. \A y : ~Closing(y)' /\ (Closing(y) <=> y = o)
    BY <1>1, <1>2 DEF Closing
  <1>8. Resting' = Resting \ {o}
    BY <1>2, <1>6, <1>7 DEF Resting
  <1>9. \A y \in Pool!InUse : y # o => word'[y] = word[y]
    BY <1>2, <1>5, ShareTypes DEF Pool!InUse
  <1> QED
    BY <1>1, <1>2, <1>5, <1>6, <1>8, <1>9, ShareTypes DEF Shrinks

\* The three ways in which a call returns.
LEMMA ReturnShrinks ==
    ASSUME BInv, RestRemainder \/ FullyMatched \/ ReturnMatched
    PROVE  Shrinks
  <1>1. /\ pc = "return" /\ pc' = "idle" /\ taker'.order = NULL
        /\ UNCHANGED <<is_free, word>>
    BY DEF RestRemainder, FullyMatched, ReturnMatched, Return, NoTaker, poolVars
  <1>2. \A y \in Pool!Slots : y # taker.order => shares'[y] = shares[y]
    BY ShareTypes DEF RestRemainder, FullyMatched, ReturnMatched, DecreaseTaker, poolVars
  <1>3. (Pool!InUse)' = Pool!InUse
    BY <1>1 DEF Pool!InUse
  <1>4. \A y : ~Closing(y) /\ ~Closing(y)'
    BY <1>1 DEF Closing
  <1>5. \A y \in Pool!InUse : y \in Pool!Slots /\ y # NULL
    BY NullIsNoSlot DEF Pool!InUse
  <1>6. Resting' \subseteq Resting \cup {taker.order} /\ Resting \subseteq Resting'
    BY <1>1, <1>2, <1>3, <1>4, <1>5 DEF Resting
  <1> QED
    BY <1>1, <1>2, <1>3, <1>6, ShareTypes DEF Shrinks

\* All steps of a call.
LEMMA StepShrinks ==
    ASSUME BInv, Step, pc = "close" => shares[peek(Level)] = 0
    PROVE  Shrinks
  <1>1. CASE EnterLevel \/ StopMatching \/ LevelTaken \/ LevelLeft
    <2>1. UNCHANGED <<poolVars, taker>> /\ pc # "close" /\ pc' # "close"
      BY <1>1 DEF EnterLevel, StopMatching, LevelTaken, LevelLeft
    <2> QED
      BY <2>1, QuietShrinks
  <1>2. CASE CloseHead
    BY <1>2, CloseHeadShrinks DEF CloseHead
  <1> QED
    BY <1>1, <1>2, MatchHeadShrinks, ReturnShrinks DEF Step

----------------------------------------------------------------------------
(* What the steps do to the lines of orders.                               *)

\* A line stays, loses one order, or gets the incoming one at its end.
LineMoves(s, p) ==
    \/ Line(s, p)' = Line(s, p)
    \/ \E k \in 1 .. Len(Line(s, p)) : Line(s, p)' = Without(Line(s, p), k)
    \/ RestRemainder /\ Line(s, p)' = Append(Line(s, p), taker.order)

\* A line stays if its links do.
LEMMA LinesFollowLinks ==
    ASSUME BInv, levels' = levels, NEW s \in Sides, NEW p \in Prices,
           \A y \in At(s, p) : node'[y] = node[y]
    PROVE  LineMoves(s, p)
  <1>1. HasLevel(s, p)' <=> HasLevel(s, p)
    BY DEF HasLevel
  <1> QED
    BY <1>1, LineKept DEF LineMoves

\* The steps of a call.
LEMMA StepLines ==
    ASSUME BInv, Step, NEW s \in Sides, NEW p \in Prices
    PROVE  LineMoves(s, p)
  <1>1. CASE EnterLevel \/ StopMatching \/ MatchHead \/ LevelLeft \/ FullyMatched \/ ReturnMatched
    <2>1. UNCHANGED <<levels, node>>
      BY <1>1 DEF EnterLevel, StopMatching, MatchHead, LevelLeft, FullyMatched, ReturnMatched
    <2> QED
      BY <2>1, LinesFollowLinks
  <1>2. CASE CloseHead
    <2>1. PICK t, x : t = Opposite(taker.side) /\ x = it
      OBVIOUS
    <2>2. /\ t \in Sides /\ x \in Prices
          /\ Len(Line(t, x)) # 0 /\ Line(t, x)' = Without(Line(t, x), 1)
          /\ s # t \/ p # x => Line(s, p)' = Line(s, p)
      BY <1>2, <2>1, CloseHeadLines
    <2>3. Line(t, x) \in Seq(Pool!Slots)
      BY <2>2, LineFacts
    <2>4. 1 \in 1 .. Len(Line(t, x))
      BY <2>2, <2>3
    <2> QED
      BY <2>2, <2>4 DEF LineMoves
  <1>3. CASE LevelTaken
    BY <1>3, LevelTakenLines DEF LineMoves
  <1>4. CASE RestRemainder
    <2>1. PICK t, x : t = taker.side /\ x = taker.price
      OBVIOUS
    <2>2. /\ Line(t, x)' = Append(Line(t, x), taker.order)
          /\ s # t \/ p # x => Line(s, p)' = Line(s, p)
      BY <1>4, <2>1, RestRemainderLines
    <2> QED
      BY <1>4, <2>2 DEF LineMoves
  <1> QED
    BY <1>1, <1>2, <1>3, <1>4 DEF Step

\* A harmless cancel.
LEMMA CancelLines ==
    ASSUME BInv, NEW o \in Pool!InUse, Harmless(o), CancelOrder(o),
           NEW s \in Sides, NEW p \in Prices
    PROVE  LineMoves(s, p)
  <1>1. PICK t, x : t = terms[o].side /\ x = terms[o].price
    OBVIOUS
  <1>2. CASE HasLevel(t, x)
    <2>1. /\ \E k \in 1 .. Len(Line(t, x)) : Line(t, x)' = Without(Line(t, x), k)
          /\ s # t \/ p # x => Line(s, p)' = Line(s, p)
      BY <1>1, <1>2, CancelOrderLines
    <2> QED
      BY <2>1 DEF LineMoves
  <1>3. CASE ~HasLevel(t, x)
    <2>1. UNCHANGED <<levels, node>>
      BY <1>1, <1>3 DEF CancelOrder
    <2> QED
      BY <2>1, LinesFollowLinks
  <1> QED
    BY <1>2, <1>3

\* A new order is in no line yet.
LEMMA AddOrderLines ==
    ASSUME BInv, NEW id, NEW siz, NEW price, NEW side, NEW type,
           AddOrder(id, siz, price, side, type), NEW s \in Sides, NEW p \in Prices
    PROVE  LineMoves(s, p)
  <1>1. PICK o : o = next_free_index
    OBVIOUS
  <1>2. o \in is_free
    BY <1>1, PoolFacts DEF AddOrder, Pool!Allocate, BInv
  <1>3. levels' = levels /\ node' = [node EXCEPT ![o] = NullNode]
    BY <1>1 DEF AddOrder
  <1>4. node \in [Pool!Slots -> Links]
    BY DEF BInv, IInv, Shape, BookTypeOK
  <1>5. \A y \in At(s, p) : node'[y] = node[y]
    BY <1>2, <1>3, <1>4 DEF At, Pool!InUse
  <1> QED
    BY <1>3, <1>5, LinesFollowLinks

\* An ascending line stays one.
Ascending(w) == \A k, l \in 1 .. Len(w) : k < l => word[w[k]] < word[w[l]]

\* ... whether it loses an order or gets a younger one.
LEMMA LinesAscend ==
    ASSUME BInv, NEW s \in Sides, NEW p \in Prices, LineMoves(s, p), Ascending(Line(s, p)),
           \A y \in At(s, p) : word[y] \in Nat,
           \A k \in 1 .. Len(Line(s, p)') :
              Line(s, p)'[k] \in At(s, p) => word'[Line(s, p)'[k]] = word[Line(s, p)'[k]],
           RestRemainder =>
              /\ word'[taker.order] \in Nat
              /\ \A y \in At(s, p) : word[y] < word'[taker.order]
    PROVE  Ascending(Line(s, p))'
  <1>1. PICK w : w = Line(s, p) /\ w \in Seq(Pool!Slots)
    BY LineFacts
  <1>2. PICK n \in Nat : n = Len(w)
    BY <1>1
  <1>3. \A k \in 1 .. n : w[k] \in At(s, p)
    BY <1>1, <1>2, LineFacts
  <1>4. \A k, l \in 1 .. n : k < l => word[w[k]] < word[w[l]]
    BY <1>1, <1>2 DEF Ascending
  <1>5. PICK v : v = Line(s, p)'
    OBVIOUS
  <1>6. SUFFICES \A k, l \in 1 .. Len(v) : k < l => word'[v[k]] < word'[v[l]]
    BY <1>5 DEF Ascending
  <1>7. CASE v = w
    BY <1>2, <1>3, <1>4, <1>5, <1>7
  <1>8. ASSUME NEW j \in 1 .. n, v = Without(w, j)
        PROVE  \A k, l \in 1 .. Len(v) : k < l => word'[v[k]] < word'[v[l]]
    <2>1. Len(v) = n - 1 /\ \A k \in 1 .. n - 1 : v[k] = w[IF k < j THEN k ELSE k + 1]
      BY <1>1, <1>2, <1>8 DEF Without
    <2>2. \A k \in 1 .. n - 1 : (IF k < j THEN k ELSE k + 1) \in 1 .. n
      BY <1>2, <1>8
    <2>3. \A k \in 1 .. n - 1 : word'[v[k]] = word[w[IF k < j THEN k ELSE k + 1]]
      BY <1>3, <1>5, <2>1, <2>2
    <2>4. \A k, l \in 1 .. n - 1 : k < l =>
             (IF k < j THEN k ELSE k + 1) < (IF l < j THEN l ELSE l + 1)
      BY <1>2, <1>8
    <2> QED
      BY <1>4, <2>1, <2>2, <2>3, <2>4
  <1>9. ASSUME RestRemainder, v = Append(w, taker.order)
        PROVE  \A k, l \in 1 .. Len(v) : k < l => word'[v[k]] < word'[v[l]]
    <2>1. Len(v) = n + 1 /\ v[n + 1] = taker.order /\ \A k \in 1 .. n : v[k] = w[k]
      BY <1>1, <1>2, <1>9
    <2>2. \A k \in 1 .. n : word'[v[k]] = word[w[k]] /\ word[w[k]] < word'[taker.order]
      BY <1>2, <1>3, <1>5, <1>9, <2>1
    <2>3. \A k, l \in 1 .. n + 1 : k < l => k \in 1 .. n /\ (l \in 1 .. n \/ l = n + 1)
      BY <1>2
    <2> QED
      BY <1>4, <2>1, <2>2, <2>3
  <1> QED
    BY <1>1, <1>2, <1>5, <1>7, <1>8, <1>9 DEF LineMoves

----------------------------------------------------------------------------
(* The loop of main().                                                     *)

\* The generator's parameters, as the loop needs them.
LEMMA Ranges ==
    /\ Iterations \in Nat /\ MinPrice \in Nat /\ MaxLast \in Nat /\ MaxOffset \in Nat
    /\ Tick \in Nat /\ Modulus \in Nat /\ MaxLast + MaxOffset + Tick < Modulus
    /\ MaxId \in Nat /\ Iterations < MaxId
    /\ 1 .. Iterations \subseteq OrderIds
    /\ MinPrice .. MaxLast + MaxOffset + Tick \subseteq Prices
    /\ Drawn \subseteq Sizes /\ Sizes \subseteq Nat
  BY GeneratorAssumption, IterationsAssumption, SizesAssumption, ParametersAssumption

\* The counters are within the types of the generator.
LEMMA DrawingTypes == Drawing => GenTypeOK
  BY Ranges DEF Drawing, GenTypeOK

\* The order of an iteration is one the book takes.
LEMMA CallsAreTyped ==
    ASSUME Drawing, phase = "add"
    PROVE  current_id - 1 \in OrderIds /\ size \in Sizes /\ last_price \in Prices
  <1>1. current_id - 1 \in 1 .. Iterations
    BY Ranges DEF Drawing
  <1>2. size \in Sizes
    BY Ranges DEF Drawing
  <1>3. last_price \in Prices
    BY Ranges DEF Drawing
  <1> QED
    BY <1>1, <1>2, <1>3, Ranges

\* An order that looks open when main() is about to cancel it is live.
LEMMA CancelsAreHarmless ==
    ASSUME BInv, Tracking, NEW k \in 1 .. Len(orders), LooksOpen(orders[k])
    PROVE  orders[k] \in Pool!InUse /\ Harmless(orders[k]) /\ orders[k] \in Resting
  BY DEF Tracking, Tracked, LooksOpen, Resting, Harmless

\* main() is a careful caller: what it cancels has shares left.
LEMMA MainIsCareful == EInv /\ [MainNext]_allVars => [CarefulNext]_vars
  <1> SUFFICES ASSUME EInv, [MainNext]_allVars PROVE CarefulNext \/ UNCHANGED vars
    OBVIOUS
  <1>1. CASE DrawId \/ DrawSize \/ DrawPrice \/ Track \/ NoCancel \/ CleanUp \/ Finish
    BY <1>1 DEF DrawId, DrawSize, DrawPrice, Track, NoCancel, CleanUp, Finish
  <1>2. CASE Terminated \/ UNCHANGED allVars
    BY <1>2 DEF Terminated, allVars
  <1>3. CASE CallAddOrder
    <2>1. CASE AddOrderFails
      BY <2>1 DEF AddOrderFails
    <2>2. CASE \E side \in Sides, type \in Types :
                  AddOrder(current_id - 1, size, last_price, side, type)
      <3>1. current_id - 1 \in OrderIds /\ size \in Sizes /\ last_price \in Prices
        BY <1>3, CallsAreTyped DEF CallAddOrder, Goes, EInv
      <3> QED
        BY <2>2, <3>1 DEF CarefulNext, CarefulCall
    <2> QED
      BY <1>3, <2>1, <2>2 DEF CallAddOrder
  <1>4. CASE InAddOrder
    BY <1>4 DEF InAddOrder, CarefulNext
  <1>5. ASSUME NEW k \in DOMAIN orders, CancelTracked(k)
        PROVE  CarefulNext \/ UNCHANGED vars
    <2>1. k \in 1 .. Len(orders)
      BY DEF EInv, Tracking
    <2>2. CASE LooksOpen(orders[k])
      <3>1. orders[k] \in Pool!InUse /\ Harmless(orders[k]) /\ CancelOrder(orders[k])
        BY <1>5, <2>1, <2>2, CancelsAreHarmless DEF EInv, CancelTracked
      <3> QED
        BY <3>1 DEF CarefulNext, CarefulCall
    <2>3. CASE ~LooksOpen(orders[k])
      BY <1>5, <2>3 DEF CancelTracked
    <2> QED
      BY <2>2, <2>3
  <1> QED
    BY <1>1, <1>2, <1>3, <1>4, <1>5 DEF MainNext, Main

\* The counters follow the phases.
LEMMA DrawingNext ==
    ASSUME EInv, [MainNext]_allVars
    PROVE  Drawing'
  <1>0. Drawing /\ GenTypeOK
    BY DrawingTypes DEF EInv
  <1>1. CASE DrawId
    BY <1>0, <1>1, Ranges DEF DrawId, Goes, More, get_next_order_id, Drawing, vars, callVars
  <1>2. CASE DrawSize
    <2>1. size' \in Drawn /\ size' \in Nat
      BY <1>2, Ranges DEF DrawSize, generate_random_size
    <2>2. UNCHANGED <<current_id, last_price, i, pc>> /\ phase = "size" /\ phase' = "price"
      BY <1>2 DEF DrawSize, Goes, generate_random_size, vars, callVars
    <2> QED
      BY <1>0, <2>1, <2>2 DEF Drawing
  <1>3. CASE DrawPrice
    <2>1. last_price' \in MinPrice .. MaxLast + MaxOffset + Tick
      BY <1>0, <1>3, PriceFacts DEF DrawPrice
    <2>2. UNCHANGED <<current_id, size, i, pc>> /\ phase = "price" /\ phase' = "add"
      BY <1>3 DEF DrawPrice, Goes, generate_random_price, StayClose, StartAfresh,
                  Settle, vars, callVars
    <2> QED
      BY <1>0, <2>1, <2>2 DEF Drawing
  <1>4. CASE CallAddOrder
    BY <1>0, <1>4 DEF CallAddOrder, Goes, genVars, Drawing
  <1>5. CASE InAddOrder
    BY <1>0, <1>5 DEF InAddOrder, mainVars, genVars, Drawing
  <1>6. CASE Track \/ NoCancel \/ Finish
    <2>1. /\ UNCHANGED <<current_id, last_price, size, i, pc>>
          /\ \/ phase = "adding" /\ phase' = "cancel" /\ pc = "idle"
             \/ phase = "cancel" /\ phase' = "clean"
             \/ phase = "id" /\ phase' = "done"
      BY <1>6 DEF Track, NoCancel, Finish, Goes, genVars, vars, callVars
    <2> QED
      BY <1>0, <2>1 DEF Drawing
  <1>7. CASE \E k \in DOMAIN orders : CancelTracked(k)
    <2>1. UNCHANGED <<current_id, last_price, size, i>> /\ phase = "cancel" /\ phase' = "clean"
      BY <1>7 DEF CancelTracked, Goes, genVars
    <2>2. UNCHANGED pc
      BY <1>7 DEF CancelTracked, CancelOrder, vars, callVars
    <2> QED
      BY <1>0, <2>1, <2>2 DEF Drawing
  <1>8. CASE CleanUp
    <2>1. /\ UNCHANGED <<current_id, last_price, pc>> /\ size' = 0 /\ i' = i + 1
          /\ phase = "clean" /\ phase' = "id"
      BY <1>8 DEF CleanUp, Goes, vars, callVars
    <2> QED
      BY <1>0, <2>1, Ranges DEF Drawing
  <1>9. CASE Terminated \/ UNCHANGED allVars
    BY <1>0, <1>9 DEF Terminated, allVars, mainVars, genVars, vars, callVars, Drawing
  <1> QED
    BY <1>1, <1>2, <1>3, <1>4, <1>5, <1>6, <1>7, <1>8, <1>9 DEF MainNext, Main

\* A sequence without repetition that loses an entry.
LEMMA WithoutFacts ==
    ASSUME NEW S, NEW w, w \in Seq(S), NEW k, k \in 1 .. Len(w),
           \A j, l \in 1 .. Len(w) : w[j] = w[l] => j = l,
           NEW v, v = Without(w, k)
    PROVE  /\ v \in Seq(S)
           /\ \A j, l \in 1 .. Len(v) : v[j] = v[l] => j = l
           /\ \A j \in 1 .. Len(v) : \E l \in 1 .. Len(w) : l # k /\ v[j] = w[l]
           /\ \A l \in 1 .. Len(w) : l # k => \E j \in 1 .. Len(v) : v[j] = w[l]
  <1>1. PICK n \in Nat : n = Len(w) /\ n >= 1
    OBVIOUS
  <1>2. v = [j \in 1 .. n - 1 |-> w[IF j < k THEN j ELSE j + 1]]
    BY <1>1 DEF Without
  <1>3. \A j \in 1 .. n - 1 : (IF j < k THEN j ELSE j + 1) \in 1 .. n
    BY <1>1
  <1>4. v \in Seq(S) /\ Len(v) = n - 1
    <2>1. v \in [1 .. n - 1 -> S]
      BY <1>1, <1>2, <1>3
    <2> QED
      BY <1>1, <2>1, FunctionIsSeq
  <1>5. \A j, l \in 1 .. n - 1 : v[j] = v[l] => j = l
    BY <1>1, <1>2, <1>3
  <1>6. \A j \in 1 .. n - 1 : \E l \in 1 .. n : l # k /\ v[j] = w[l]
    BY <1>1, <1>2, <1>3
  <1>7. \A l \in 1 .. n : l # k => \E j \in 1 .. n - 1 : v[j] = w[l]
    <2> SUFFICES ASSUME NEW l \in 1 .. n, l # k PROVE \E j \in 1 .. n - 1 : v[j] = w[l]
      OBVIOUS
    <2>1. CASE l < k
      <3>1. l \in 1 .. n - 1 /\ v[l] = w[l]
        BY <1>1, <1>2, <2>1
      <3> QED
        BY <3>1
    <2>2. CASE l > k
      <3>1. l - 1 \in 1 .. n - 1 /\ ~(l - 1 < k) /\ (l - 1) + 1 = l
        BY <1>1, <2>2
      <3>2. v[l - 1] = w[l]
        BY <1>2, <3>1
      <3> QED
        BY <3>1, <3>2
    <2> QED
      BY <1>1, <2>1, <2>2
  <1>8. Len(w) = n /\ Len(v) = n - 1
    BY <1>1, <1>4
  <1> QED
    BY <1>4, <1>5, <1>6, <1>7, <1>8

\* What does not change while the book stands still.
LEMMA BookQuiet ==
    ASSUME UNCHANGED vars
    PROVE  /\ UNCHANGED <<pc, taker, shares, word>>
           /\ Resting' = Resting /\ (Pool!InUse)' = Pool!InUse /\ Level' = Level
           /\ \A s, p : Line(s, p)' = Line(s, p)
  <1>1. UNCHANGED <<pc, taker, shares, word, is_free, levels, node, it>>
    BY DEF vars, poolVars, callVars
  <1>2. Level' = Level /\ (Pool!InUse)' = Pool!InUse
    BY <1>1 DEF Level, Pool!InUse
  <1>3. Resting' = Resting
    BY <1>1, <1>2 DEF Resting, Closing
  <1>4. \A s, p : Line(s, p)' = Line(s, p)
    BY <1>1 DEF Line, HasLevel
  <1> QED
    BY <1>1, <1>2, <1>3, <1>4

\* Between calls, what rests is what is live and has shares left.
LEMMA RestingWhenIdle ==
    ASSUME BInv, pc = "idle"
    PROVE  Resting = {o \in Pool!InUse : shares[o] > 0}
  BY NullIsNoSlot DEF Resting, Closing, BInv, Owned, Pool!InUse

\* A new order is not tracked yet and takes nothing off the book.
LEMMA CallAddOrderTracking ==
    ASSUME EInv, CallAddOrder
    PROVE  Tracking'
  <1>1. /\ phase = "add" /\ phase' = "adding" /\ orders' = orders /\ pc = "idle"
    BY DEF CallAddOrder, Goes, EInv, Drawing
  <1>2. CASE AddOrderFails /\ returned' = NULL
    <2>1. UNCHANGED vars
      BY <1>2 DEF AddOrderFails
    <2> QED
      BY <1>1, <1>2, <2>1, BookQuiet DEF EInv, Tracking, Tracked, LooksOpen
  <1>3. ASSUME NEW side \in Sides, NEW type \in Types, returned' = next_free_index,
               AddOrder(current_id - 1, size, last_price, side, type)
        PROVE  Tracking'
    <2>1. PICK o : o = next_free_index
      OBVIOUS
    <2>2. o \in is_free /\ o \in Pool!Slots
      BY <1>3, <2>1, PoolFacts DEF AddOrder, Pool!Allocate, EInv, BInv, Pool!TypeOK
    <2>3. /\ pc' = "match" /\ taker'.order = o /\ is_free' = is_free \ {o}
          /\ shares' = [shares EXCEPT ![o] = size]
      BY <1>3, <2>1 DEF AddOrder, Pool!Allocate
    <2>4. (Pool!InUse)' = Pool!InUse \cup {o} /\ o \notin Pool!InUse
      BY <2>2, <2>3 DEF Pool!InUse
    <2>5. \A y \in Pool!Slots : y # o => shares'[y] = shares[y]
      BY <2>3, ShareTypes DEF EInv
    <2>6. Resting = {y \in Pool!InUse : shares[y] > 0} /\ \A y \in Resting : y \in Pool!Slots /\ y # o
      BY <1>1, <2>4, RestingWhenIdle DEF EInv, Pool!InUse
    <2>7. \A y : ~Closing(y)'
      BY <2>3 DEF Closing
    <2>8. Resting' = Resting
      <3>1. \A y \in Pool!InUse : y \in Pool!Slots /\ y # o /\ shares'[y] = shares[y]
        BY <2>4, <2>5 DEF Pool!InUse
      <3> QED
        BY <2>3, <2>4, <2>6, <2>7, <3>1 DEF Resting
    <2>9. Tracked \subseteq Resting /\ Resting \subseteq Tracked /\ Tracked' = Tracked
      BY <1>1 DEF EInv, Tracking, Tracked
    <2>10. o # NULL
      BY <2>2, NullIsNoSlot
    <2> QED
      BY <1>1, <1>3, <2>1, <2>2, <2>3, <2>4, <2>5, <2>6, <2>8, <2>9, <2>10
         DEF EInv, Tracking, LooksOpen
  <1> QED
    BY <1>2, <1>3 DEF CallAddOrder

\* addOrder() may fill and free tracked orders: those read zero from then on.
LEMMA InAddOrderTracking ==
    ASSUME EInv, InAddOrder
    PROVE  Tracking'
  <1>1. Step /\ phase = "adding" /\ UNCHANGED <<phase, returned, orders>>
    BY DEF InAddOrder, mainVars
  <1>2. pc # "idle"
    BY <1>1 DEF Step, EnterLevel, StopMatching, MatchHead, CloseHead, LevelTaken, LevelLeft,
                RestRemainder, FullyMatched, ReturnMatched
  <1>3. Tracking /\ BInv
    BY DEF EInv
  <1>4. taker.order = returned /\ returned # NULL /\ returned \in Pool!InUse \ Tracked
    BY <1>1, <1>2, <1>3 DEF Tracking
  <1>5. pc = "close" => shares[peek(Level)] = 0
    <2>1. pc = "close" => peek(Level) \in Pool!Slots
      BY <1>3, LevelFacts DEF BInv, IInv, peek
    <2> QED
      BY <1>3, <2>1, ShareTypes DEF Tracking, LooksOpen
  <1>6. Shrinks
    BY <1>1, <1>3, <1>5, StepShrinks
  <1>7. Tracked' = Tracked /\ Tracked \subseteq Pool!Slots
    BY <1>1, <1>3 DEF Tracked, Tracking
  <1>8. \A o \in Tracked : shares'[o] > 0 => o \in Resting'
    <2> SUFFICES ASSUME NEW o \in Tracked, shares'[o] > 0 PROVE o \in Resting'
      OBVIOUS
    <2>1. shares'[o] <= shares[o] /\ shares[o] \in Nat
      BY <1>3, <1>4, <1>6, <1>7, ShareTypes DEF Shrinks
    <2>2. shares'[o] \in Nat
      BY <1>1, <1>3, <1>7, NextBInv, ShareTypes DEF CarefulNext, BInv, IInv, Shape
    <2>3. o \in Resting
      BY <1>3, <2>1, <2>2 DEF Tracking, LooksOpen
    <2> QED
      BY <1>6, <2>2, <2>3 DEF Shrinks
  <1>9. pc' # "idle" => taker'.order = returned
    BY <1>4, <1>6 DEF Shrinks
  <1>10. Resting' \subseteq Tracked \cup {returned}
    BY <1>1, <1>3, <1>4, <1>6 DEF Shrinks, Tracking
  <1>11. returned \in (Pool!InUse)'
    BY <1>4, <1>6 DEF Shrinks
  <1>12. pc' = "close" => shares'[peek(Level')] = 0
    BY <1>6 DEF Shrinks
  <1> QED
    BY <1>1, <1>3, <1>4, <1>7, <1>8, <1>9, <1>10, <1>11, <1>12 DEF Tracking, LooksOpen

\* The vector follows the book: nothing happened to the book, and the vector got
\* rid of entries that are not on it or took in one that is.
LEMMA TrackTracking ==
    ASSUME EInv, Track
    PROVE  Tracking'
  <1>1. /\ phase = "adding" /\ phase' = "cancel" /\ pc = "idle" /\ returned' = returned
        /\ UNCHANGED vars
    BY DEF Track, Goes
  <1>2. /\ pc' = "idle" /\ shares' = shares /\ Resting' = Resting
    BY <1>1, BookQuiet
  <1>3. Tracking /\ BInv
    BY DEF EInv
  <1>4. Resting = {o \in Pool!InUse : shares[o] > 0}
    BY <1>1, <1>3, RestingWhenIdle
  <1>5. PICK n \in Nat : n = Len(orders)
    BY <1>3 DEF Tracking
  <1>6. CASE returned # NULL /\ LooksOpen(returned)
    <2>1. orders' = Append(orders, returned)
      BY <1>6 DEF Track
    <2>2. returned \in Pool!Slots /\ returned \in Resting /\ returned \notin Tracked
      BY <1>1, <1>3, <1>4, <1>6 DEF Tracking, LooksOpen
    <2>3. /\ orders' \in Seq(Pool!Slots) /\ Len(orders') = n + 1 /\ orders'[n + 1] = returned
          /\ \A k \in 1 .. n : orders'[k] = orders[k]
      BY <1>3, <1>5, <2>1, <2>2 DEF Tracking
    <2>4. \A k \in 1 .. n : orders[k] # returned
      BY <1>5, <2>2 DEF Tracked
    <2>5. \A k \in 1 .. n + 1 : k \in 1 .. n \/ k = n + 1
      BY <1>5
    <2>6. \A k, l \in 1 .. n + 1 : orders'[k] = orders'[l] => k = l
      <3>1. \A k, l \in 1 .. n : orders[k] = orders[l] => k = l
        BY <1>3, <1>5 DEF Tracking
      <3> QED
        BY <2>3, <2>4, <2>5, <3>1
    <2>7. Tracked' = Tracked \cup {returned}
      <3>1. Tracked' = {orders'[k] : k \in 1 .. n + 1} /\ Tracked = {orders[k] : k \in 1 .. n}
        BY <1>5, <2>3 DEF Tracked
      <3>2. n + 1 \in 1 .. n + 1 /\ \A k \in 1 .. n : k \in 1 .. n + 1
        BY <1>5
      <3> QED
        BY <2>3, <2>5, <3>1, <3>2
    <2> QED
      BY <1>1, <1>2, <1>3, <2>2, <2>3, <2>6, <2>7 DEF Tracking, LooksOpen
  <1>7. CASE ~(returned # NULL /\ LooksOpen(returned))
    <2>1. orders' = orders /\ Tracked' = Tracked
      BY <1>7 DEF Track, Tracked
    <2>2. returned \notin Resting
      BY <1>4, <1>7, NullIsNoSlot DEF LooksOpen, Pool!InUse
    <2>3. Resting \subseteq Tracked
      BY <1>1, <1>3, <2>2 DEF Tracking
    <2> QED
      BY <1>1, <1>2, <1>3, <2>1, <2>3 DEF Tracking, LooksOpen
  <1> QED
    BY <1>6, <1>7

\* What remove_if() keeps is what rests.
LEMMA CleanUpTracking ==
    ASSUME EInv, CleanUp
    PROVE  Tracking'
  <1>1. /\ phase = "clean" /\ phase' = "id" /\ returned' = NULL /\ UNCHANGED vars
    BY DEF CleanUp, Goes
  <1>2. Tracking /\ BInv /\ pc = "idle"
    BY <1>1 DEF EInv, Drawing
  <1>3. /\ pc' = "idle" /\ shares' = shares /\ Resting' = Resting
    BY <1>1, <1>2, BookQuiet
  <1>4. Resting = {o \in Pool!InUse : shares[o] > 0}
    BY <1>2, RestingWhenIdle
  <1>5. PICK n \in 0 .. Len(orders) : \E from \in [1 .. n -> Kept] :
           /\ \A j, k \in 1 .. n : j < k => from[j] < from[k]
           /\ Kept = {from[j] : j \in 1 .. n}
           /\ orders' = [j \in 1 .. n |-> orders[from[j]]]
    BY DEF CleanUp
  <1>6. PICK from \in [1 .. n -> Kept] :
           /\ \A j, k \in 1 .. n : j < k => from[j] < from[k]
           /\ Kept = {from[j] : j \in 1 .. n}
           /\ orders' = [j \in 1 .. n |-> orders[from[j]]]
    BY <1>5
  <1>7. n \in Nat /\ Len(orders) \in Nat /\ DOMAIN orders = 1 .. Len(orders)
    BY <1>2 DEF Tracking
  <1>8. \A k \in Kept : k \in 1 .. Len(orders) /\ orders[k] \in Pool!Slots /\ orders[k] \in Resting
    BY <1>2, <1>7 DEF Kept, Tracking, Tracked
  <1>9. orders' \in Seq(Pool!Slots) /\ Len(orders') = n
    <2>1. orders' \in [1 .. n -> Pool!Slots]
      BY <1>6, <1>8
    <2> QED
      BY <1>7, <2>1, FunctionIsSeq
  <1>10. \A j, k \in 1 .. n : orders'[j] = orders'[k] => j = k
    <2>1. \A j, k \in 1 .. n : from[j] = from[k] => j = k
      <3>1. \A j \in 1 .. n : from[j] \in Nat
        BY <1>6, <1>7, <1>8
      <3>2. \A j, k \in 1 .. n : j < k \/ k < j \/ j = k
        BY <1>7
      <3>3. \A j, k \in 1 .. n : j < k => from[j] # from[k]
        BY <1>6, <3>1
      <3> QED
        BY <3>2, <3>3
    <2>2. \A k, l \in 1 .. Len(orders) : orders[k] = orders[l] => k = l
      BY <1>2 DEF Tracking
    <2> QED
      BY <1>6, <1>8, <2>1, <2>2
  <1>11. Tracked' = {orders[from[j]] : j \in 1 .. n}
    BY <1>6, <1>9 DEF Tracked
  <1>12. Tracked' \subseteq Resting
    BY <1>6, <1>8, <1>11
  <1>13. Resting \subseteq Tracked'
    <2> SUFFICES ASSUME NEW o \in Resting PROVE o \in Tracked'
      OBVIOUS
    <2>1. PICK k \in 1 .. Len(orders) : o = orders[k]
      BY <1>1, <1>2 DEF Tracking, Tracked
    <2>2. k \in Kept
      BY <1>4, <1>7, <2>1 DEF Kept, LooksOpen
    <2>3. PICK j \in 1 .. n : k = from[j]
      BY <1>6, <2>2
    <2> QED
      BY <1>11, <2>1, <2>3
  <1> QED
    BY <1>1, <1>3, <1>9, <1>10, <1>12, <1>13 DEF Tracking

\* A cancelled order leaves the book and the vector together.
LEMMA CancelTracking ==
    ASSUME EInv, NEW k \in DOMAIN orders, CancelTracked(k)
    PROVE  Tracking'
  <1>1. /\ phase = "cancel" /\ phase' = "clean" /\ returned' = returned
        /\ orders' = Without(orders, k)
    BY DEF CancelTracked, Goes
  <1>2. Tracking /\ BInv /\ pc = "idle"
    BY <1>1 DEF EInv, Drawing
  <1>3. k \in 1 .. Len(orders)
    BY <1>2 DEF Tracking
  <1>4. PICK o : o = orders[k] /\ o \in Pool!Slots /\ o \in Tracked
    BY <1>2, <1>3 DEF Tracking, Tracked
  <1>5. /\ orders' \in Seq(Pool!Slots)
        /\ \A j, l \in 1 .. Len(orders') : orders'[j] = orders'[l] => j = l
        /\ Tracked' = Tracked \ {o}
    <2>1. /\ orders \in Seq(Pool!Slots)
          /\ \A j, l \in 1 .. Len(orders) : orders[j] = orders[l] => j = l
      BY <1>2 DEF Tracking
    <2>2. /\ orders' \in Seq(Pool!Slots)
          /\ \A j, l \in 1 .. Len(orders') : orders'[j] = orders'[l] => j = l
      BY <1>1, <1>3, <2>1, WithoutFacts
    <2>3. \A j \in 1 .. Len(orders') : \E l \in 1 .. Len(orders) : l # k /\ orders'[j] = orders[l]
      BY <1>1, <1>3, <2>1, WithoutFacts
    <2>4. \A l \in 1 .. Len(orders) : l # k => \E j \in 1 .. Len(orders') : orders'[j] = orders[l]
      BY <1>1, <1>3, <2>1, WithoutFacts
    <2>5. Tracked' \subseteq Tracked \ {o}
      <3> SUFFICES ASSUME NEW j \in 1 .. Len(orders') PROVE orders'[j] \in Tracked \ {o}
        BY DEF Tracked
      <3>1. PICK l \in 1 .. Len(orders) : l # k /\ orders'[j] = orders[l]
        BY <2>3
      <3>2. orders[l] # orders[k]
        BY <1>3, <2>1, <3>1
      <3> QED
        BY <1>4, <3>1, <3>2 DEF Tracked
    <2>6. Tracked \ {o} \subseteq Tracked'
      BY <1>4, <2>4 DEF Tracked
    <2> QED
      BY <2>2, <2>5, <2>6
  <1>6. Resting = {y \in Pool!InUse : shares[y] > 0}
    BY <1>2, RestingWhenIdle
  <1>7. pc' = "idle" /\ shares' = shares /\ Resting' = Resting \ {o}
    <2>1. CASE LooksOpen(o)
      <3>1. CancelOrder(o)
        BY <1>4, <2>1 DEF CancelTracked
      <3>2. /\ is_free' = is_free \cup {o} /\ shares' = shares /\ UNCHANGED <<pc, taker>>
        BY <3>1 DEF CancelOrder, Free, Pool!Deallocate, callVars
      <3>3. (Pool!InUse)' = Pool!InUse \ {o}
        BY <3>2 DEF Pool!InUse
      <3>4. \A y : ~Closing(y)'
        BY <1>2, <3>2 DEF Closing
      <3>5. taker'.order = NULL /\ \A y \in Pool!InUse : y # NULL
        BY <1>2, <3>2, NullIsNoSlot DEF BInv, Owned, Pool!InUse
      <3>6. Resting' = {y \in Pool!InUse \ {o} : shares[y] > 0}
        BY <3>2, <3>3, <3>4, <3>5 DEF Resting
      <3> QED
        BY <1>2, <1>6, <3>2, <3>6
    <2>2. CASE ~LooksOpen(o)
      <3>1. UNCHANGED vars
        BY <1>4, <2>2 DEF CancelTracked
      <3> QED
        BY <1>2, <1>6, <2>2, <3>1, BookQuiet DEF LooksOpen
    <2> QED
      BY <2>1, <2>2
  <1>8. /\ \A y \in Tracked : LooksOpen(y) => y \in Resting
        /\ Resting \subseteq Tracked /\ returned \in Pool!Slots \cup {NULL}
    BY <1>1, <1>2 DEF Tracking
  <1> QED
    BY <1>1, <1>5, <1>7, <1>8 DEF Tracking, LooksOpen

\* All steps of main().
LEMMA TrackingNext ==
    ASSUME EInv, [MainNext]_allVars
    PROVE  Tracking'
  <1>1. CASE DrawId \/ DrawSize \/ DrawPrice \/ NoCancel \/ Finish
    <2>1. /\ UNCHANGED vars /\ UNCHANGED <<returned, orders>>
          /\ \/ phase \in {"id", "size", "price"} /\ phase' \in {"size", "price", "add", "done"}
             \/ phase = "cancel" /\ phase' = "clean"
      BY <1>1 DEF DrawId, DrawSize, DrawPrice, NoCancel, Finish, Goes
    <2>2. Tracking /\ Tracked' = Tracked
      BY <2>1 DEF EInv, Tracked
    <2> QED
      BY <2>1, <2>2, BookQuiet DEF Tracking, LooksOpen
  <1>2. CASE Terminated \/ UNCHANGED allVars
    <2>1. UNCHANGED vars /\ UNCHANGED <<phase, returned, orders>>
      BY <1>2 DEF Terminated, allVars, mainVars
    <2>2. Tracking /\ Tracked' = Tracked
      BY <2>1 DEF EInv, Tracked
    <2> QED
      BY <2>1, <2>2, BookQuiet DEF Tracking, LooksOpen
  <1> QED
    BY <1>1, <1>2, CallAddOrderTracking, InAddOrderTracking, TrackTracking, CancelTracking,
       CleanUpTracking DEF MainNext, Main

----------------------------------------------------------------------------
(* The ages of the orders.                                                 *)

\* The orders in line are live.
LinesLive ==
    \A s \in Sides, p \in Prices : \A k \in 1 .. Len(Line(s, p)) : Line(s, p)[k] \in Pool!InUse

\* No freed order is in line.
LEMMA LinedUpAreLive == BInv => LinesLive
  BY LineFacts DEF LinesLive, At

\* A step that leaves the ids of the orders that stay alive keeps the lines in
\* the order of their ids, as the one order that may join a line is the youngest.
LEMMA LinesStayAged ==
    ASSUME BInv, BInv', Aged,
           \A s \in Sides, p \in Prices : LineMoves(s, p),
           \A o \in Pool!InUse : o \in (Pool!InUse)' => word'[o] = word[o],
           RestRemainder => taker.order \in (Pool!InUse)'
    PROVE  \A s \in Sides, p \in Prices : Ascending(Line(s, p))'
  <1>1. BInv' => LinesLive'
    BY LinedUpAreLive, PTL
  <1> SUFFICES ASSUME NEW s \in Sides, NEW p \in Prices PROVE Ascending(Line(s, p))'
    OBVIOUS
  <1>2. \A y \in At(s, p) : y \in Pool!InUse /\ y # taker.order
    BY DEF At
  <1>3. \A y \in Pool!InUse : word[y] \in Nat
    BY ShareTypes DEF Pool!InUse
  <1>4. \A k \in 1 .. Len(Line(s, p)') : Line(s, p)'[k] \in (Pool!InUse)'
    BY <1>1 DEF LinesLive
  <1>5. Ascending(Line(s, p))
    BY DEF Aged, Ascending
  <1>6. ASSUME RestRemainder
        PROVE  /\ word'[taker.order] \in Nat
               /\ \A y \in At(s, p) : word[y] < word'[taker.order]
    <2>1. taker.order \in Pool!InUse /\ word[taker.order] = Issued
      BY <1>6, ShareTypes DEF RestRemainder, Aged
    <2>2. word'[taker.order] = Issued /\ Issued \in Nat
      BY <1>3, <1>6, <2>1
    <2>3. \A y \in At(s, p) : word[y] \in 1 .. Issued /\ word[y] # Issued
      BY <1>2, <2>1 DEF Aged
    <2> QED
      BY <2>2, <2>3
  <1> QED
    BY <1>2, <1>3, <1>4, <1>5, <1>6, LinesAscend

\* The book stands still: the ids are as old as they were.
LEMMA AgedQuiet ==
    ASSUME EInv, UNCHANGED vars, pc = "idle" \/ Issued' = Issued,
           Issued' \in Nat, Issued \in Nat, Issued <= Issued'
    PROVE  Aged'
  <1>1. Aged
    BY DEF EInv
  <1>2. /\ UNCHANGED <<pc, taker, word>> /\ (Pool!InUse)' = Pool!InUse
        /\ \A s, p : Line(s, p)' = Line(s, p)
    BY BookQuiet
  <1>3. \A o \in Pool!InUse : word[o] \in 1 .. Issued'
    BY <1>1 DEF Aged
  <1> QED
    BY <1>1, <1>2, <1>3 DEF Aged

\* The new order is the youngest, and in no line.
LEMMA CallAddOrderAged ==
    ASSUME EInv, BInv', CallAddOrder
    PROVE  Aged'
  <1>1. /\ phase = "add" /\ phase' = "adding" /\ current_id' = current_id /\ pc = "idle"
        /\ current_id \in Nat /\ current_id >= 2
    BY Ranges DEF CallAddOrder, Goes, genVars, EInv, Drawing
  <1>2. Issued = current_id - 2 /\ Issued' = current_id - 1
    BY <1>1 DEF Issued
  <1>3. CASE AddOrderFails
    <2>1. UNCHANGED vars
      BY <1>3 DEF AddOrderFails
    <2> QED
      BY <1>1, <1>2, <2>1, AgedQuiet
  <1>4. ASSUME NEW side \in Sides, NEW type \in Types,
               AddOrder(current_id - 1, size, last_price, side, type)
        PROVE  Aged'
    <2>0. BInv /\ Aged
      BY DEF EInv
    <2>1. PICK o : o = next_free_index
      OBVIOUS
    <2>2. o \in is_free /\ o \in Pool!Slots
      BY <1>4, <2>0, <2>1, PoolFacts DEF AddOrder, Pool!Allocate, BInv, Pool!TypeOK
    <2>3. /\ taker'.order = o /\ is_free' = is_free \ {o}
          /\ word' = [word EXCEPT ![o] = current_id - 1]
      BY <1>4, <2>1 DEF AddOrder, Pool!Allocate
    <2>4. (Pool!InUse)' = Pool!InUse \cup {o} /\ o \notin Pool!InUse
      BY <2>2, <2>3 DEF Pool!InUse
    <2>5. word'[o] = current_id - 1 /\ \A y \in Pool!InUse : word'[y] = word[y]
      BY <2>0, <2>2, <2>3, <2>4, ShareTypes DEF Pool!InUse
    <2>6. \A y \in Pool!InUse : word[y] \in 1 .. current_id - 2
      BY <1>2, <2>0 DEF Aged
    <2>7. \A y \in (Pool!InUse)' : word'[y] \in 1 .. current_id - 1
      BY <1>1, <2>4, <2>5, <2>6
    <2>8. \A y \in Pool!InUse : word'[y] # word'[o]
      BY <1>1, <2>5, <2>6
    <2>9. \A y, z \in (Pool!InUse)' : word'[y] = word'[z] => y = z
      BY <2>0, <2>4, <2>5, <2>8 DEF Aged
    <2>10. ~RestRemainder
      BY <1>1 DEF RestRemainder
    <2>11. \A s \in Sides, p \in Prices : LineMoves(s, p)
      BY <1>4, <2>0, AddOrderLines
    <2>12. \A s \in Sides, p \in Prices : Ascending(Line(s, p))'
      BY <2>0, <2>5, <2>10, <2>11, LinesStayAged
    <2> QED
      BY <1>2, <2>3, <2>5, <2>7, <2>9, <2>12 DEF Aged, Ascending
  <1> QED
    BY <1>3, <1>4 DEF CallAddOrder

\* What remains of it joins the end of its line.
LEMMA InAddOrderAged ==
    ASSUME EInv, BInv', InAddOrder
    PROVE  Aged'
  <1>1. Step /\ phase = "adding" /\ UNCHANGED <<phase, current_id>>
    BY DEF InAddOrder, mainVars, genVars
  <1>2. pc # "idle"
    BY <1>1 DEF Step, EnterLevel, StopMatching, MatchHead, CloseHead, LevelTaken, LevelLeft,
                RestRemainder, FullyMatched, ReturnMatched
  <1>3. Tracking /\ BInv /\ Aged
    BY DEF EInv
  <1>4. Issued' = Issued
    BY <1>1 DEF Issued
  <1>5. Shrinks
    <2>1. pc = "close" => peek(Level) \in Pool!Slots
      BY <1>3, LevelFacts DEF BInv, IInv, peek
    <2>2. pc = "close" => shares[peek(Level)] = 0
      BY <1>3, <2>1, ShareTypes DEF Tracking, LooksOpen
    <2> QED
      BY <1>1, <1>3, <2>2, StepShrinks
  <1>6. \A o \in (Pool!InUse)' : o \in Pool!InUse /\ word'[o] = word[o]
    BY <1>5 DEF Shrinks
  <1>7. taker.order \in (Pool!InUse)' /\ word[taker.order] = Issued
    BY <1>2, <1>3, <1>5 DEF Shrinks, Tracking, Aged
  <1>8. pc' # "idle" => word'[taker'.order] = Issued'
    BY <1>4, <1>5, <1>6, <1>7 DEF Shrinks
  <1>9. \A s \in Sides, p \in Prices : LineMoves(s, p)
    BY <1>1, <1>3, StepLines
  <1>10. \A s \in Sides, p \in Prices : Ascending(Line(s, p))'
    BY <1>3, <1>6, <1>7, <1>9, LinesStayAged
  <1> QED
    BY <1>3, <1>4, <1>6, <1>8, <1>10 DEF Aged, Ascending

\* The pool writes over the id of the order that goes, not over another.
LEMMA CancelTrackedAged ==
    ASSUME EInv, BInv', NEW k \in DOMAIN orders, CancelTracked(k)
    PROVE  Aged'
  <1>1. /\ phase = "cancel" /\ phase' = "clean" /\ current_id' = current_id
        /\ current_id \in Nat /\ current_id >= 1
    BY Ranges DEF CancelTracked, Goes, genVars, EInv, Drawing
  <1>2. Issued' = Issued /\ Issued \in Nat
    BY <1>1 DEF Issued
  <1>3. Tracking /\ BInv /\ Aged /\ pc = "idle"
    BY <1>1 DEF EInv, Drawing
  <1>4. CASE ~LooksOpen(orders[k])
    <2>1. UNCHANGED vars
      BY <1>4 DEF CancelTracked
    <2> QED
      BY <1>2, <2>1, AgedQuiet
  <1>5. CASE LooksOpen(orders[k])
    <2>1. k \in 1 .. Len(orders)
      BY <1>3 DEF Tracking
    <2>2. PICK o : o = orders[k] /\ o \in Pool!InUse /\ Harmless(o) /\ CancelOrder(o)
      BY <1>3, <1>5, <2>1, CancelsAreHarmless DEF CancelTracked
    <2>3. /\ is_free' = is_free \cup {o} /\ word' = [word EXCEPT ![o] = next_free_index]
          /\ pc' = "idle"
      BY <1>3, <2>2 DEF CancelOrder, Free, Pool!Deallocate, callVars
    <2>4. (Pool!InUse)' = Pool!InUse \ {o}
      BY <2>3 DEF Pool!InUse
    <2>5. \A y \in Pool!InUse : y # o => word'[y] = word[y]
      BY <1>3, <2>2, <2>3, ShareTypes DEF Pool!InUse
    <2>6. ~RestRemainder
      BY <1>3 DEF RestRemainder
    <2>7. \A s \in Sides, p \in Prices : LineMoves(s, p)
      BY <1>3, <2>2, CancelLines
    <2>8. \A s \in Sides, p \in Prices : Ascending(Line(s, p))'
      BY <1>3, <2>4, <2>5, <2>6, <2>7, LinesStayAged
    <2> QED
      BY <1>2, <1>3, <2>3, <2>4, <2>5, <2>8 DEF Aged, Ascending
  <1> QED
    BY <1>4, <1>5

\* All steps of main().
LEMMA AgedNext ==
    ASSUME EInv, BInv', [MainNext]_allVars
    PROVE  Aged'
  <1>1. ASSUME UNCHANGED vars, Issued' = Issued
        PROVE  Aged'
    <2>1. Issued \in Nat
      BY Ranges DEF EInv, Drawing, Issued
    <2> QED
      BY <1>1, <2>1, AgedQuiet
  <1>2. CASE DrawId
    <2>1. UNCHANGED vars /\ phase = "id" /\ phase' = "size" /\ current_id' = current_id + 1
      BY <1>2 DEF DrawId, Goes, get_next_order_id
    <2>2. Issued' = Issued
      BY <2>1, Ranges DEF EInv, Drawing, Issued
    <2> QED
      BY <1>1, <2>1, <2>2
  <1>3. CASE DrawSize \/ DrawPrice
    <2>1. /\ UNCHANGED vars /\ current_id' = current_id
          /\ phase \in {"size", "price"} /\ phase' \in {"price", "add"}
      BY <1>3 DEF DrawSize, DrawPrice, Goes, generate_random_size, generate_random_price,
                  StayClose, StartAfresh, Settle
    <2>2. Issued' = Issued
      BY <2>1 DEF Issued
    <2> QED
      BY <1>1, <2>1, <2>2
  <1>4. CASE Track \/ NoCancel \/ CleanUp \/ Finish
    <2>1. /\ UNCHANGED vars /\ current_id' = current_id
          /\ phase \in {"adding", "cancel", "clean", "id"} /\ phase' \in {"cancel", "clean", "id", "done"}
      BY <1>4 DEF Track, NoCancel, CleanUp, Finish, Goes, genVars
    <2>2. Issued' = Issued
      BY <2>1 DEF Issued
    <2> QED
      BY <1>1, <2>1, <2>2
  <1>5. CASE Terminated \/ UNCHANGED allVars
    <2>1. UNCHANGED vars /\ UNCHANGED <<phase, current_id>>
      BY <1>5 DEF Terminated, allVars, mainVars, genVars
    <2>2. Issued' = Issued
      BY <2>1 DEF Issued
    <2> QED
      BY <1>1, <2>1, <2>2
  <1> QED
    BY <1>2, <1>3, <1>4, <1>5, CallAddOrderAged, InAddOrderAged, CancelTrackedAged
       DEF MainNext, Main

----------------------------------------------------------------------------
(* The invariant of the loop, and what it says.                            *)

\* Before the loop.
LEMMA InitEInv == MainInit => EInv
  <1> SUFFICES ASSUME MainInit PROVE EInv
    OBVIOUS
  <1>1. BInv
    BY InitBInv DEF MainInit
  <1>2. /\ phase = "id" /\ i = 0 /\ returned = NULL /\ orders = << >> /\ pc = "idle"
        /\ current_id = 1 /\ last_price = StartPrice /\ size = 0
    BY DEF MainInit, Init, GenInit
  <1>3. Pool!InUse = {} /\ levels = [s \in Sides |-> [p \in {} |-> EmptyQueue]]
    BY DEF MainInit, Init, Pool!Init, Pool!InUse
  <1>4. Drawing
    <2>1. StartPrice \in MinPrice .. MaxLast + MaxOffset + Tick
      BY Ranges, ParametersAssumption
    <2> QED
      BY <1>2, <2>1, Ranges DEF Drawing
  <1>5. Tracking
    <2>1. Resting = {}
      BY <1>3 DEF Resting
    <2>2. Tracked = {} /\ Len(orders) = 0 /\ orders \in Seq(Pool!Slots)
      BY <1>2 DEF Tracked
    <2> QED
      BY <1>2, <2>1, <2>2 DEF Tracking
  <1>6. Aged
    <2>1. \A s \in Sides, p \in Prices : Line(s, p) = << >>
      BY <1>3 DEF Line, HasLevel
    <2> QED
      BY <1>2, <1>3, <2>1 DEF Aged
  <1> QED
    BY <1>1, <1>4, <1>5, <1>6 DEF EInv

\* One iteration, step by step.
LEMMA NextEInv == EInv /\ [MainNext]_allVars => EInv'
  <1> SUFFICES ASSUME EInv, [MainNext]_allVars PROVE EInv'
    OBVIOUS
  <1>1. BInv'
    BY MainIsCareful, NextBInv DEF EInv
  <1> QED
    BY <1>1, DrawingNext, TrackingNext, AgedNext DEF EInv

\* The invariant of all the theorems below.
LEMMA AlwaysEInv == MainSpec => []EInv
  BY InitEInv, NextEInv, PTL DEF MainSpec

(***************************************************************************)
(* The pool, the book, the generator and the variables of main() keep      *)
(* their types: the vector holds pointers into the pool only, and every    *)
(* order that main() submits is one the book takes.                        *)
(***************************************************************************)
THEOREM MainTypes == MainSpec => []MainTypeOK
  <1>1. EInv => MainTypeOK
    <2> SUFFICES ASSUME EInv PROVE MainTypeOK
      OBVIOUS
    <2>1. TypeOK
      BY PoolFacts DEF EInv, BInv, IInv, Shape, TypeOK
    <2>2. GenTypeOK
      BY DrawingTypes DEF EInv
    <2>3. \A k \in DOMAIN orders : orders[k] \in Pool!Slots
      BY DEF EInv, Tracking
    <2> QED
      BY <2>1, <2>2, <2>3 DEF MainTypeOK, EInv, Drawing, Tracking
  <1> QED
    BY <1>1, AlwaysEInv, PTL

(***************************************************************************)
(* At the top of the loop the vector holds every order on the book, once,  *)
(* and nothing else: no pointer to a freed order survives an iteration.    *)
(***************************************************************************)
THEOREM TrackingCorrect == MainSpec => []TrackedAreResting
  <1>1. EInv => TrackedAreResting
    <2> SUFFICES ASSUME EInv, phase = "id"
                 PROVE  /\ {orders[k] : k \in DOMAIN orders} = OnBook
                        /\ \A k, l \in DOMAIN orders : orders[k] = orders[l] => k = l
      BY DEF TrackedAreResting
    <2>1. Tracking /\ DOMAIN orders = 1 .. Len(orders)
      BY DEF EInv, Tracking
    <2>2. Tracked = OnBook
      BY <2>1, OnBookIsResting DEF EInv, Tracking
    <2> QED
      BY <2>1, <2>2 DEF Tracking, Tracked
  <1> QED
    BY <1>1, AlwaysEInv, PTL

(***************************************************************************)
(* main() cancels only orders that are on the book at that moment.  The    *)
(* size it reads through a pointer may be that of a freed order, but then  *)
(* it reads zero: an order is freed only when nothing of it is left or by  *)
(* the cancel that drops its pointer.  This is what makes main() safe      *)
(* although the book would let it cancel an order that was filled.         *)
(***************************************************************************)
THEOREM CancelsResting == MainSpec => CancelsOnlyResting
  <1>1. ASSUME EInv, NEW k \in DOMAIN orders, CancelTracked(k), vars' # vars
        PROVE  orders[k] \in OnBook
    <2>1. LooksOpen(orders[k])
      BY <1>1 DEF CancelTracked
    <2>2. k \in 1 .. Len(orders)
      BY <1>1 DEF EInv, Tracking
    <2>3. orders[k] \in Resting
      BY <1>1, <2>1, <2>2, CancelsAreHarmless DEF EInv
    <2> QED
      BY <1>1, <2>3, OnBookIsResting DEF EInv
  <1>2. EInv => [\A k \in DOMAIN orders :
                    CancelTracked(k) /\ vars' # vars => orders[k] \in OnBook]_allVars
    BY <1>1
  <1> QED
    BY <1>2, AlwaysEInv, PTL DEF CancelsOnlyResting

(***************************************************************************)
(* A run of at most pool_size orders never has one refused: an id marks    *)
(* every slot in use, and only so many ids were given out.                 *)
(***************************************************************************)
THEOREM PoolIsEnough == MainSpec => []PoolSuffices
  <1>1. EInv => PoolSuffices
    <2> SUFFICES ASSUME EInv, phase = "id", i < PoolSize, Pool!Exhausted PROVE FALSE
      BY DEF PoolSuffices
    <2>1. i \in Nat /\ Issued = i
      BY Ranges DEF EInv, Drawing, Issued
    <2>2. Pool!InUse = Pool!Slots
      BY PP!FullIffExhausted, PoolSizeAssumption, OrderIdsAssumption, SizesAssumption
         DEF EInv, BInv, PP!ExhaustedIffFull, PP!Exhausted, Pool!Exhausted, PP!InUse, PP!Slots,
             Pool!InUse, Pool!Slots
    <2>3. word \in [Pool!Slots -> 1 .. i]
      <3>1. \A o \in Pool!Slots : word[o] \in 1 .. i
        BY <2>1, <2>2 DEF EInv, Aged
      <3> QED
        BY <3>1, ShareTypes DEF EInv
    <2>4. /\ IsFiniteSet(Pool!Slots) /\ Cardinality(Pool!Slots) = PoolSize
          /\ IsFiniteSet(1 .. i) /\ Cardinality(1 .. i) = i
      BY <2>1, FS_Interval, PoolSizeAssumption DEF Pool!Slots
    <2>5. \E x, y \in Pool!Slots : x # y /\ word[x] = word[y]
      BY <2>3, <2>4, FS_PigeonHole
    <2> QED
      BY <2>2, <2>5 DEF EInv, Aged
  <1> QED
    BY <1>1, AlwaysEInv, PTL

(***************************************************************************)
(* No two live orders share an id and ids ascend along every level, though *)
(* the pool writes its links over the ids of the orders that are freed: a  *)
(* taker meets the oldest order of a price first.                          *)
(***************************************************************************)
THEOREM AgeOrder == MainSpec => []QueuedByAge
  <1>1. EInv => QueuedByAge
    <2> SUFFICES ASSUME EInv PROVE QueuedByAge
      OBVIOUS
    <2>1. \A o \in Pool!InUse : word[o] < current_id
      <3>1. Issued < current_id /\ Issued \in Int /\ current_id \in Int
        BY Ranges DEF EInv, Drawing, Issued
      <3> QED
        BY <3>1 DEF EInv, Aged
    <2>2. ASSUME NEW s \in Sides, NEW p \in DOMAIN levels[s]
          PROVE  \A k, l \in DOMAIN Walk(levels[s][p], node) :
                    k < l => word[Walk(levels[s][p], node)[k]] < word[Walk(levels[s][p], node)[l]]
      <3>1. p \in Prices /\ Line(s, p) = Walk(levels[s][p], node)
        BY DEF EInv, BInv, IInv, Shape, BookTypeOK, Line, HasLevel
      <3>2. DOMAIN Line(s, p) = 1 .. Len(Line(s, p))
        BY <3>1, LineFacts DEF EInv
      <3> QED
        BY <3>1, <3>2 DEF EInv, Aged
    <2> QED
      BY <2>1, <2>2 DEF QueuedByAge, EInv, Aged
  <1> QED
    BY <1>1, AlwaysEInv, PTL

(***************************************************************************)
(* Under main() the levels of the book stay intact and uncrossed and lose  *)
(* no order, whatever the book would let other callers cancel.             *)
(***************************************************************************)
THEOREM MainKeepsBookIntact == MainSpec => [](BookIntact /\ NoOrderLost /\ NotCrossed)
  <1>1. EInv => BookIntact /\ NoOrderLost /\ NotCrossed
    BY LevelsAreIntact, OrdersAreFindable DEF EInv, BInv, IInv
  <1> QED
    BY <1>1, AlwaysEInv, PTL

(***************************************************************************)
(* What main() observes of the book is the matching of MatchingEngine,     *)
(* with price and time priority, without the assumption on callers that    *)
(* the book alone needs: main() meets it.                                  *)
(***************************************************************************)
THEOREM MainSeesMatching == MainSpec => ImplementsMatchingEngine
  <1>1. MainInit => MInv /\ Engine!Init
    BY InitMInv, InitIsEngineInit DEF MainInit
  <1>2. EInv /\ MInv /\ [MainNext]_allVars => MInv'
    BY MainIsCareful, NextMInv
  <1>3. EInv /\ MInv /\ [MainNext]_allVars => Engine!Next \/ UNCHANGED <<Queues, Processed>>
    BY MainIsCareful, StepsAreEngineSteps
  <1>4. UNCHANGED <<Queues, Processed>> => UNCHANGED Engine!vars
    BY DEF Engine!vars
  <1>5. EInv /\ MInv /\ [MainNext]_allVars => [Engine!Next]_(Engine!vars)
    BY <1>3, <1>4
  <1> QED
    BY <1>1, <1>2, <1>5, AlwaysEInv, PTL DEF MainSpec, ImplementsMatchingEngine, Engine!Spec
=============================================================================
