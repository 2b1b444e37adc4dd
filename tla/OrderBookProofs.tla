-------------------------- MODULE OrderBookProofs --------------------------
(***************************************************************************)
(* The book is never crossed, for every pool size and every set of prices  *)
(* and sizes.  The argument does not need the links of the levels to be    *)
(* right, only that the maps, the counters and the locals of a call are    *)
(* well formed (Shape), and that a matcher which returns with shares left  *)
(* has seen that nothing on the other side crosses (NothingCrosses).       *)
(***************************************************************************)
EXTENDS DepthReport, QueueLemmas

\* The part of TypeOK that is inductive without the correctness of the free
\* list, and the facts that keep the counters of the levels from wrapping.
Shape ==
    /\ word \in [Pool!Slots -> Nat]
    /\ shares \in [Pool!Slots -> 0 .. MaxSize]
    /\ next_free_index \in Nat
    /\ BookTypeOK
    /\ pc = "idle" => total_matched = 0
    /\ pc = "close" => Level.head # NULL
    /\ \A s \in Sides : \A p \in DOMAIN levels[s] : empty(levels[s][p]) => Working(s, p)

\* What the taker's remainder relies on when it comes to rest.
NothingCrosses ==
    pc = "return" /\ total_matched < taker.size =>
        \A p \in DOMAIN levels[Opposite(taker.side)] :
            IF taker.side = "bid" THEN taker.price < p ELSE p < taker.price

IInv == Shape /\ NothingCrosses /\ NotCrossed

----------------------------------------------------------------------------
\* A map that has a level has a last one, as prices are bounded.
LEMMA HasLast ==
    ASSUME NEW S, S \subseteq 0 .. MaxPrice, S # {}
    PROVE  \E p \in S : \A x \in S : p >= x
  <1> DEFINE T == {MaxPrice - x : x \in S}
  <1>0. \A x \in S : MaxPrice - x \in Nat
    BY PricesAssumption
  <1>1. T \subseteq Nat /\ T # {}
    BY <1>0
  <1>2. PICK t \in T : \A y \in T : t <= y
    BY <1>1, HasFirst
  <1>3. PICK p \in S : t = MaxPrice - p
    BY <1>2
  <1>4. \A x \in S : MaxPrice - p <= MaxPrice - x
    BY <1>2, <1>3
  <1> QED
    BY <1>4, PricesAssumption

\* The operations of a level keep its pointers and counter in range.
LEMMA AppendType ==
    ASSUME NEW q \in PriceLevels, NEW nd \in [Pool!Slots -> Links], NEW o \in Pool!Slots
    PROVE  /\ append(q, nd, o).q \in PriceLevels
           /\ append(q, nd, o).q.size # 0
           /\ append(q, nd, o).node \in [Pool!Slots -> Links]
  <1>1. CASE q.head = NULL
    BY <1>1 DEF append, PriceLevels, QueuesOf, Links, NodesOf, NullNode
  <1>2. CASE q.head # NULL
    <2>1. [nd EXCEPT ![q.tail].next = o, ![o] = [next |-> NULL, prev |-> q.tail]]
             \in [Pool!Slots -> Links]
      BY DEF PriceLevels, QueuesOf, Links, NodesOf
    <2> QED
      BY <1>2, <2>1 DEF append, PriceLevels, QueuesOf
  <1> QED
    BY <1>1, <1>2

\* remove() keeps the types of queue and links.
LEMMA RemoveType ==
    ASSUME NEW q \in PriceLevels, NEW nd \in [Pool!Slots -> Links], NEW o \in Pool!Slots,
           ~empty(q)
    PROVE  /\ remove(q, nd, o).q \in PriceLevels
           /\ remove(q, nd, o).node \in [Pool!Slots -> Links]
  <1>1. nd[o] \in Links
    OBVIOUS
  <1> QED
    BY <1>1 DEF remove, Bypass, PriceLevels, QueuesOf, Links, NodesOf, NullNode, empty

\* What Shape says of the level matchAtLevel() works at.
LEMMA LevelFacts ==
    ASSUME Shape
    PROVE  /\ taker.side \in Sides /\ Opposite(taker.side) \in Sides
           /\ pc \in {"level", "close"} =>
                /\ it \in DOMAIN levels[Opposite(taker.side)] /\ it \in Prices
                /\ Level \in PriceLevels
           /\ pc = "close" => ~empty(Level) /\ Level.head \in Pool!Slots
  <1>1. taker.side \in Sides /\ Opposite(taker.side) \in Sides
    BY DEF Shape, BookTypeOK, Takers, Opposite, Sides
  <1>2. pc \in {"level", "close"} =>
           /\ it \in DOMAIN levels[Opposite(taker.side)] /\ it \in Prices
           /\ Level \in PriceLevels
    BY <1>1 DEF Shape, BookTypeOK, HasLevel, Level
  <1>3. pc = "close" => ~empty(Level)
    BY <1>1, <1>2 DEF Shape, Working, Level
  <1> QED
    BY <1>1, <1>2, <1>3 DEF Shape, PriceLevels, QueuesOf

\* An empty book.
LEMMA InitIInv == Init => IInv
  <1> SUFFICES ASSUME Init PROVE IInv
    OBVIOUS
  <1>1. Shape
    <2>1. levels = [s \in Sides |-> [p \in {} |-> EmptyQueue]]
      BY DEF Init
    <2>2. \A s \in Sides : DOMAIN levels[s] = {} /\ levels[s] \in [DOMAIN levels[s] -> PriceLevels]
      BY <2>1
    <2>3. levels = [s \in Sides |-> levels[s]]
      BY <2>1
    <2>4. BookTypeOK
      BY <2>2, <2>3, SizesAssumption
         DEF Init, BookTypeOK, NoTaker, NoTerms, NullNode, Links, NodesOf, Takers, Sides, Types
    <2>5. word \in [Pool!Slots -> Nat] /\ shares \in [Pool!Slots -> 0 .. MaxSize] /\ next_free_index \in Nat
      BY PoolSizeAssumption, SizesAssumption DEF Init, Pool!Init, Pool!Slots
    <2> QED
      BY <2>2, <2>4, <2>5 DEF Shape, Init
  <1>2. NothingCrosses
    BY DEF Init, NothingCrosses
  <1>3. NotCrossed
    BY DEF Init, NotCrossed, Sides
  <1> QED
    BY <1>1, <1>2, <1>3 DEF IInv

\* The book, the links and the pool stand still.
LEMMA AddOrderFailsIInv == IInv /\ UNCHANGED vars => IInv'
  BY DEF IInv, Shape, BookTypeOK, NothingCrosses, NotCrossed, Level, Working, HasLevel,
         vars, poolVars, callVars

\* A call that begins changes no level.
LEMMA AddOrderIInv ==
    ASSUME IInv, NEW id \in OrderIds, NEW size \in Sizes, NEW price \in Prices,
           NEW side \in Sides, NEW type \in Types, AddOrder(id, size, price, side, type)
    PROVE  IInv'
  <1>1. next_free_index \in Pool!Slots
    BY PoolSizeAssumption
       DEF AddOrder, Pool!Allocate, Pool!Exhausted, Pool!Slots, IInv, Shape
  <1>2. /\ word' \in [Pool!Slots -> Nat]
        /\ shares' \in [Pool!Slots -> 0 .. MaxSize]
        /\ next_free_index' \in Nat
    BY <1>1, OrderIdsAssumption, SizesAssumption 
       DEF AddOrder, Pool!Allocate, Pool!next_free_of, IInv, Shape
  <1>3. taker' \in Takers /\ taker'.price \in Prices /\ taker'.size \in Nat
    BY <1>1, SizesAssumption DEF AddOrder, Takers
  <1>4. pc = "idle" /\ pc' = "match" /\ total_matched' = total_matched /\ it' = it /\ levels' = levels
    BY DEF AddOrder
  <1>5. total_matched = 0
    BY <1>4 DEF IInv, Shape
  <1>6. BookTypeOK'
    BY <1>1, <1>3, <1>4, <1>5 DEF AddOrder, IInv, Shape, BookTypeOK, Links, NodesOf, NullNode
  <1>7. \A s \in Sides : \A p \in DOMAIN levels'[s] : ~empty(levels'[s][p])
    BY <1>4 DEF IInv, Shape, Working
  <1> QED
    BY <1>2, <1>4, <1>6, <1>7 DEF IInv, Shape, NothingCrosses, NotCrossed

\* Nor does one of the matchers' own.
LEMMA MatchOrderIInv ==
    ASSUME IInv, NEW size \in Sizes, NEW price \in Prices,
           NEW side \in Sides, NEW type \in Types, MatchOrder(size, price, side, type)
    PROVE  IInv'
  <1>1. taker' \in Takers /\ taker'.price \in Prices /\ taker'.size \in Nat
    BY SizesAssumption DEF MatchOrder, Takers
  <1>2. /\ pc = "idle" /\ pc' = "match" /\ total_matched' = 0 /\ it' = it
        /\ levels' = levels /\ UNCHANGED <<poolVars, terms, node>>
    BY DEF MatchOrder, IInv, Shape
  <1>3. BookTypeOK'
    BY <1>1, <1>2 DEF IInv, Shape, BookTypeOK
  <1>4. \A s \in Sides : \A p \in DOMAIN levels'[s] : ~empty(levels'[s][p])
    BY <1>2 DEF IInv, Shape, Working
  <1> QED
    BY <1>2, <1>3, <1>4 DEF IInv, Shape, NothingCrosses, NotCrossed, poolVars

\* The matcher enters the best level of the other side, which crosses.
LEMMA EnterLevelIInv ==
    ASSUME IInv, EnterLevel
    PROVE  IInv'
  <1>1. /\ pc = "match" /\ pc' = "level" /\ it' \in DOMAIN levels[Opposite(taker.side)]
        /\ UNCHANGED <<poolVars, terms, node, levels, taker, total_matched>>
    BY DEF EnterLevel
  <1>2. it' \in Prices
    BY <1>1, LevelFacts DEF IInv, Shape, BookTypeOK
  <1>3. BookTypeOK'
    BY <1>1, <1>2 DEF IInv, Shape, BookTypeOK, HasLevel
  <1>4. \A s \in Sides : \A p \in DOMAIN levels'[s] : ~empty(levels'[s][p])
    BY <1>1 DEF IInv, Shape, Working
  <1> QED
    BY <1>1, <1>3, <1>4 DEF IInv, Shape, NothingCrosses, NotCrossed, poolVars

\* The best price does not cross, so none does.
LEMMA StopMatchingIInv ==
    ASSUME IInv, StopMatching
    PROVE  IInv'
  <1>1. /\ pc = "match" /\ pc' = "return"
        /\ UNCHANGED <<poolVars, terms, node, levels, taker, total_matched, it>>
    BY DEF StopMatching
  <1>2. BookTypeOK'
    BY <1>1 DEF IInv, Shape, BookTypeOK, HasLevel
  <1>3. \A s \in Sides : \A p \in DOMAIN levels'[s] : ~empty(levels'[s][p])
    BY <1>1 DEF IInv, Shape, Working
  <1> DEFINE S == DOMAIN levels[Opposite(taker.side)]
  <1>4. S \subseteq 0 .. MaxPrice /\ S \subseteq Nat /\ taker.price \in Nat
    BY <1>1, LevelFacts, PricesAssumption DEF IInv, Shape, BookTypeOK
  <1>5. ASSUME total_matched < taker.size
        PROVE  \A p \in S : IF taker.side = "bid" THEN taker.price < p ELSE p < taker.price
    <2>1. \A p \in S : IsBest(Opposite(taker.side), p) => ~Crosses(p)
      <3>1. total_matched \in Nat /\ taker.size \in Nat
        BY SizesAssumption DEF IInv, Shape, BookTypeOK, Takers
      <3> QED
        BY <1>5, <3>1 DEF StopMatching
    <2>2. CASE taker.side = "bid"
      <3> SUFFICES ASSUME NEW p \in S PROVE taker.price < p
        BY <2>2
      <3>1. PICK b \in S : \A x \in S : b <= x
        <4> HIDE DEF S
        <4> QED
          BY <1>4, HasFirst
      <3>2. IsBest(Opposite(taker.side), b)
        BY <2>2, <3>1 DEF IsBest, BestFirst, HasLevel, Opposite
      <3>3. taker.price < b
        BY <1>4, <2>1, <2>2, <3>1, <3>2 DEF Crosses
      <3> QED
        BY <1>4, <3>1, <3>3
    <2>3. CASE taker.side # "bid"
      <3> SUFFICES ASSUME NEW p \in S PROVE p < taker.price
        BY <2>3
      <3>1. PICK b \in S : \A x \in S : b >= x
        <4> HIDE DEF S
        <4> QED
          BY <1>4, HasLast
      <3>2. IsBest(Opposite(taker.side), b)
        BY <2>3, <3>1 DEF IsBest, BestFirst, HasLevel, Opposite
      <3>3. b < taker.price
        BY <1>4, <2>1, <2>3, <3>1, <3>2 DEF Crosses
      <3> QED
        BY <1>4, <3>1, <3>3
    <2> QED
      BY <2>2, <2>3
  <1>6. NothingCrosses'
    BY <1>1, <1>5 DEF NothingCrosses
  <1> QED
    BY <1>1, <1>2, <1>3, <1>6 DEF IInv, Shape, NotCrossed, poolVars

\* Taking shares changes no price.
LEMMA MatchHeadIInv ==
    ASSUME IInv, MatchHead
    PROVE  IInv'
  <1> DEFINE o == peek(Level)
             d == decreaseSize(shares[o], taker.size - total_matched)
  <1>1. /\ pc = "level" /\ o # NULL /\ ~empty(Level) /\ total_matched < taker.size
        /\ shares' = [shares EXCEPT ![o] = d.left]
        /\ total_matched' = total_matched + d.removed
        /\ pc' = IF d.left = 0 THEN "close" ELSE "level"
        /\ UNCHANGED <<is_free, word, next_free_index, terms, node, levels, taker, it>>
    BY DEF MatchHead, Missing
  <1>2. o \in Pool!Slots
    BY <1>1, LevelFacts DEF IInv, peek, PriceLevels, QueuesOf
  <1>3. shares[o] \in 0 .. MaxSize /\ total_matched \in Nat /\ taker.size \in Nat
    BY <1>2, SizesAssumption DEF IInv, Shape, BookTypeOK, Takers
  <1>4. /\ d.left \in 0 .. MaxSize /\ d.removed \in Nat
        /\ total_matched + d.removed \in 0 .. taker.size
    BY <1>1, <1>3, SizesAssumption DEF decreaseSize
  <1> HIDE DEF d
  <1>5. shares' \in [Pool!Slots -> 0 .. MaxSize]
    BY <1>1, <1>4 DEF IInv, Shape
  <1>6. Level' = Level
    BY <1>1 DEF Level
  <1>7. BookTypeOK'
    BY <1>1, <1>4 DEF IInv, Shape, BookTypeOK, HasLevel
  <1>8. pc' = "close" => Level'.head # NULL
    BY <1>1, <1>6 DEF peek
  <1>9. \A s \in Sides : \A p \in DOMAIN levels'[s] : ~empty(levels'[s][p])
    BY <1>1 DEF IInv, Shape, Working, Level
  <1> QED
    BY <1>1, <1>5, <1>7, <1>8, <1>9 DEF IInv, Shape, NothingCrosses, NotCrossed

\* deallocate() keeps the pool's part of Shape.
LEMMA FreeShape ==
    ASSUME IInv, NEW o \in Pool!Slots, Free(o)
    PROVE  /\ word' \in [Pool!Slots -> Nat]
           /\ shares' \in [Pool!Slots -> 0 .. MaxSize]
           /\ next_free_index' \in Nat
           /\ terms' \in [Pool!Slots -> [price : Prices \cup {0}, side : Sides]]
  <1>1. o \in Nat
    BY PoolSizeAssumption DEF Pool!Slots
  <1> QED
    BY <1>1 DEF Free, Pool!Deallocate, IInv, Shape, BookTypeOK, NoTerms, Sides

\* A level changes in place: the prices of the book stay.
LEMMA CloseHeadIInv ==
    ASSUME IInv, CloseHead
    PROVE  IInv'
  <1> DEFINE s == Opposite(taker.side)
             r == remove(Level, node, Level.head)
  <1>1. /\ pc = "close" /\ pc' = "level" /\ UNCHANGED <<taker, total_matched, it>>
        /\ levels' = SetLevel(s, it, r.q) /\ node' = r.node /\ Free(Level.head)
    BY DEF CloseHead, HeadRemoved, peek
  <1>2. /\ s \in Sides /\ it \in DOMAIN levels[s] /\ it \in Prices
        /\ Level \in PriceLevels /\ ~empty(Level) /\ Level.head \in Pool!Slots
    BY <1>1, LevelFacts DEF IInv
  <1>3. r.q \in PriceLevels /\ r.node \in [Pool!Slots -> Links]
    BY <1>2, RemoveType DEF IInv, Shape, BookTypeOK
  <1> HIDE DEF r, s
  <1>4. /\ levels' = [t \in Sides |-> levels'[t]]
        /\ \A t \in Sides \ {s} : levels'[t] = levels[t]
        /\ levels'[s] = [x \in DOMAIN levels[s] |-> IF x = it THEN r.q ELSE levels[s][x]]
    <2>1. DOMAIN levels[s] \cup {it} = DOMAIN levels[s]
      BY <1>2
    <2> QED
      BY <1>1, <1>2, <2>1 DEF SetLevel, IInv, Shape, BookTypeOK
  <1>5. \A t \in Sides : DOMAIN levels'[t] = DOMAIN levels[t]
    BY <1>2, <1>4
  <1>6. ASSUME NEW t \in Sides
        PROVE  levels'[t] \in [DOMAIN levels'[t] -> PriceLevels]
    <2>1. CASE t = s
      BY <1>2, <1>3, <1>4, <2>1 DEF IInv, Shape, BookTypeOK
    <2>2. CASE t # s
      BY <1>4, <2>2 DEF IInv, Shape, BookTypeOK
    <2> QED
      BY <2>1, <2>2
  <1>7. BookTypeOK'
    <2>1. HasLevel(Opposite(taker.side), it)'
      BY <1>1, <1>2, <1>5 DEF HasLevel, s
    <2> QED
      BY <1>1, <1>2, <1>3, <1>4, <1>5, <1>6, <2>1, FreeShape DEF IInv, Shape, BookTypeOK
  <1>8. ASSUME NEW t \in Sides, NEW p \in DOMAIN levels'[t], empty(levels'[t][p])
        PROVE  Working(t, p)'
    <2>1. CASE t = s /\ p = it
      BY <1>1, <2>1 DEF Working, s
    <2>2. CASE ~(t = s /\ p = it)
      <3>1. levels'[t][p] = levels[t][p] /\ p \in DOMAIN levels[t]
        BY <1>2, <1>4, <1>5, <2>2
      <3> QED
        BY <1>1, <1>8, <3>1 DEF IInv, Shape, Working
    <2> QED
      BY <2>1, <2>2
  <1>9. NotCrossed'
    BY <1>5 DEF IInv, NotCrossed, Sides
  <1> QED
    BY <1>1, <1>2, <1>7, <1>8, <1>9, FreeShape DEF IInv, Shape, NothingCrosses

\* A level that goes cannot make the book cross.
LEMMA LevelTakenIInv ==
    ASSUME IInv, LevelTaken
    PROVE  IInv'
  <1> DEFINE s == Opposite(taker.side)
  <1>1. /\ pc = "level" /\ pc' = "match" /\ it' = 0 /\ levels' = EraseLevel(s, it)
        /\ UNCHANGED <<poolVars, terms, node, taker, total_matched>>
    BY DEF LevelTaken
  <1>2. s \in Sides
    BY LevelFacts DEF IInv
  <1>3. /\ levels' = [t \in Sides |-> levels'[t]]
        /\ \A t \in Sides \ {s} : levels'[t] = levels[t]
        /\ levels'[s] = [x \in DOMAIN levels[s] \ {it} |-> levels[s][x]]
    BY <1>1, <1>2 DEF EraseLevel, IInv, Shape, BookTypeOK
  <1> HIDE DEF s
  <1>4. \A t \in Sides : \A p \in DOMAIN levels'[t] :
           /\ p \in DOMAIN levels[t] /\ levels'[t][p] = levels[t][p]
           /\ ~(t = s /\ p = it)
    BY <1>2, <1>3
  <1>5. ASSUME NEW t \in Sides
        PROVE  /\ DOMAIN levels'[t] \subseteq Prices
               /\ levels'[t] \in [DOMAIN levels'[t] -> PriceLevels]
    BY <1>2, <1>3 DEF IInv, Shape, BookTypeOK
  <1>6. BookTypeOK'
    BY <1>1, <1>3, <1>5 DEF IInv, Shape, BookTypeOK
  <1>7. \A t \in Sides : \A p \in DOMAIN levels'[t] : ~empty(levels'[t][p])
    BY <1>4 DEF IInv, Shape, Working, s
  <1>8. NotCrossed'
    BY <1>4 DEF IInv, NotCrossed, Sides
  <1> QED
    BY <1>1, <1>6, <1>7, <1>8 DEF IInv, Shape, NothingCrosses, poolVars

\* Where the size is used up nothing will rest.
LEMMA LevelLeftIInv ==
    ASSUME IInv, LevelLeft
    PROVE  IInv'
  <1>1. /\ pc = "level" /\ pc' = "return" /\ ~empty(Level) /\ total_matched >= taker.size
        /\ UNCHANGED <<poolVars, terms, node, levels, taker, total_matched, it>>
    BY DEF LevelLeft
  <1>2. BookTypeOK'
    BY <1>1 DEF IInv, Shape, BookTypeOK
  <1>3. \A s \in Sides : \A p \in DOMAIN levels'[s] : ~empty(levels'[s][p])
    BY <1>1 DEF IInv, Shape, Working, Level
  <1>4. NothingCrosses'
    <2>1. total_matched \in Nat /\ taker.size \in Nat
      BY SizesAssumption DEF IInv, Shape, BookTypeOK, Takers
    <2> QED
      BY <1>1, <2>1 DEF NothingCrosses
  <1> QED
    BY <1>1, <1>2, <1>3, <1>4 DEF IInv, Shape, NotCrossed, poolVars

\* The remainder of the taker adds a price that nothing opposite crosses.
LEMMA RestRemainderIInv ==
    ASSUME IInv, RestRemainder
    PROVE  IInv'
  <1> DEFINE s == taker.side
             p == taker.price
             q == IF HasLevel(s, p) THEN levels[s][p] ELSE EmptyQueue
             r == append(q, node, taker.order)
  <1>1. /\ pc = "return" /\ pc' = "idle" /\ taker.order # NULL /\ total_matched < taker.size
        /\ levels' = SetLevel(s, p, r.q) /\ node' = r.node
        /\ DecreaseTaker /\ taker' = NoTaker /\ total_matched' = 0 /\ it' = 0
        /\ UNCHANGED <<is_free, word, next_free_index, terms>>
    BY DEF RestRemainder, LevelAt, Return
  <1>2. s \in Sides /\ p \in Prices /\ taker.order \in Pool!Slots
    BY <1>1 DEF IInv, Shape, BookTypeOK, Takers
  <1>3. q \in PriceLevels
    BY <1>2 DEF IInv, Shape, BookTypeOK, HasLevel, EmptyQueue, PriceLevels, QueuesOf
  <1>4. r.q \in PriceLevels /\ r.q.size # 0 /\ r.node \in [Pool!Slots -> Links]
    BY <1>2, <1>3, AppendType DEF IInv, Shape, BookTypeOK
  <1> HIDE DEF r, q
  <1>5. /\ levels' = [t \in Sides |-> levels'[t]]
        /\ \A t \in Sides \ {s} : levels'[t] = levels[t]
        /\ levels'[s] = [x \in DOMAIN levels[s] \cup {p} |-> IF x = p THEN r.q ELSE levels[s][x]]
    BY <1>1, <1>2 DEF SetLevel, IInv, Shape, BookTypeOK
  <1>6. ASSUME NEW t \in Sides
        PROVE  /\ DOMAIN levels'[t] \subseteq Prices
               /\ levels'[t] \in [DOMAIN levels'[t] -> PriceLevels]
    <2>1. CASE t = s
      BY <1>2, <1>4, <1>5, <2>1 DEF IInv, Shape, BookTypeOK
    <2>2. CASE t # s
      BY <1>5, <2>2 DEF IInv, Shape, BookTypeOK
    <2> QED
      BY <2>1, <2>2
  <1>7. shares' \in [Pool!Slots -> 0 .. MaxSize]
    <2>1. shares[taker.order] \in 0 .. MaxSize /\ total_matched \in Nat
      BY <1>2, SizesAssumption DEF IInv, Shape, BookTypeOK, Takers
    <2>2. decreaseSize(shares[taker.order], total_matched).left \in 0 .. MaxSize
      BY <2>1, SizesAssumption DEF decreaseSize
    <2> QED
      BY <1>1, <2>2 DEF DecreaseTaker, IInv, Shape
  <1>8. BookTypeOK'
    BY <1>1, <1>4, <1>5, <1>6, SizesAssumption
       DEF IInv, Shape, BookTypeOK, NoTaker, Takers, Sides, Types
  <1>9. ASSUME NEW t \in Sides, NEW x \in DOMAIN levels'[t]
        PROVE  ~empty(levels'[t][x])
    <2>1. CASE t = s /\ x = p
      BY <1>2, <1>4, <1>5, <2>1 DEF empty
    <2>2. CASE ~(t = s /\ x = p)
      <3>1. x \in DOMAIN levels[t] /\ levels'[t][x] = levels[t][x]
        BY <1>2, <1>5, <2>2
      <3> QED
        BY <1>1, <3>1 DEF IInv, Shape, Working
    <2> QED
      BY <2>1, <2>2
  <1>10. NotCrossed'
    <2> SUFFICES ASSUME NEW b \in DOMAIN levels'["bid"], NEW a \in DOMAIN levels'["ask"]
                 PROVE  b < a
      BY DEF NotCrossed
    <2>1. \A x \in DOMAIN levels[Opposite(s)] : IF s = "bid" THEN p < x ELSE x < p
      BY <1>1 DEF IInv, NothingCrosses
    <2>2. CASE s = "bid"
      <3>1. a \in DOMAIN levels["ask"] /\ (b \in DOMAIN levels["bid"] \/ b = p)
        BY <1>5, <2>2 DEF Sides
      <3> QED
        BY <2>1, <2>2, <3>1 DEF IInv, NotCrossed, Opposite
    <2>3. CASE s = "ask"
      <3>1. b \in DOMAIN levels["bid"] /\ (a \in DOMAIN levels["ask"] \/ a = p)
        BY <1>5, <2>3 DEF Sides
      <3> QED
        BY <2>1, <2>3, <3>1 DEF IInv, NotCrossed, Opposite
    <2> QED
      BY <1>2, <2>2, <2>3 DEF Sides
  <1> QED
    BY <1>1, <1>7, <1>8, <1>9, <1>10 DEF IInv, Shape, NothingCrosses

\* The call returns and the book stays.
LEMMA ReturnIInv ==
    ASSUME IInv, FullyMatched \/ ReturnMatched
    PROVE  IInv'
  <1>1. /\ pc = "return" /\ pc' = "idle" /\ taker' = NoTaker /\ total_matched' = 0 /\ it' = 0
        /\ UNCHANGED <<word, next_free_index, terms, node, levels>>
        /\ shares' = shares \/ (taker.order # NULL /\ DecreaseTaker)
    BY DEF FullyMatched, ReturnMatched, Return, poolVars
  <1>2. shares' \in [Pool!Slots -> 0 .. MaxSize]
    <2>1. CASE shares' = shares
      BY <2>1 DEF IInv, Shape
    <2>2. CASE taker.order # NULL /\ DecreaseTaker
      <3>1. shares[taker.order] \in 0 .. MaxSize /\ total_matched \in Nat
        BY <2>2, SizesAssumption DEF IInv, Shape, BookTypeOK, Takers
      <3>2. decreaseSize(shares[taker.order], total_matched).left \in 0 .. MaxSize
        BY <3>1, SizesAssumption DEF decreaseSize
      <3> QED
        BY <2>2, <3>2 DEF DecreaseTaker, IInv, Shape
    <2> QED
      BY <1>1, <2>1, <2>2
  <1>3. BookTypeOK'
    BY <1>1, SizesAssumption DEF IInv, Shape, BookTypeOK, NoTaker, Takers, Sides, Types
  <1>4. \A s \in Sides : \A p \in DOMAIN levels'[s] : ~empty(levels'[s][p])
    BY <1>1 DEF IInv, Shape, Working
  <1> QED
    BY <1>1, <1>2, <1>3, <1>4 DEF IInv, Shape, NothingCrosses, NotCrossed

\* Nor can a cancel, which creates no level.
LEMMA CancelOrderIInv ==
    ASSUME IInv, NEW o \in Pool!InUse, CancelOrder(o)
    PROVE  IInv'
  <1> DEFINE s == terms[o].side
             p == terms[o].price
             r == remove(levels[s][p], node, o)
  <1>1. o \in Pool!Slots /\ s \in Sides
    BY DEF Pool!InUse, IInv, Shape, BookTypeOK
  <1>2. pc = "idle" /\ UNCHANGED callVars /\ Free(o)
    BY DEF CancelOrder
  <1>3. \A t \in Sides : \A x \in DOMAIN levels[t] : ~empty(levels[t][x]) /\ levels[t][x] \in PriceLevels
    BY <1>2 DEF IInv, Shape, BookTypeOK, Working
  <1>4. /\ node' \in [Pool!Slots -> Links]
        /\ levels' = [t \in Sides |-> levels'[t]]
        /\ \A t \in Sides :
             /\ DOMAIN levels'[t] \subseteq DOMAIN levels[t]
             /\ levels'[t] \in [DOMAIN levels'[t] -> PriceLevels]
             /\ \A x \in DOMAIN levels'[t] : ~empty(levels'[t][x])
    <2>1. CASE ~HasLevel(s, p)
      BY <1>3, <2>1 DEF CancelOrder, IInv, Shape, BookTypeOK
    <2>2. CASE HasLevel(s, p)
      <3>1. r.q \in PriceLevels /\ r.node \in [Pool!Slots -> Links]
        BY <1>1, <1>3, <2>2, RemoveType DEF HasLevel, IInv, Shape, BookTypeOK
      <3>2. node' = r.node /\ levels' = IF empty(r.q) THEN EraseLevel(s, p) ELSE SetLevel(s, p, r.q)
        BY <2>2 DEF CancelOrder
      <3> HIDE DEF r
      <3>3. CASE empty(r.q)
        <4>1. /\ levels' = [t \in Sides |-> levels'[t]]
              /\ \A t \in Sides \ {s} : levels'[t] = levels[t]
              /\ levels'[s] = [x \in DOMAIN levels[s] \ {p} |-> levels[s][x]]
          BY <1>1, <3>2, <3>3 DEF EraseLevel, IInv, Shape, BookTypeOK
        <4>2. ASSUME NEW t \in Sides
              PROVE  /\ DOMAIN levels'[t] \subseteq DOMAIN levels[t]
                     /\ levels'[t] \in [DOMAIN levels'[t] -> PriceLevels]
                     /\ \A x \in DOMAIN levels'[t] : ~empty(levels'[t][x])
          <5>1. CASE t = s
            BY <1>3, <4>1, <5>1
          <5>2. CASE t # s
            BY <1>3, <4>1, <5>2 DEF IInv, Shape, BookTypeOK
          <5> QED
            BY <5>1, <5>2
        <4> QED
          BY <3>1, <3>2, <4>1, <4>2
      <3>4. CASE ~empty(r.q)
        <4>1. /\ levels' = [t \in Sides |-> levels'[t]]
              /\ \A t \in Sides \ {s} : levels'[t] = levels[t]
              /\ levels'[s] = [x \in DOMAIN levels[s] |-> IF x = p THEN r.q ELSE levels[s][x]]
          <5>1. DOMAIN levels[s] \cup {p} = DOMAIN levels[s]
            BY <2>2 DEF HasLevel
          <5> QED
            BY <1>1, <3>2, <3>4, <5>1 DEF SetLevel, IInv, Shape, BookTypeOK
        <4>2. ASSUME NEW t \in Sides
              PROVE  /\ DOMAIN levels'[t] \subseteq DOMAIN levels[t]
                     /\ levels'[t] \in [DOMAIN levels'[t] -> PriceLevels]
                     /\ \A x \in DOMAIN levels'[t] : ~empty(levels'[t][x])
          <5>1. CASE t = s
            BY <1>3, <3>1, <3>4, <4>1, <5>1
          <5>2. CASE t # s
            BY <1>3, <4>1, <5>2 DEF IInv, Shape, BookTypeOK
          <5> QED
            BY <5>1, <5>2
        <4> QED
          BY <3>1, <3>2, <4>1, <4>2
      <3> QED
        BY <3>3, <3>4
    <2> QED
      BY <2>1, <2>2
  <1>5. BookTypeOK'
    BY <1>1, <1>2, <1>4, FreeShape DEF IInv, Shape, BookTypeOK, callVars
  <1>6. NotCrossed'
    BY <1>4 DEF IInv, NotCrossed, Sides
  <1> QED
    BY <1>1, <1>2, <1>4, <1>5, <1>6, FreeShape DEF IInv, Shape, NothingCrosses, callVars

\* One case for every action.
LEMMA NextIInv == IInv /\ [Next]_vars => IInv'
  <1> SUFFICES ASSUME IInv, [Next]_vars PROVE IInv'
    OBVIOUS
  <1>1. CASE Call
    <2>1. CASE AddOrderFails
      BY <2>1, AddOrderFailsIInv DEF AddOrderFails
    <2>2. CASE \E size \in Sizes, price \in Prices, side \in Sides, type \in Types :
                  \/ \E id \in OrderIds : AddOrder(id, size, price, side, type)
                  \/ MatchOrder(size, price, side, type)
      BY <2>2, AddOrderIInv, MatchOrderIInv
    <2>3. CASE \E o \in Pool!InUse : CancelOrder(o)
      BY <2>3, CancelOrderIInv
    <2> QED
      BY <1>1, <2>1, <2>2, <2>3 DEF Call
  <1>2. CASE Step
    BY <1>2, EnterLevelIInv, StopMatchingIInv, MatchHeadIInv, CloseHeadIInv,
       LevelTakenIInv, LevelLeftIInv, RestRemainderIInv, ReturnIInv DEF Step
  <1>3. CASE UNCHANGED vars
    BY <1>3, AddOrderFailsIInv
  <1> QED
    BY <1>1, <1>2, <1>3 DEF Next

(***************************************************************************)
(* For every pool size, every set of prices and sizes, and whatever orders *)
(* are cancelled, filled ones included: the book is never crossed.         *)
(***************************************************************************)
THEOREM NeverCrossed == Spec => []NotCrossed
  <1>1. Spec => []IInv
    BY InitIInv, NextIInv, PTL DEF Spec
  <1>2. IInv => NotCrossed
    BY DEF IInv
  <1> QED
    BY <1>1, <1>2, PTL

----------------------------------------------------------------------------
(***************************************************************************)
(* The levels of the book are sound lists of exactly the orders that rest, *)
(* and the book is a well-behaved owner of its pool, for every pool size   *)
(* and every set of prices and sizes, as long as callers do not cancel     *)
(* orders that were filled: with CancelsFilled the run of the cancelled    *)
(* neighbour shows how a level breaks.                                     *)
(*                                                                         *)
(* The invariant says which orders a level holds by what the orders        *)
(* themselves say (At), so that levels are disjoint because an order has   *)
(* one side and one price, and a step is followed by what it does to one   *)
(* At.  MemPool's own invariant is part of it: that the slot of a new      *)
(* order is on no level rests on the free list.                            *)
(***************************************************************************)
PP == INSTANCE MemPoolProofs WITH
    NumElems <- PoolSize, Words <- OrderIds, Objects <- 0 .. MaxSize,
    ZeroObject <- 0, object <- shares

\* The live orders, other than the one just coming in, that belong to a level.
At(s, p) ==
    {o \in Pool!InUse :
        /\ o # taker.order
        /\ terms[o].side = s /\ terms[o].price = p
        /\ shares[o] > 0 \/ Closing(o)}

LevelOK(s, p) ==
    /\ HasLevel(s, p) => Holds(Pool!Slots, levels[s][p], node, At(s, p))
    /\ At(s, p) # {} => HasLevel(s, p)

Linked == \A s \in Sides, p \in Prices \cup {0} : LevelOK(s, p)

\* The order a call has allocated, and the first words of all live ones.
Owned ==
    /\ \A o \in Pool!InUse : word[o] \in OrderIds
    /\ pc = "idle" => taker.order = NULL
    /\ taker.order # NULL =>
          /\ taker.order \in Pool!InUse
          /\ shares[taker.order] = taker.size
          /\ terms[taker.order] = [price |-> taker.price, side |-> taker.side]

BInv == IInv /\ PP!IInv /\ Owned /\ Linked

\* A cancel is harmless if the order has shares left, and so is linked into its
\* level, or if there is no level that it could be unlinked from.
Harmless(o) == shares[o] > 0 \/ ~HasLevel(terms[o].side, terms[o].price)

\* What the book does for callers whose cancels are harmless.
CarefulCall ==
    \/ AddOrderFails
    \/ \E size \in Sizes, price \in Prices, side \in Sides, type \in Types :
          \/ \E id \in OrderIds : AddOrder(id, size, price, side, type)
          \/ MatchOrder(size, price, side, type)
    \/ \E o \in Pool!InUse : Harmless(o) /\ CancelOrder(o)

CarefulNext == CarefulCall \/ Step

\* The book offers no other calls unless CancelsFilled says so.
LEMMA CarefulUnlessTold ==
    /\ CarefulNext => Next
    /\ ~CancelsFilled /\ Next => CarefulNext
  BY DEF CarefulNext, CarefulCall, Next, Call, Harmless, CancelOrder, MayCancel

----------------------------------------------------------------------------
\* The pool's invariant in the book's terms.
LEMMA PoolFacts ==
    ASSUME PP!IInv
    PROVE  /\ Pool!TypeOK
           /\ ~Pool!Exhausted => next_free_index \in is_free
  <1>1. Pool!TypeOK
    BY DEF PP!IInv, PP!TypeOK, Pool!TypeOK, PP!Slots, Pool!Slots
  <1>2. ~Pool!Exhausted => next_free_index \in is_free
    BY PP!HeadIsFree, PoolSizeAssumption, OrderIdsAssumption, SizesAssumption
       DEF Pool!Exhausted, PP!Exhausted
  <1> QED
    BY <1>1, <1>2

\* The book's pool starts with the pool's invariant ...
LEMMA PoolInit ==
    ASSUME Pool!Init
    PROVE  PP!IInv
  <1>1. PP!Init
    BY DEF Pool!Init, PP!Init, PP!Slots, Pool!Slots
  <1> QED
    BY <1>1, PP!InitIInv, PoolSizeAssumption, OrderIdsAssumption, SizesAssumption

\* ... and keeps it as long as the book does what a pool's caller may do.
LEMMA PoolStep ==
    ASSUME PP!IInv, Pool!Next \/ UNCHANGED poolVars
    PROVE  PP!IInv'
  <1>1. CASE Pool!Next
    <2>1. PP!Next
      BY <1>1 DEF Pool!Next, PP!Next, Pool!Allocate, PP!Allocate, Pool!Exhausted, PP!Exhausted,
                  Pool!next_free_of, PP!next_free_of, Pool!Deallocate, PP!Deallocate,
                  Pool!Write, PP!Write, Pool!InUse, PP!InUse, Pool!Slots, PP!Slots
    <2> QED
      BY <2>1, PP!NextIInv, PoolSizeAssumption, OrderIdsAssumption, SizesAssumption
  <1>2. CASE UNCHANGED poolVars
    <2>1. UNCHANGED PP!vars
      BY <1>2 DEF poolVars, PP!vars
    <2> QED
      BY <2>1, PP!NextIInv, PoolSizeAssumption, OrderIdsAssumption, SizesAssumption
  <1> QED
    BY <1>1, <1>2

\* No slot is the null pointer.
LEMMA NullIsNoSlot == NULL \notin Pool!Slots
  BY NullAssumption, PoolSizeAssumption DEF Pool!Slots

\* An order belongs to one level.
LEMMA OneLevelEach ==
    ASSUME NEW s, NEW p, NEW t, NEW x, NEW o \in At(s, p), o \in At(t, x)
    PROVE  s = t /\ p = x
  BY DEF At

\* A level whose queue, members and links a step leaves alone stays right.
LEMMA LevelKept ==
    ASSUME NEW s, NEW p, LevelOK(s, p),
           HasLevel(s, p)' <=> HasLevel(s, p),
           HasLevel(s, p) => levels'[s][p] = levels[s][p],
           At(s, p)' = At(s, p),
           \A y \in At(s, p) : node'[y] = node[y]
    PROVE  LevelOK(s, p)'
  <1>1. CASE HasLevel(s, p)
    <2>1. Holds(Pool!Slots, levels[s][p], node, At(s, p))
      BY <1>1 DEF LevelOK
    <2>2. Holds(Pool!Slots, levels[s][p], node', At(s, p))
      BY <2>1, HoldsFrame
    <2> QED
      BY <1>1, <2>2 DEF LevelOK
  <1>2. CASE ~HasLevel(s, p)
    BY <1>2 DEF LevelOK
  <1> QED
    BY <1>1, <1>2

\* The book and the links stand still.
LEMMA LinkedKept ==
    ASSUME Linked, UNCHANGED <<node, levels>>,
           \A s \in Sides, p \in Prices \cup {0} : At(s, p)' = At(s, p)
    PROVE  Linked'
  <1> SUFFICES ASSUME NEW s \in Sides, NEW p \in Prices \cup {0} PROVE LevelOK(s, p)'
    BY DEF Linked
  <1>1. LevelOK(s, p)
    BY DEF Linked
  <1>2. HasLevel(s, p)' <=> HasLevel(s, p)
    BY DEF HasLevel
  <1> QED
    BY <1>1, <1>2, LevelKept

\* What the invariant says of the level matchAtLevel() works at.
LEMMA WorkedLevel ==
    ASSUME BInv, pc \in {"level", "close"}
    PROVE  /\ Opposite(taker.side) \in Sides /\ it \in Prices
           /\ it \in DOMAIN levels[Opposite(taker.side)]
           /\ Level = levels[Opposite(taker.side)][it]
           /\ Level \in QueuesOf(Pool!Slots)
           /\ Holds(Pool!Slots, Level, node, At(Opposite(taker.side), it))
           /\ empty(Level) => At(Opposite(taker.side), it) = {}
           /\ ~empty(Level) => peek(Level) \in At(Opposite(taker.side), it)
  <1> DEFINE s == Opposite(taker.side)
  <1>1. /\ s \in Sides /\ it \in DOMAIN levels[s] /\ it \in Prices
        /\ Level \in QueuesOf(Pool!Slots)
    BY LevelFacts DEF BInv, IInv, PriceLevels
  <1>2. Level = levels[s][it]
    BY DEF Level
  <1> HIDE DEF s
  <1>3. LevelOK(s, it)
    BY <1>1 DEF BInv, Linked
  <1>4. Holds(Pool!Slots, Level, node, At(s, it))
    BY <1>1, <1>2, <1>3 DEF LevelOK, HasLevel
  <1>5. (empty(Level) => At(s, it) = {}) /\ (~empty(Level) => peek(Level) \in At(s, it))
    BY <1>4, NullIsNoSlot, HoldsHead DEF empty, peek
  <1> QED
    BY <1>1, <1>2, <1>4, <1>5 DEF s

----------------------------------------------------------------------------
(* Each step: what it does to the pool, to the order of the call and to    *)
(* the levels.                                                             *)

\* The slot of a new order is on no level, and is not yet on one.
LEMMA AddOrderBInv ==
    ASSUME BInv, NEW id \in OrderIds, NEW size \in Sizes, NEW price \in Prices,
           NEW side \in Sides, NEW type \in Types, AddOrder(id, size, price, side, type)
    PROVE  Pool!Next /\ Owned' /\ Linked'
  <1> DEFINE o == next_free_index
  <1>1. o \in is_free /\ o \in Pool!Slots /\ is_free \subseteq Pool!Slots
    BY PoolFacts DEF BInv, AddOrder, Pool!Allocate, Pool!TypeOK
  <1>2. /\ pc = "idle" /\ pc' = "match" /\ levels' = levels
        /\ taker' = [order |-> o, size |-> size, price |-> price, side |-> side, type |-> type]
    BY DEF AddOrder
  <1>3. /\ is_free' = is_free \ {o}
        /\ word' = [word EXCEPT ![o] = id]
        /\ shares' = [shares EXCEPT ![o] = size]
        /\ terms' = [terms EXCEPT ![o] = [price |-> price, side |-> side]]
        /\ node' = [node EXCEPT ![o] = NullNode]
    BY DEF AddOrder, Pool!Allocate
  <1>4. /\ word \in [Pool!Slots -> Nat] /\ shares \in [Pool!Slots -> 0 .. MaxSize]
        /\ terms \in [Pool!Slots -> [price : Prices \cup {0}, side : Sides]]
        /\ node \in [Pool!Slots -> Links] /\ taker.order = NULL
    BY <1>2 DEF BInv, IInv, Shape, BookTypeOK, Owned
  <1>5. Pool!Next
    <2>1. Pool!Allocate(id, size) /\ size \in 0 .. MaxSize
      BY SizesAssumption DEF AddOrder
    <2> QED
      BY <2>1 DEF Pool!Next
  <1>6. Owned'
    BY <1>1, <1>2, <1>3, <1>4 DEF BInv, Owned, Pool!InUse
  <1>7. ASSUME NEW s \in Sides, NEW p \in Prices \cup {0}
        PROVE  At(s, p)' = At(s, p) /\ o \notin At(s, p)
    BY <1>1, <1>2, <1>3, <1>4, NullIsNoSlot DEF At, Closing, Pool!InUse
  <1>8. ASSUME NEW s \in Sides, NEW p \in Prices \cup {0} PROVE LevelOK(s, p)'
    <2>1. LevelOK(s, p)
      BY DEF BInv, Linked
    <2>2. At(s, p) \subseteq Pool!Slots
      BY DEF At, Pool!InUse
    <2>3. \A y \in At(s, p) : node'[y] = node[y]
      BY <1>3, <1>4, <1>7, <2>2
    <2>4. HasLevel(s, p)' <=> HasLevel(s, p)
      BY <1>2 DEF HasLevel
    <2> QED
      BY <1>2, <1>7, <2>1, <2>3, <2>4, LevelKept
  <1> QED
    BY <1>5, <1>6, <1>8 DEF Linked

\* A call begins that brings no order, or goes on without touching one.
LEMMA QuietBInv ==
    ASSUME BInv, UNCHANGED <<poolVars, terms, node, levels>>,
           pc # "close", pc' # "close",
           \/ UNCHANGED taker /\ pc' # "idle" 
           \/ taker.order = NULL /\ taker'.order = NULL
    PROVE  Owned' /\ Linked'
  <1>1. taker'.order = taker.order
    OBVIOUS
  <1>2. Owned'
    BY <1>1 DEF BInv, Owned, poolVars, Pool!InUse
  <1>3. \A s \in Sides, p \in Prices \cup {0} : At(s, p)' = At(s, p)
    BY <1>1 DEF At, Closing, poolVars, Pool!InUse
  <1> QED
    BY <1>2, <1>3, LinkedKept DEF BInv

\* The head of the level has shares; when it gives the last, it is closing.
LEMMA MatchHeadBInv ==
    ASSUME BInv, MatchHead
    PROVE  Pool!Next /\ Owned' /\ Linked'
  <1> DEFINE o == peek(Level)
             d == decreaseSize(shares[o], Missing)
  <1>1. /\ pc = "level" /\ ~empty(Level)
        /\ shares' = [shares EXCEPT ![o] = d.left]
        /\ pc' = IF d.left = 0 THEN "close" ELSE "level"
        /\ UNCHANGED <<is_free, word, next_free_index, terms, node, levels, taker, it>>
    BY DEF MatchHead
  <1>2. o \in At(Opposite(taker.side), it)
    BY <1>1, WorkedLevel
  <1>3. o \in Pool!InUse /\ o \in Pool!Slots /\ o # taker.order /\ shares[o] > 0
    BY <1>1, <1>2 DEF At, Closing, Pool!InUse
  <1>4. /\ shares \in [Pool!Slots -> 0 .. MaxSize] /\ word \in [Pool!Slots -> Nat]
        /\ total_matched \in Nat /\ taker.size \in Nat /\ total_matched < taker.size
    BY SizesAssumption DEF BInv, IInv, Shape, BookTypeOK, Takers, MatchHead
  <1>5. d.left \in 0 .. MaxSize
    BY <1>3, <1>4, SizesAssumption DEF decreaseSize, Missing
  <1>6. Level' = Level
    BY <1>1 DEF Level
  <1> HIDE DEF d
  <1>7. Pool!Next
    <2>1. word[o] \in OrderIds
      BY <1>3 DEF BInv, Owned
    <2>2. Pool!Write(o, word[o], d.left)
      BY <1>1, <1>3, <1>4 DEF Pool!Write
    <2> QED
      BY <1>3, <1>5, <2>1, <2>2 DEF Pool!Next
  <1>8. Owned'
    BY <1>1, <1>3, <1>4 DEF BInv, Owned, Pool!InUse
  <1>9. \A y : Closing(y)' <=> pc' = "close" /\ y = o
    BY <1>6 DEF Closing
  <1>10. \A y : ~Closing(y)
    BY <1>1 DEF Closing
  <1> HIDE DEF o
  <1>11. \A y \in Pool!InUse : shares'[y] > 0 \/ Closing(y)' <=> shares[y] > 0 \/ Closing(y)
    BY <1>1, <1>3, <1>4, <1>5, <1>9, <1>10 DEF Pool!InUse
  <1>12. \A s \in Sides, p \in Prices \cup {0} : At(s, p)' = At(s, p)
    BY <1>1, <1>11 DEF At, Pool!InUse
  <1> QED
    BY <1>1, <1>7, <1>8, <1>12, LinkedKept DEF BInv

\* remove() of a resting order from its level, and the links it leaves alone.
LEMMA UnlinkedFromLevel ==
    ASSUME BInv, NEW s \in Sides, NEW p \in Prices, NEW o, o \in At(s, p)
    PROVE  LET r == remove(levels[s][p], node, o)
           IN  /\ Holds(Pool!Slots, r.q, r.node, At(s, p) \ {o})
               /\ \A y \in Pool!Slots \ At(s, p) : r.node[y] = node[y]
               /\ empty(r.q) => At(s, p) \ {o} = {}
  <1> DEFINE r == remove(levels[s][p], node, o)
  <1>1. LevelOK(s, p) /\ HasLevel(s, p)
    BY DEF BInv, Linked, LevelOK
  <1>2. Holds(Pool!Slots, levels[s][p], node, At(s, p))
    BY <1>1 DEF LevelOK
  <1>3. levels[s][p] \in QueuesOf(Pool!Slots)
    BY <1>1 DEF HasLevel, BInv, IInv, Shape, BookTypeOK, PriceLevels
  <1>4. node \in [Pool!Slots -> NodesOf(Pool!Slots)]
    BY DEF BInv, IInv, Shape, BookTypeOK, Links
  <1>5. Holds(Pool!Slots, r.q, r.node, At(s, p) \ {o})
    BY <1>2, <1>4, <1>3, NullIsNoSlot, HoldsRemove
  <1>6. \A y \in Pool!Slots \ At(s, p) : r.node[y] = node[y]
    BY <1>2, <1>4, NullIsNoSlot, HoldsRemoveFrame
  <1>7. empty(r.q) => At(s, p) \ {o} = {}
    BY <1>5, NullIsNoSlot, HoldsHead DEF empty
  <1> QED
    BY <1>5, <1>6, <1>7

\* A resting order is unlinked from its level and freed; the level is erased
\* only when that leaves it empty.
LEMMA LeavesLevel ==
    ASSUME BInv, NEW s \in Sides, NEW p \in Prices, NEW o, o \in At(s, p),
           Free(o), node' = remove(levels[s][p], node, o).node,
           UNCHANGED taker, pc' \notin {"idle", "close"} \/ taker.order = NULL,
           \A y : Closing(y) => y = o, \A y : ~Closing(y)',
           \A t \in Sides, x \in Prices \cup {0} : t # s \/ x # p =>
              /\ x \in DOMAIN levels'[t] <=> x \in DOMAIN levels[t]
              /\ x \in DOMAIN levels[t] => levels'[t][x] = levels[t][x],
           \/ p \in DOMAIN levels'[s] /\ levels'[s][p] = remove(levels[s][p], node, o).q
           \/ p \notin DOMAIN levels'[s] /\ empty(remove(levels[s][p], node, o).q)
    PROVE  Pool!Next /\ Owned' /\ Linked'
  <1> DEFINE r == remove(levels[s][p], node, o)
  <1>1. /\ o \in Pool!InUse /\ o \in Pool!Slots /\ o # taker.order
        /\ terms[o].side = s /\ terms[o].price = p
    BY DEF At, Pool!InUse
  <1>2. /\ word \in [Pool!Slots -> Nat] /\ node \in [Pool!Slots -> NodesOf(Pool!Slots)]
        /\ terms \in [Pool!Slots -> [price : Prices \cup {0}, side : Sides]]
    BY DEF BInv, IInv, Shape, BookTypeOK, Links
  <1>3. /\ is_free' = is_free \cup {o} /\ word' = [word EXCEPT ![o] = next_free_index]
        /\ shares' = shares /\ terms' = [terms EXCEPT ![o] = NoTerms]
    BY DEF Free, Pool!Deallocate
  <1>4. Pool!Next
    BY <1>1 DEF Free, Pool!Next
  <1>5. \A y : y \in Pool!InUse' <=> y \in Pool!InUse /\ y # o
    BY <1>3 DEF Pool!InUse
  <1>6. Owned'
    <2>1. \A y \in Pool!InUse' : word'[y] \in OrderIds
      BY <1>1, <1>2, <1>3, <1>5 DEF BInv, Owned, Pool!InUse
    <2>2. taker.order # NULL =>
             /\ taker.order \in Pool!InUse' /\ shares'[taker.order] = taker.size
             /\ terms'[taker.order] = [price |-> taker.price, side |-> taker.side]
      BY <1>1, <1>2, <1>3, <1>5 DEF BInv, Owned, Pool!InUse
    <2> QED
      BY <2>1, <2>2 DEF Owned
  <1>7. ASSUME NEW t, NEW x
        PROVE  At(t, x)' = At(t, x) \ {o}
    <2>1. \A y \in Pool!InUse' : terms'[y] = terms[y]
      BY <1>2, <1>3, <1>5 DEF Pool!InUse
    <2>2. \A y \in Pool!InUse' : shares'[y] > 0 \/ Closing(y)' <=> shares[y] > 0 \/ Closing(y)
      BY <1>3, <1>5
    <2> QED
      BY <1>5, <2>1, <2>2 DEF At
  <1>8. Holds(Pool!Slots, r.q, r.node, At(s, p) \ {o})
    BY UnlinkedFromLevel
  <1>9. \A y \in Pool!Slots \ At(s, p) : r.node[y] = node[y]
    BY UnlinkedFromLevel
  <1>10. empty(r.q) => At(s, p) \ {o} = {}
    BY UnlinkedFromLevel
  <1> HIDE DEF r
  <1>11. LevelOK(s, p)'
    <2>1. CASE p \in DOMAIN levels'[s] /\ levels'[s][p] = r.q
      BY <1>7, <1>8, <2>1 DEF LevelOK, HasLevel, r
    <2>2. CASE p \notin DOMAIN levels'[s] /\ empty(r.q)
      BY <1>7, <1>10, <2>2 DEF LevelOK, HasLevel
    <2> QED
      BY <2>1, <2>2 DEF r
  <1>12. ASSUME NEW t \in Sides, NEW x \in Prices \cup {0}, t # s \/ x # p
         PROVE  LevelOK(t, x)'
    <2>1. LevelOK(t, x)
      BY DEF BInv, Linked
    <2>2. At(t, x) \subseteq Pool!Slots /\ o \notin At(t, x)
      BY <1>1, <1>12 DEF At, Pool!InUse
    <2>3. \A y \in At(t, x) : y \notin At(s, p)
      BY <1>12, OneLevelEach
    <2>4. \A y \in At(t, x) : node'[y] = node[y]
      BY <1>9, <2>2, <2>3 DEF r
    <2>5. At(t, x)' = At(t, x)
      BY <1>7, <2>2
    <2>6. (HasLevel(t, x)' <=> HasLevel(t, x)) /\ (HasLevel(t, x) => levels'[t][x] = levels[t][x])
      BY <1>12 DEF HasLevel
    <2> QED
      BY <2>1, <2>4, <2>5, <2>6, LevelKept
  <1> QED
    BY <1>4, <1>6, <1>11, <1>12 DEF Linked

\* What SetLevel() and EraseLevel() do to the maps.
LEMMA SetLevelMaps ==
    ASSUME BookTypeOK, NEW s \in Sides, NEW p, NEW q, levels' = SetLevel(s, p, q)
    PROVE  /\ p \in DOMAIN levels'[s] /\ levels'[s][p] = q
           /\ \A t \in Sides, x \in Prices \cup {0} : t # s \/ x # p =>
                 /\ x \in DOMAIN levels'[t] <=> x \in DOMAIN levels[t]
                 /\ x \in DOMAIN levels[t] => levels'[t][x] = levels[t][x]
  <1>1. /\ \A t \in Sides \ {s} : levels'[t] = levels[t]
        /\ levels'[s] = [x \in DOMAIN levels[s] \cup {p} |-> IF x = p THEN q ELSE levels[s][x]]
    BY DEF SetLevel, BookTypeOK
  <1> QED
    BY <1>1

\* What EraseLevel does to the two maps.
LEMMA EraseLevelMaps ==
    ASSUME BookTypeOK, NEW s \in Sides, NEW p, levels' = EraseLevel(s, p)
    PROVE  /\ p \notin DOMAIN levels'[s]
           /\ \A t \in Sides, x \in Prices \cup {0} : t # s \/ x # p =>
                 /\ x \in DOMAIN levels'[t] <=> x \in DOMAIN levels[t]
                 /\ x \in DOMAIN levels[t] => levels'[t][x] = levels[t][x]
  <1>1. /\ \A t \in Sides \ {s} : levels'[t] = levels[t]
        /\ levels'[s] = [x \in DOMAIN levels[s] \ {p} |-> levels[s][x]]
    BY DEF EraseLevel, BookTypeOK
  <1> QED
    BY <1>1

\* The closing order is the head of the level: it leaves both lists at once.
LEMMA CloseHeadBInv ==
    ASSUME BInv, CloseHead
    PROVE  Pool!Next /\ Owned' /\ Linked'
  <1>0. PICK s, p, o : s = Opposite(taker.side) /\ p = it /\ o = peek(Level)
    OBVIOUS
  <1>1. /\ pc = "close" /\ pc' = "level" /\ UNCHANGED taker /\ Free(o)
        /\ levels' = SetLevel(s, p, remove(Level, node, o).q)
        /\ node' = remove(Level, node, o).node
    BY <1>0 DEF CloseHead, HeadRemoved
  <1>2. /\ s \in Sides /\ p \in Prices /\ Level = levels[s][p]
        /\ ~empty(Level) => o \in At(s, p)
    BY <1>0, <1>1, WorkedLevel
  <1>3. ~empty(Level)
    BY <1>1, LevelFacts DEF BInv, IInv
  <1>4. \A y : Closing(y) => y = o
    BY <1>0 DEF Closing
  <1>5. \A y : ~Closing(y)'
    BY <1>1 DEF Closing
  <1>6. BookTypeOK
    BY DEF BInv, IInv, Shape
  <1>7. /\ p \in DOMAIN levels'[s] /\ levels'[s][p] = remove(levels[s][p], node, o).q
        /\ \A t \in Sides, x \in Prices \cup {0} : t # s \/ x # p =>
              /\ x \in DOMAIN levels'[t] <=> x \in DOMAIN levels[t]
              /\ x \in DOMAIN levels[t] => levels'[t][x] = levels[t][x]
    BY <1>1, <1>2, <1>6, SetLevelMaps
  <1> QED
    BY <1>1, <1>2, <1>3, <1>4, <1>5, <1>7, LeavesLevel

\* An empty level has no orders, so erasing it loses none.
LEMMA LevelTakenBInv ==
    ASSUME BInv, LevelTaken
    PROVE  Owned' /\ Linked'
  <1>0. PICK s, p : s = Opposite(taker.side) /\ p = it
    OBVIOUS
  <1>1. /\ pc = "level" /\ pc' = "match" /\ empty(Level) /\ levels' = EraseLevel(s, p)
        /\ UNCHANGED <<poolVars, terms, node, taker>>
    BY <1>0 DEF LevelTaken
  <1>2. s \in Sides /\ p \in Prices /\ At(s, p) = {}
    BY <1>0, <1>1, WorkedLevel
  <1>3. Owned'
    BY <1>1 DEF BInv, Owned, poolVars, Pool!InUse
  <1>4. \A t, x : At(t, x)' = At(t, x)
    BY <1>1 DEF At, Closing, poolVars, Pool!InUse
  <1>5. /\ p \notin DOMAIN levels'[s]
        /\ \A t \in Sides, x \in Prices \cup {0} : t # s \/ x # p =>
              /\ x \in DOMAIN levels'[t] <=> x \in DOMAIN levels[t]
              /\ x \in DOMAIN levels[t] => levels'[t][x] = levels[t][x]
    BY <1>1, <1>2, EraseLevelMaps DEF BInv, IInv, Shape
  <1>6. LevelOK(s, p)'
    BY <1>2, <1>4, <1>5 DEF LevelOK, HasLevel
  <1>7. ASSUME NEW t \in Sides, NEW x \in Prices \cup {0}, t # s \/ x # p
        PROVE  LevelOK(t, x)'
    <2>1. LevelOK(t, x)
      BY DEF BInv, Linked
    <2>2. (HasLevel(t, x)' <=> HasLevel(t, x)) /\ (HasLevel(t, x) => levels'[t][x] = levels[t][x])
      BY <1>5, <1>7 DEF HasLevel
    <2>3. At(t, x)' = At(t, x) /\ node' = node
      BY <1>1, <1>4
    <2> QED
      BY <2>1, <2>2, <2>3, LevelKept
  <1> QED
    BY <1>3, <1>6, <1>7 DEF Linked

\* append() to the level of a price, which may have to be created.
LEMMA LinkedIntoLevel ==
    ASSUME BInv, NEW s \in Sides, NEW p \in Prices, NEW o, o \in Pool!Slots, o \notin At(s, p)
    PROVE  LET q == LevelAt(s, p)
               r == append(q, node, o)
           IN  /\ Holds(Pool!Slots, q, node, At(s, p))
               /\ Holds(Pool!Slots, r.q, r.node, At(s, p) \cup {o})
               /\ \A y \in Pool!Slots : y \notin At(s, p) /\ y # o => r.node[y] = node[y]
  <1>1. PICK q : q = LevelAt(s, p)
    OBVIOUS
  <1>2. LevelOK(s, p)
    BY DEF BInv, Linked
  <1>3. Holds(Pool!Slots, q, node, At(s, p))
    <2>1. CASE HasLevel(s, p)
      BY <1>1, <1>2, <2>1 DEF LevelOK, LevelAt
    <2>2. CASE ~HasLevel(s, p)
      BY <1>1, <1>2, <2>2, EmptyHolds DEF LevelOK, LevelAt
    <2> QED
      BY <2>1, <2>2
  <1>4. q \in QueuesOf(Pool!Slots)
    BY <1>1 DEF LevelAt, HasLevel, BInv, IInv, Shape, BookTypeOK, PriceLevels, QueuesOf, EmptyQueue
  <1>5. node \in [Pool!Slots -> NodesOf(Pool!Slots)]
    BY DEF BInv, IInv, Shape, BookTypeOK, Links
  <1>6. Holds(Pool!Slots, append(q, node, o).q, append(q, node, o).node, At(s, p) \cup {o})
    BY <1>3, <1>4, <1>5, NullIsNoSlot, HoldsAppend
  <1>7. \A y \in Pool!Slots : y \notin At(s, p) /\ y # o => append(q, node, o).node[y] = node[y]
    BY <1>3, <1>5, HoldsAppendFrame
  <1> QED
    BY <1>1, <1>3, <1>6, <1>7

\* What is left of a new order comes to rest at its price, where At counts it.
LEMMA RestRemainderBInv ==
    ASSUME BInv, RestRemainder
    PROVE  Pool!Next /\ Owned' /\ Linked'
  <1>0. PICK s, p, o : s = taker.side /\ p = taker.price /\ o = taker.order
    OBVIOUS
  <1>1. PICK q : q = LevelAt(s, p)
    OBVIOUS
  <1>2. /\ pc = "return" /\ o # NULL /\ pc' = "idle" /\ taker'.order = NULL
        /\ levels' = SetLevel(s, p, append(q, node, o).q)
        /\ node' = append(q, node, o).node
        /\ UNCHANGED <<is_free, word, next_free_index, terms>>
    BY <1>0, <1>1 DEF RestRemainder, Return, NoTaker
  <1>3. /\ s \in Sides /\ p \in Prices /\ BookTypeOK
        /\ shares \in [Pool!Slots -> 0 .. MaxSize] /\ word \in [Pool!Slots -> Nat]
    BY <1>0, <1>2 DEF BInv, IInv, Shape, BookTypeOK, Takers
  <1>4. /\ o \in Pool!InUse /\ o \in Pool!Slots /\ word[o] \in OrderIds
        /\ shares[o] = taker.size /\ terms[o].side = s /\ terms[o].price = p
    BY <1>0, <1>2 DEF BInv, Owned, Pool!InUse
  <1>5. PICK left : left = decreaseSize(shares[o], total_matched).left
    OBVIOUS
  <1>6. shares' = [shares EXCEPT ![o] = left] /\ left \in 0 .. MaxSize /\ left > 0
    <2>1. total_matched \in Nat /\ taker.size \in 0 .. MaxSize /\ total_matched < taker.size
      BY SizesAssumption DEF BInv, IInv, Shape, BookTypeOK, Takers, RestRemainder
    <2>2. left \in 0 .. MaxSize /\ left > 0
      BY <1>4, <1>5, <2>1, SizesAssumption DEF decreaseSize
    <2>3. shares' = [shares EXCEPT ![o] = left]
      BY <1>0, <1>3, <1>4, <1>5 DEF RestRemainder, DecreaseTaker
    <2> QED
      BY <2>2, <2>3
  <1>7. Pool!Next
    <2>1. Pool!Write(o, word[o], left)
      BY <1>2, <1>3, <1>4, <1>6 DEF Pool!Write
    <2> QED
      BY <1>4, <1>6, <2>1 DEF Pool!Next
  <1>8. Owned'
    BY <1>2 DEF BInv, Owned, Pool!InUse
  <1>9. o \notin At(s, p) /\ \A t, x : At(t, x) \subseteq Pool!Slots
    BY <1>0 DEF At, Pool!InUse
  <1>10. At(s, p)' = At(s, p) \cup {o} /\ \A t, x : t # s \/ x # p => At(t, x)' = At(t, x)
    <2>1. \A y : ~Closing(y) /\ ~Closing(y)'
      BY <1>2 DEF Closing
    <2>2. \A y \in Pool!InUse : y # o => y # NULL /\ shares'[y] = shares[y]
      BY <1>3, <1>6, NullIsNoSlot DEF Pool!InUse
    <2>3. shares'[o] > 0 /\ o # NULL
      BY <1>2, <1>3, <1>4, <1>6
    <2> QED
      BY <1>0, <1>2, <1>4, <2>1, <2>2, <2>3 DEF At, Pool!InUse
  <1>11. Holds(Pool!Slots, append(q, node, o).q, append(q, node, o).node, At(s, p) \cup {o})
    BY <1>1, <1>3, <1>4, <1>9, LinkedIntoLevel
  <1>12. \A y \in Pool!Slots : y \notin At(s, p) /\ y # o => append(q, node, o).node[y] = node[y]
    BY <1>1, <1>3, <1>4, <1>9, LinkedIntoLevel
  <1>13. /\ p \in DOMAIN levels'[s] /\ levels'[s][p] = append(q, node, o).q
         /\ \A t \in Sides, x \in Prices \cup {0} : t # s \/ x # p =>
               /\ x \in DOMAIN levels'[t] <=> x \in DOMAIN levels[t]
               /\ x \in DOMAIN levels[t] => levels'[t][x] = levels[t][x]
    BY <1>2, <1>3, SetLevelMaps
  <1>14. LevelOK(s, p)'
    BY <1>2, <1>10, <1>11, <1>13 DEF LevelOK, HasLevel
  <1>15. ASSUME NEW t \in Sides, NEW x \in Prices \cup {0}, t # s \/ x # p
         PROVE  LevelOK(t, x)'
    <2>1. LevelOK(t, x)
      BY DEF BInv, Linked
    <2>2. \A y \in At(t, x) : y \notin At(s, p) /\ y # o
      BY <1>0, <1>15, OneLevelEach DEF At
    <2>3. \A y \in At(t, x) : node'[y] = node[y]
      BY <1>2, <1>9, <1>12, <2>2
    <2>4. (HasLevel(t, x)' <=> HasLevel(t, x)) /\ (HasLevel(t, x) => levels'[t][x] = levels[t][x])
      BY <1>13, <1>15 DEF HasLevel
    <2>5. At(t, x)' = At(t, x)
      BY <1>10, <1>15
    <2> QED
      BY <2>1, <2>3, <2>4, <2>5, LevelKept
  <1> QED
    BY <1>7, <1>8, <1>14, <1>15 DEF Linked

\* A new order that found all its shares is live and on no level.
LEMMA FullyMatchedBInv ==
    ASSUME BInv, FullyMatched
    PROVE  Pool!Next /\ Owned' /\ Linked'
  <1>0. PICK o : o = taker.order
    OBVIOUS
  <1>1. /\ pc = "return" /\ o # NULL /\ pc' = "idle" /\ taker'.order = NULL
        /\ UNCHANGED <<is_free, word, next_free_index, terms, node, levels>>
    BY <1>0 DEF FullyMatched, Return, NoTaker
  <1>2. shares \in [Pool!Slots -> 0 .. MaxSize] /\ word \in [Pool!Slots -> Nat]
    BY DEF BInv, IInv, Shape
  <1>3. o \in Pool!InUse /\ o \in Pool!Slots /\ word[o] \in OrderIds /\ shares[o] = taker.size
    BY <1>0, <1>1 DEF BInv, Owned, Pool!InUse
  <1>4. shares' = [shares EXCEPT ![o] = 0]
    <2>1. decreaseSize(shares[o], total_matched).left = 0
      BY <1>3 DEF FullyMatched, decreaseSize
    <2> QED
      BY <1>0, <1>2, <1>3, <2>1 DEF FullyMatched, DecreaseTaker
  <1>5. Pool!Next
    <2>1. Pool!Write(o, word[o], 0) /\ 0 \in 0 .. MaxSize
      BY <1>1, <1>2, <1>3, <1>4, SizesAssumption DEF Pool!Write
    <2> QED
      BY <1>3, <2>1 DEF Pool!Next
  <1>6. Owned'
    BY <1>1 DEF BInv, Owned, Pool!InUse
  <1>7. ASSUME NEW s \in Sides, NEW p \in Prices \cup {0} PROVE At(s, p)' = At(s, p)
    <2>1. \A y : ~Closing(y) /\ ~Closing(y)'
      BY <1>1 DEF Closing
    <2>2. \A y \in Pool!InUse : y # NULL /\ (y # o => shares'[y] = shares[y])
      BY <1>2, <1>4, NullIsNoSlot DEF Pool!InUse
    <2>3. ~(shares'[o] > 0)
      BY <1>2, <1>3, <1>4
    <2> QED
      BY <1>0, <1>1, <2>1, <2>2, <2>3 DEF At, Pool!InUse
  <1> QED
    BY <1>1, <1>5, <1>6, <1>7, LinkedKept DEF BInv

\* An order with shares left is on its level; one without is cancelled only
\* where there is no level to unlink it from.
LEMMA CancelOrderBInv ==
    ASSUME BInv, NEW o \in Pool!InUse, Harmless(o), CancelOrder(o)
    PROVE  Pool!Next /\ Owned' /\ Linked'
  <1>0. PICK s, p : s = terms[o].side /\ p = terms[o].price
    OBVIOUS
  <1>1. /\ pc = "idle" /\ pc' = "idle" /\ UNCHANGED taker /\ taker.order = NULL
        /\ Free(o) /\ o \in Pool!Slots
    BY DEF CancelOrder, callVars, Pool!InUse, BInv, Owned
  <1>2. /\ word \in [Pool!Slots -> Nat] /\ shares \in [Pool!Slots -> 0 .. MaxSize]
        /\ terms \in [Pool!Slots -> [price : Prices \cup {0}, side : Sides]] /\ BookTypeOK
    BY DEF BInv, IInv, Shape, BookTypeOK
  <1>3. \A y : ~Closing(y) /\ ~Closing(y)'
    BY <1>1 DEF Closing
  <1>4. s \in Sides /\ p \in Prices \cup {0}
    BY <1>0, <1>1, <1>2
  <1>5. CASE HasLevel(s, p)
    <2>1. p \in Prices /\ o \in At(s, p)
      <3>1. shares[o] > 0
        BY <1>0, <1>5 DEF Harmless
      <3> QED
        BY <1>0, <1>1, <1>2, <1>4, <1>5, <3>1, NullIsNoSlot DEF At, HasLevel, BookTypeOK
    <2>2. /\ node' = remove(levels[s][p], node, o).node
          /\ levels' = IF empty(remove(levels[s][p], node, o).q) THEN EraseLevel(s, p)
                       ELSE SetLevel(s, p, remove(levels[s][p], node, o).q)
      BY <1>0, <1>5 DEF CancelOrder
    <2>3. /\ \A t \in Sides, x \in Prices \cup {0} : t # s \/ x # p =>
                /\ x \in DOMAIN levels'[t] <=> x \in DOMAIN levels[t]
                /\ x \in DOMAIN levels[t] => levels'[t][x] = levels[t][x]
          /\ \/ p \in DOMAIN levels'[s] /\ levels'[s][p] = remove(levels[s][p], node, o).q
             \/ p \notin DOMAIN levels'[s] /\ empty(remove(levels[s][p], node, o).q)
      <3>1. CASE empty(remove(levels[s][p], node, o).q)
        BY <1>2, <1>4, <2>2, <3>1, EraseLevelMaps
      <3>2. CASE ~empty(remove(levels[s][p], node, o).q)
        BY <1>2, <1>4, <2>2, <3>2, SetLevelMaps
      <3> QED
        BY <3>1, <3>2
    <2> QED
      BY <1>1, <1>3, <1>4, <2>1, <2>2, <2>3, LeavesLevel
  <1>6. CASE ~HasLevel(s, p)
    <2>1. UNCHANGED <<levels, node>>
      BY <1>0, <1>6 DEF CancelOrder
    <2>2. \A t \in Sides, x \in Prices \cup {0} : o \notin At(t, x)
      <3>1. LevelOK(s, p)
        BY <1>4 DEF BInv, Linked
      <3> QED
        BY <1>0, <1>6, <3>1 DEF LevelOK, At
    <2>3. /\ is_free' = is_free \cup {o} /\ word' = [word EXCEPT ![o] = next_free_index]
          /\ shares' = shares /\ terms' = [terms EXCEPT ![o] = NoTerms]
      BY <1>1 DEF Free, Pool!Deallocate
    <2>4. Pool!Next
      BY <1>1 DEF Free, Pool!Next
    <2>5. Owned'
      BY <1>1, <1>2, <2>3 DEF BInv, Owned, Pool!InUse
    <2>6. \A t \in Sides, x \in Prices \cup {0} : At(t, x)' = At(t, x)
      BY <1>1, <1>2, <1>3, <2>2, <2>3 DEF At, Pool!InUse
    <2> QED
      BY <2>1, <2>4, <2>5, <2>6, LinkedKept DEF BInv
  <1> QED
    BY <1>5, <1>6

----------------------------------------------------------------------------
\* An empty book holds no order.
LEMMA InitBInv == Init => BInv
  <1> SUFFICES ASSUME Init PROVE BInv
    OBVIOUS
  <1>1. IInv
    BY InitIInv
  <1>2. PP!IInv
    BY PoolInit DEF Init
  <1>3. Pool!InUse = {}
    BY DEF Init, Pool!Init, Pool!InUse
  <1>4. Owned
    BY <1>3 DEF Init, Owned, NoTaker
  <1>5. Linked
    <2>1. \A s \in Sides : DOMAIN levels[s] = {}
      BY DEF Init
    <2> QED
      BY <1>3, <2>1 DEF Linked, LevelOK, HasLevel, At
  <1> QED
    BY <1>1, <1>2, <1>4, <1>5 DEF BInv

\* Every step of the book is a step of the owner of a pool, or none.
LEMMA StepBInv ==
    ASSUME BInv, [CarefulNext]_vars
    PROVE  (Pool!Next \/ UNCHANGED poolVars) /\ Owned' /\ Linked'
  <1>1. CASE CarefulCall
    <2>1. CASE AddOrderFails
      <3>1. UNCHANGED vars /\ pc = "idle"
        BY <2>1 DEF AddOrderFails
      <3> QED
        BY <3>1, QuietBInv DEF vars, callVars, BInv, Owned
    <2>2. ASSUME NEW size \in Sizes, NEW price \in Prices, NEW side \in Sides, NEW type \in Types,
                 MatchOrder(size, price, side, type)
          PROVE  UNCHANGED poolVars /\ Owned' /\ Linked'
      <3>1. /\ UNCHANGED <<poolVars, terms, node, levels>> /\ pc = "idle" /\ pc' = "match"
            /\ taker'.order = NULL /\ taker.order = NULL
        BY <2>2 DEF MatchOrder, BInv, Owned
      <3> QED
        BY <3>1, QuietBInv
    <2> QED
      BY <1>1, <2>1, <2>2, AddOrderBInv, CancelOrderBInv DEF CarefulCall
  <1>2. CASE Step
    <2>1. CASE EnterLevel \/ StopMatching \/ LevelLeft
      <3>1. /\ UNCHANGED <<poolVars, terms, node, levels, taker>>
            /\ pc # "close" /\ pc' \notin {"idle", "close"}
        BY <2>1 DEF EnterLevel, StopMatching, LevelLeft
      <3> QED
        BY <3>1, QuietBInv
    <2>2. CASE ReturnMatched
      <3>1. /\ UNCHANGED <<poolVars, terms, node, levels>> /\ pc = "return" /\ pc' = "idle"
            /\ taker'.order = NULL /\ taker.order = NULL
        BY <2>2 DEF ReturnMatched, Return, NoTaker
      <3> QED
        BY <3>1, QuietBInv
    <2>3. CASE LevelTaken
      BY <2>3, LevelTakenBInv DEF LevelTaken
    <2> QED
      BY <1>2, <2>1, <2>2, <2>3, MatchHeadBInv, CloseHeadBInv, RestRemainderBInv, FullyMatchedBInv
         DEF Step
  <1>3. CASE UNCHANGED vars
    <2>1. UNCHANGED <<poolVars, node, levels>> /\ Owned'
      BY <1>3 DEF vars, callVars, poolVars, BInv, Owned, Pool!InUse
    <2>2. \A s \in Sides, p \in Prices \cup {0} : At(s, p)' = At(s, p)
      BY <1>3 DEF vars, callVars, poolVars, At, Closing, Level, Pool!InUse
    <2> QED
      BY <2>1, <2>2, LinkedKept DEF BInv
  <1> QED
    BY <1>1, <1>2, <1>3 DEF CarefulNext

\* The invariant for callers whose cancels are harmless.
LEMMA NextBInv == BInv /\ [CarefulNext]_vars => BInv'
  <1> SUFFICES ASSUME BInv, [CarefulNext]_vars PROVE BInv'
    OBVIOUS
  <1>1. (Pool!Next \/ UNCHANGED poolVars) /\ Owned' /\ Linked'
    BY StepBInv
  <1>2. PP!IInv'
    BY <1>1, PoolStep DEF BInv
  <1>3. IInv'
    BY NextIInv, CarefulUnlessTold DEF BInv
  <1> QED
    BY <1>1, <1>2, <1>3 DEF BInv

\* Callers that are told not to cancel filled orders are such callers.
LEMMA AlwaysBInv ==
    ASSUME ~CancelsFilled
    PROVE  Spec => []BInv
  <1>1. [Next]_vars => [CarefulNext]_vars
    BY CarefulUnlessTold
  <1> QED
    BY <1>1, InitBInv, NextBInv, PTL DEF Spec

(***************************************************************************)
(* The pool's and the book's variables keep their types; in particular the *)
(* bytes of a live order are never followed as a link out of the store.    *)
(***************************************************************************)
THEOREM BookTypes ==
    ASSUME ~CancelsFilled
    PROVE  Spec => []TypeOK
  <1>1. BInv => TypeOK
    BY PoolFacts DEF BInv, IInv, Shape, TypeOK
  <1> QED
    BY <1>1, AlwaysBInv, PTL

\* A level that holds the orders that belong to it is intact.
LEMMA LevelsAreIntact == BInv => BookIntact
  <1> SUFFICES ASSUME BInv, NEW s \in Sides, NEW p \in DOMAIN levels[s]
               PROVE  LET q == levels[s][p]
                          w == Walk(q, node)
                      IN  /\ empty(q) => Working(s, p)
                          /\ Represents(q, node, w)
                          /\ \A i \in DOMAIN w :
                                /\ w[i] \in Pool!InUse \ {taker.order}
                                /\ terms[w[i]].side = s /\ terms[w[i]].price = p
                                /\ shares[w[i]] > 0 \/ Closing(w[i])
    BY DEF BookIntact
  <1> DEFINE w == Walk(levels[s][p], node)
  <1>1. empty(levels[s][p]) => Working(s, p)
    BY DEF BInv, IInv, Shape
  <1>2. Holds(Pool!Slots, levels[s][p], node, At(s, p))
    BY DEF BInv, Linked, LevelOK, HasLevel, IInv, Shape, BookTypeOK
  <1>3. Represents(levels[s][p], node, w)
    BY <1>2, NullIsNoSlot, HoldsWalk
  <1>4. DOMAIN w = 1 .. levels[s][p].size /\ At(s, p) = {w[i] : i \in 1 .. levels[s][p].size}
    BY <1>2, NullIsNoSlot, HoldsWalk
  <1>5. \A i \in DOMAIN w : w[i] \in At(s, p)
    BY <1>4
  <1> HIDE DEF w
  <1>6. \A i \in DOMAIN w :
           /\ w[i] \in Pool!InUse \ {taker.order}
           /\ terms[w[i]].side = s /\ terms[w[i]].price = p
           /\ shares[w[i]] > 0 \/ Closing(w[i])
    BY <1>5 DEF At
  <1> QED
    BY <1>1, <1>3, <1>6 DEF w

(***************************************************************************)
(* In every reachable state, also in the middle of a call, every level is  *)
(* a sound list of live orders of its side and price with shares left, and *)
(* only the level that is being worked at may be empty.                    *)
(***************************************************************************)
THEOREM LevelsIntact ==
    ASSUME ~CancelsFilled
    PROVE  Spec => []BookIntact
  BY LevelsAreIntact, AlwaysBInv, PTL

\* An order with shares left belongs to a level between calls.
LEMMA OrdersAreFindable == BInv => NoOrderLost
  <1> SUFFICES ASSUME BInv, pc = "idle", NEW o \in Pool!InUse, shares[o] > 0
               PROVE  /\ HasLevel(terms[o].side, terms[o].price)
                      /\ \E i \in 1 .. levels[terms[o].side][terms[o].price].size :
                            Walk(levels[terms[o].side][terms[o].price], node)[i] = o
    BY DEF NoOrderLost
  <1>1. PICK s, p : s = terms[o].side /\ p = terms[o].price
    OBVIOUS
  <1>2. s \in Sides /\ p \in Prices \cup {0} /\ o # taker.order
    BY <1>1, NullIsNoSlot DEF BInv, IInv, Shape, BookTypeOK, Owned, Pool!InUse
  <1>3. o \in At(s, p)
    BY <1>1, <1>2 DEF At
  <1>4. HasLevel(s, p) /\ Holds(Pool!Slots, levels[s][p], node, At(s, p))
    BY <1>2, <1>3 DEF BInv, Linked, LevelOK
  <1>5. At(s, p) = {Walk(levels[s][p], node)[i] : i \in 1 .. levels[s][p].size}
    BY <1>4, NullIsNoSlot, HoldsWalk
  <1> QED
    BY <1>1, <1>3, <1>4, <1>5

(***************************************************************************)
(* Between calls, every live order with shares left is met by a reader of  *)
(* the level of its side and price: none is lost by a fill, a cancel or    *)
(* the erasure of a level.                                                 *)
(***************************************************************************)
THEOREM OrdersFindable ==
    ASSUME ~CancelsFilled
    PROVE  Spec => []NoOrderLost
  BY OrdersAreFindable, AlwaysBInv, PTL

(***************************************************************************)
(* Every step of the book allocates, frees or writes one live order, or    *)
(* leaves the pool alone: the book frees nothing twice and writes to       *)
(* nothing it has freed, so that all MemPoolProofs shows of a pool holds   *)
(* of order_pool_.                                                         *)
(***************************************************************************)
THEOREM BookOwnsPool ==
    ASSUME ~CancelsFilled
    PROVE  Spec => PoolDiscipline
  <1>1. Init => Pool!Init
    BY DEF Init
  <1>2. BInv /\ [Next]_vars => [Pool!Next]_Pool!vars
    BY StepBInv, CarefulUnlessTold DEF poolVars, Pool!vars
  <1> QED
    BY <1>1, <1>2, AlwaysBInv, PTL DEF Spec, PoolDiscipline, Pool!Spec

----------------------------------------------------------------------------
(* Who is on the book.                                                     *)

OnBookIsAt ==
    OnBook = {o \in Pool!Slots : \E s \in Sides, p \in Prices : o \in At(s, p)}

\* A reader of the levels meets the orders that belong to them.
LEMMA OnBookIsLinked == BInv => OnBookIsAt
  <1> SUFFICES ASSUME BInv PROVE OnBookIsAt
    OBVIOUS
  <1>1. ASSUME NEW s \in Sides, NEW p \in DOMAIN levels[s]
        PROVE  /\ p \in Prices
               /\ At(s, p) = {Walk(levels[s][p], node)[i] : i \in 1 .. levels[s][p].size}
    <2>1. p \in Prices /\ HasLevel(s, p)
      BY DEF BInv, IInv, Shape, BookTypeOK, HasLevel
    <2>2. Holds(Pool!Slots, levels[s][p], node, At(s, p))
      BY <2>1 DEF BInv, Linked, LevelOK
    <2> QED
      BY <2>1, <2>2, NullIsNoSlot, HoldsWalk
  <1>2. ASSUME NEW o \in Pool!Slots, NEW s \in Sides, NEW p \in DOMAIN levels[s],
               NEW i \in 1 .. levels[s][p].size, Walk(levels[s][p], node)[i] = o
        PROVE  \E t \in Sides, x \in Prices : o \in At(t, x)
    BY <1>1, <1>2
  <1>3. ASSUME NEW o \in Pool!Slots, NEW s \in Sides, NEW p \in Prices, o \in At(s, p)
        PROVE  o \in OnBook
    <2>1. p \in DOMAIN levels[s]
      BY <1>3 DEF BInv, Linked, LevelOK, HasLevel
    <2>2. \E i \in 1 .. levels[s][p].size : Walk(levels[s][p], node)[i] = o
      BY <1>1, <1>3, <2>1
    <2> QED
      BY <2>1, <2>2 DEF OnBook
  <1>4. \A o \in OnBook : \E t \in Sides, x \in Prices : o \in At(t, x)
    BY <1>2 DEF OnBook
  <1>5. OnBook \subseteq Pool!Slots
    BY DEF OnBook
  <1> QED
    BY <1>3, <1>4, <1>5 DEF OnBookIsAt

\* A cancel takes its order from the level it belongs to, if any.
LEMMA CancelLeavesOthers ==
    ASSUME BInv, NEW o \in Pool!InUse, CancelOrder(o), NEW s, NEW p
    PROVE  At(s, p)' = At(s, p) \ {o}
  <1>1. pc = "idle" /\ pc' = "idle" /\ UNCHANGED <<taker, shares>>
    BY DEF CancelOrder, callVars, Free, Pool!Deallocate
  <1>2. /\ is_free' = is_free \cup {o} /\ terms' = [terms EXCEPT ![o] = NoTerms]
        /\ terms \in [Pool!Slots -> [price : Prices \cup {0}, side : Sides]]
    BY DEF CancelOrder, Free, Pool!Deallocate, BInv, IInv, Shape, BookTypeOK
  <1> QED
    BY <1>1, <1>2 DEF At, Closing, Pool!InUse

(***************************************************************************)
(* "Removes an order from the order book": a cancel takes its order off    *)
(* the book and no other, provided that filled orders are cancelled only   *)
(* where no level has their price.  The run that lets callers cancel them  *)
(* anywhere shows that the proviso is needed.                              *)
(***************************************************************************)
THEOREM CancelsAreExact ==
    ASSUME ~CancelsFilled
    PROVE  Spec => CancelRemovesOnlyItsOrder
  <1>0. BInv' => OnBookIsAt'
    BY OnBookIsLinked, PTL
  <1>1. BInv /\ [Next]_vars => BInv'
    BY NextBInv, CarefulUnlessTold
  <1>2. ASSUME BInv, BInv', NEW o \in Pool!InUse, CancelOrder(o)
        PROVE  OnBook' = OnBook \ {o}
    <2>1. OnBook = {y \in Pool!Slots : \E s \in Sides, p \in Prices : y \in At(s, p)}
      BY <1>2, OnBookIsLinked DEF OnBookIsAt
    <2>2. OnBook' = {y \in Pool!Slots : \E s \in Sides, p \in Prices : y \in At(s, p)'}
      BY <1>0, <1>2 DEF OnBookIsAt
    <2>3. \A s, p : At(s, p)' = At(s, p) \ {o}
      BY <1>2, CancelLeavesOthers
    <2> QED
      BY <2>1, <2>2, <2>3
  <1>3. BInv /\ [Next]_vars =>
           [\A o \in Pool!InUse : CancelOrder(o) => OnBook' = OnBook \ {o}]_vars
    BY <1>1, <1>2
  <1> QED
    BY <1>3, AlwaysBInv, PTL DEF Spec, CancelRemovesOnlyItsOrder

----------------------------------------------------------------------------
(***************************************************************************)
(* The book implements the matching algorithm, for every pool size and     *)
(* every set of prices and sizes: each step of a call is a step of         *)
(* MatchingEngine or leaves it alone.                                      *)
(*                                                                         *)
(* Beyond the integrity of the levels (BInv) the argument needs that the   *)
(* level a matcher works at is still the best one and still crosses        *)
(* (Chosen), and that a matcher which returns with shares left saw that    *)
(* the best price does not cross (Spent).  The steps are followed by what  *)
(* they do to the line of orders at each price.                            *)
(***************************************************************************)

Chosen ==
    pc \in {"level", "close"} => IsBest(Opposite(taker.side), it) /\ Crosses(it)

Spent ==
    pc = "return" /\ total_matched < taker.size =>
        \A p \in DOMAIN levels[Opposite(taker.side)] :
            IsBest(Opposite(taker.side), p) => ~Crosses(p)

MInv == BInv /\ Chosen /\ Spent

----------------------------------------------------------------------------
\* Nothing is matched yet.
LEMMA InitMInv == Init => MInv
  BY InitBInv DEF Init, MInv, Chosen, Spent

\* Every step keeps the accounts of the call.
LEMMA NextMInv == MInv /\ [CarefulNext]_vars => MInv'
  <1> SUFFICES ASSUME MInv, [CarefulNext]_vars PROVE Chosen' /\ Spent'
    BY NextBInv DEF MInv
  <1>1. /\ total_matched \in Nat /\ taker.size \in Nat
        /\ Opposite(taker.side) \in Sides /\ BookTypeOK
    BY LevelFacts, SizesAssumption DEF MInv, BInv, IInv, Shape, BookTypeOK, Takers
  <1>2. CASE CarefulCall
    <2>1. pc' \in {"idle", "match"}
      BY <1>2 DEF CarefulCall, AddOrderFails, AddOrder, MatchOrder, CancelOrder, vars, callVars
    <2> QED
      BY <2>1 DEF Chosen, Spent
  <1>3. CASE EnterLevel
    BY <1>3 DEF EnterLevel, Chosen, Spent, IsBest, HasLevel, BestFirst, Crosses
  <1>4. CASE StopMatching
    BY <1>1, <1>4 DEF StopMatching, Chosen, Spent, IsBest, HasLevel, BestFirst, Crosses
  <1>5. CASE MatchHead
    <2>1. /\ pc = "level" /\ pc' \in {"level", "close"} /\ UNCHANGED <<levels, taker, it>>
      BY <1>5 DEF MatchHead
    <2> QED
      BY <2>1 DEF MInv, Chosen, Spent, IsBest, HasLevel, BestFirst, Crosses
  <1>6. CASE CloseHead
    <2>1. PICK s, q : s = Opposite(taker.side) /\ levels' = SetLevel(s, it, q)
      BY <1>6 DEF CloseHead
    <2>2. pc = "close" /\ pc' = "level" /\ UNCHANGED <<taker, it>>
      BY <1>6 DEF CloseHead
    <2>3. it \in DOMAIN levels[s]
      BY <2>1, <2>2, LevelFacts DEF MInv, BInv, IInv
    <2>4. DOMAIN levels'[s] = DOMAIN levels[s]
      BY <1>1, <2>1, <2>3 DEF SetLevel, BookTypeOK
    <2> QED
      BY <2>1, <2>2, <2>4 DEF MInv, Chosen, Spent, IsBest, HasLevel, BestFirst, Crosses
  <1>7. CASE LevelTaken
    BY <1>7 DEF LevelTaken, Chosen, Spent
  <1>8. CASE LevelLeft
    BY <1>1, <1>8 DEF LevelLeft, Chosen, Spent
  <1>9. CASE RestRemainder \/ FullyMatched \/ ReturnMatched
    BY <1>9 DEF RestRemainder, FullyMatched, ReturnMatched, Return, Chosen, Spent
  <1>10. CASE UNCHANGED vars
    BY <1>10 DEF vars, callVars, MInv, Chosen, Spent, IsBest, HasLevel, BestFirst, Crosses
  <1> QED
    BY <1>2, <1>3, <1>4, <1>5, <1>6, <1>7, <1>8, <1>9, <1>10 DEF CarefulNext, Step

\* The invariant of the refinement.
LEMMA AlwaysMInv ==
    ASSUME ~CancelsFilled
    PROVE  Spec => []MInv
  <1>1. [Next]_vars => [CarefulNext]_vars
    BY CarefulUnlessTold
  <1> QED
    BY <1>1, InitMInv, NextMInv, PTL DEF Spec

----------------------------------------------------------------------------
(* The lines of orders.                                                    *)

\* A line is the members of its level, each once, in the order of the links.
LEMMA LineFacts ==
    ASSUME BInv, NEW s \in Sides, NEW p \in Prices
    PROVE  /\ Line(s, p) \in Seq(Pool!Slots)
           /\ \A i \in 1 .. Len(Line(s, p)) : Line(s, p)[i] \in At(s, p)
           /\ \A o \in At(s, p) : \E i \in 1 .. Len(Line(s, p)) : Line(s, p)[i] = o
           /\ \A i, j \in 1 .. Len(Line(s, p)) : Line(s, p)[i] = Line(s, p)[j] => i = j
           /\ HasLevel(s, p) => Represents(levels[s][p], node, Line(s, p))
  <1>1. LevelOK(s, p)
    BY DEF BInv, Linked
  <1>2. CASE HasLevel(s, p)
    <2>1. Holds(Pool!Slots, levels[s][p], node, At(s, p))
      BY <1>1, <1>2 DEF LevelOK
    <2>2. PICK w \in Seq(Pool!Slots) :
             Represents(levels[s][p], node, w) /\ At(s, p) = {w[i] : i \in 1 .. Len(w)}
      BY <2>1 DEF Holds
    <2>3. Line(s, p) = w
      BY <1>2, <2>2, NullIsNoSlot, WalkMeetsAll DEF Line
    <2>4. \A i, j \in 1 .. Len(w) : w[i] = w[j] => i = j
      BY <2>2 DEF Represents
    <2> QED
      BY <2>2, <2>3, <2>4
  <1>3. CASE ~HasLevel(s, p)
    <2>1. Line(s, p) = << >> /\ At(s, p) = {}
      BY <1>1, <1>3 DEF Line, LevelOK
    <2> QED
      BY <1>3, <2>1
  <1> QED
    BY <1>2, <1>3

\* The walk of a level whose queue and members' links stay meets the same.
LEMMA LineKept ==
    ASSUME BInv, NEW s \in Sides, NEW p \in Prices,
           HasLevel(s, p)' <=> HasLevel(s, p),
           HasLevel(s, p) => levels'[s][p] = levels[s][p],
           \A y \in At(s, p) : node'[y] = node[y]
    PROVE  Line(s, p)' = Line(s, p)
  <1>1. CASE HasLevel(s, p)
    <2>1. PICK w : w = Line(s, p) /\ w \in Seq(Pool!Slots)
      BY LineFacts
    <2>2. Represents(levels[s][p], node, w)
      BY <1>1, <2>1, LineFacts
    <2>3. \A i \in 1 .. Len(w) : node'[w[i]] = node[w[i]]
      BY <2>1, LineFacts
    <2>4. Represents(levels[s][p], node', w)
      BY <2>2, <2>3, RepresentsFrame
    <2>5. Walk(levels[s][p], node') = w
      BY <2>1, <2>4, NullIsNoSlot, WalkMeetsAll
    <2> QED
      BY <1>1, <2>1, <2>5 DEF Line
  <1>2. CASE ~HasLevel(s, p)
    BY <1>2 DEF Line
  <1> QED
    BY <1>1, <1>2

\* Erased or not, a level that loses an order is its line without that order.
LEMMA LineShorter ==
    ASSUME BInv, NEW s \in Sides, NEW p \in Prices, NEW k \in 1 .. Len(Line(s, p)),
           LET r == remove(levels[s][p], node, Line(s, p)[k])
           IN  /\ node' = r.node
               /\ \/ p \in DOMAIN levels'[s] /\ levels'[s][p] = r.q
                  \/ p \notin DOMAIN levels'[s] /\ empty(r.q)
    PROVE  Line(s, p)' = Without(Line(s, p), k)
  <1>1. PICK w : w = Line(s, p) /\ w \in Seq(Pool!Slots)
    BY LineFacts
  <1>2. HasLevel(s, p)
    BY DEF Line
  <1>3. Represents(levels[s][p], node, w)
    BY <1>1, <1>2, LineFacts
  <1>4. levels[s][p] \in QueuesOf(Pool!Slots) /\ node \in [Pool!Slots -> NodesOf(Pool!Slots)]
    BY <1>2 DEF HasLevel, BInv, IInv, Shape, BookTypeOK, PriceLevels, Links
  <1>5. PICK r : r = remove(levels[s][p], node, w[k])
    OBVIOUS
  <1>6. Without(w, k) \in Seq(Pool!Slots) /\ Represents(r.q, r.node, Without(w, k))
    BY <1>1, <1>3, <1>4, <1>5, NullIsNoSlot, RemoveRepresents
  <1>7. CASE p \in DOMAIN levels'[s] /\ levels'[s][p] = r.q
    <2>1. Walk(r.q, r.node) = Without(w, k)
      BY <1>6, NullIsNoSlot, WalkMeetsAll
    <2> QED
      BY <1>1, <1>5, <1>7, <2>1 DEF Line, HasLevel
  <1>8. CASE p \notin DOMAIN levels'[s] /\ empty(r.q)
    <2>1. PICK v : v = Without(w, k) /\ v \in Seq(Pool!Slots)
      BY <1>6
    <2>2. Len(v) = 0
      BY <1>6, <1>8, <2>1 DEF Represents, empty
    <2>3. v = << >>
      BY <2>1, <2>2
    <2> QED
      BY <1>1, <1>8, <2>1, <2>3 DEF Line, HasLevel
  <1> QED
    BY <1>1, <1>5, <1>7, <1>8

\* An order that is appended is the last in line.
LEMMA LineLonger ==
    ASSUME BInv, NEW s \in Sides, NEW p \in Prices, NEW o, o \in Pool!Slots, o \notin At(s, p),
           node' = append(LevelAt(s, p), node, o).node,
           p \in DOMAIN levels'[s], levels'[s][p] = append(LevelAt(s, p), node, o).q
    PROVE  Line(s, p)' = Append(Line(s, p), o)
  <1>1. PICK w : w = Line(s, p) /\ w \in Seq(Pool!Slots)
    BY LineFacts
  <1>2. PICK q : q = LevelAt(s, p)
    OBVIOUS
  <1>3. Represents(q, node, w)
    <2>1. CASE HasLevel(s, p)
      BY <1>1, <1>2, <2>1, LineFacts DEF LevelAt
    <2>2. CASE ~HasLevel(s, p)
      <3>1. q = EmptyQueue /\ w = << >>
        BY <1>1, <1>2, <2>2 DEF LevelAt, Line
      <3> QED
        BY <3>1 DEF Represents, EmptyQueue
    <2> QED
      BY <2>1, <2>2
  <1>4. q \in QueuesOf(Pool!Slots)
    BY <1>2 DEF LevelAt, HasLevel, BInv, IInv, Shape, BookTypeOK, PriceLevels, QueuesOf, EmptyQueue
  <1>5. node \in [Pool!Slots -> NodesOf(Pool!Slots)]
    BY DEF BInv, IInv, Shape, BookTypeOK, Links
  <1>6. \A i \in 1 .. Len(w) : w[i] # o
    BY <1>1, LineFacts
  <1>7. Represents(append(q, node, o).q, append(q, node, o).node, Append(w, o))
    BY <1>1, <1>3, <1>4, <1>5, <1>6, NullIsNoSlot, AppendRepresents
  <1>8. Append(w, o) \in Seq(Pool!Slots)
    BY <1>1
  <1>9. Walk(append(q, node, o).q, append(q, node, o).node) = Append(w, o)
    BY <1>7, <1>8, NullIsNoSlot, WalkMeetsAll
  <1> QED
    BY <1>1, <1>2, <1>9 DEF Line, HasLevel

\* The lines of the other levels, when one changes.
LEMMA OtherLine ==
    ASSUME BInv, NEW s, NEW p, NEW o, NEW t, NEW x,
           t \in Sides, x \in Prices, t # s \/ x # p,
           x \in DOMAIN levels'[t] <=> x \in DOMAIN levels[t],
           x \in DOMAIN levels[t] => levels'[t][x] = levels[t][x],
           \A y \in Pool!Slots : y \notin At(s, p) /\ y # o => node'[y] = node[y],
           o \notin At(t, x)
    PROVE  Line(t, x)' = Line(t, x)
  <1>1. At(t, x) \subseteq Pool!Slots
    BY DEF At, Pool!InUse
  <1>2. \A y \in At(t, x) : y \notin At(s, p) /\ y # o
    BY OneLevelEach
  <1>3. \A y \in At(t, x) : node'[y] = node[y]
    BY <1>1, <1>2
  <1>4. (HasLevel(t, x)' <=> HasLevel(t, x)) /\ (HasLevel(t, x) => levels'[t][x] = levels[t][x])
    BY DEF HasLevel
  <1> QED
    BY <1>3, <1>4, LineKept

----------------------------------------------------------------------------
(* What the steps that change a level do to the lines.                     *)

\* CloseHead takes the first of the line at which the matcher works.
LEMMA CloseHeadLines ==
    ASSUME BInv, CloseHead, NEW s, NEW p, s = Opposite(taker.side), p = it
    PROVE  /\ s \in Sides /\ p \in Prices
           /\ Len(Line(s, p)) # 0 /\ Line(s, p)' = Without(Line(s, p), 1)
           /\ \A t \in Sides, x \in Prices : t # s \/ x # p => Line(t, x)' = Line(t, x)
  <1>0. PICK o : o = peek(Level)
    OBVIOUS
  <1>1. /\ pc = "close"
        /\ levels' = SetLevel(s, p, remove(Level, node, o).q)
        /\ node' = remove(Level, node, o).node
    BY <1>0 DEF CloseHead, HeadRemoved
  <1>2. /\ s \in Sides /\ p \in Prices /\ HasLevel(s, p) /\ Level = levels[s][p]
        /\ ~empty(Level) => o \in At(s, p)
    BY <1>0, <1>1, WorkedLevel DEF HasLevel
  <1>3. ~empty(Level) /\ o \in At(s, p)
    BY <1>1, <1>2, LevelFacts DEF BInv, IInv
  <1>4. PICK w : w = Line(s, p) /\ w \in Seq(Pool!Slots)
    BY <1>2, LineFacts
  <1>5. PICK n \in Nat : n = Len(w)
    BY <1>4
  <1>6. n # 0 /\ w[1] = o
    <2>1. Represents(levels[s][p], node, w)
      BY <1>2, <1>4, LineFacts
    <2> QED
      BY <1>0, <1>2, <1>3, <1>5, <2>1 DEF Represents, empty, peek
  <1>7. /\ p \in DOMAIN levels'[s] /\ levels'[s][p] = remove(levels[s][p], node, o).q
        /\ \A t \in Sides, x \in Prices \cup {0} : t # s \/ x # p =>
              /\ x \in DOMAIN levels'[t] <=> x \in DOMAIN levels[t]
              /\ x \in DOMAIN levels[t] => levels'[t][x] = levels[t][x]
    BY <1>1, <1>2, SetLevelMaps DEF BInv, IInv, Shape
  <1>8. Line(s, p)' = Without(w, 1)
    <2>1. 1 \in 1 .. Len(Line(s, p)) /\ Line(s, p)[1] = o
      BY <1>4, <1>5, <1>6
    <2>2. node' = remove(levels[s][p], node, o).node
      BY <1>1, <1>2
    <2> QED
      BY <1>2, <1>4, <1>7, <2>1, <2>2, LineShorter
  <1>9. ASSUME NEW t \in Sides, NEW x \in Prices, t # s \/ x # p
        PROVE  Line(t, x)' = Line(t, x)
    <2>0. s \in Sides /\ p \in Prices /\ o \in At(s, p) /\ BInv
      BY <1>2, <1>3
    <2>1. \A y \in Pool!Slots \ At(s, p) : remove(levels[s][p], node, o).node[y] = node[y]
      BY ONLY <2>0, UnlinkedFromLevel
    <2>2. \A y \in Pool!Slots : y \notin At(s, p) /\ y # o => node'[y] = node[y]
      BY <1>1, <1>2, <2>1
    <2>3. o \notin At(t, x)
      BY <1>3, <1>9, OneLevelEach
    <2>4. /\ x \in DOMAIN levels'[t] <=> x \in DOMAIN levels[t]
          /\ x \in DOMAIN levels[t] => levels'[t][x] = levels[t][x]
      BY <1>7, <1>9
    <2>5. BInv
      OBVIOUS
    <2> QED
      BY ONLY <1>9, <2>2, <2>3, <2>4, <2>5, OtherLine
  <1> QED
    BY <1>2, <1>4, <1>5, <1>6, <1>8, <1>9

\* An empty level has no line to lose.
LEMMA LevelTakenLines ==
    ASSUME BInv, LevelTaken
    PROVE  \A t \in Sides, x \in Prices : Line(t, x)' = Line(t, x)
  <1>0. PICK s, p : s = Opposite(taker.side) /\ p = it
    OBVIOUS
  <1>1. /\ pc = "level" /\ empty(Level) /\ levels' = EraseLevel(s, p) /\ UNCHANGED node
    BY <1>0 DEF LevelTaken
  <1>2. s \in Sides /\ p \in Prices /\ HasLevel(s, p) /\ Level = levels[s][p]
    BY <1>0, <1>1, WorkedLevel DEF HasLevel
  <1>3. /\ p \notin DOMAIN levels'[s]
        /\ \A t \in Sides, x \in Prices \cup {0} : t # s \/ x # p =>
              /\ x \in DOMAIN levels'[t] <=> x \in DOMAIN levels[t]
              /\ x \in DOMAIN levels[t] => levels'[t][x] = levels[t][x]
    BY <1>1, <1>2, EraseLevelMaps DEF BInv, IInv, Shape
  <1>4. Line(s, p)' = Line(s, p)
    <2>1. PICK w : w = Line(s, p) /\ w \in Seq(Pool!Slots)
      BY <1>2, LineFacts
    <2>2. Represents(levels[s][p], node, w)
      BY <1>2, <2>1, LineFacts
    <2>3. Len(w) = 0
      BY <1>1, <1>2, <2>2 DEF Represents, empty
    <2>4. w = << >>
      BY <2>1, <2>3
    <2> QED
      BY <1>3, <2>1, <2>4 DEF Line, HasLevel
  <1>5. ASSUME NEW t \in Sides, NEW x \in Prices, t # s \/ x # p
        PROVE  Line(t, x)' = Line(t, x)
    <2>1. (HasLevel(t, x)' <=> HasLevel(t, x)) /\ (HasLevel(t, x) => levels'[t][x] = levels[t][x])
      BY <1>3, <1>5 DEF HasLevel
    <2> QED
      BY <1>1, <2>1, LineKept
  <1> QED
    BY <1>4, <1>5

\* The remainder is the last of its line.
LEMMA RestRemainderLines ==
    ASSUME BInv, RestRemainder, NEW s, NEW p, s = taker.side, p = taker.price
    PROVE  /\ s \in Sides /\ p \in Prices
           /\ Line(s, p)' = Append(Line(s, p), taker.order)
           /\ \A t \in Sides, x \in Prices : t # s \/ x # p => Line(t, x)' = Line(t, x)
  <1>0. PICK o : o = taker.order
    OBVIOUS
  <1>1. PICK r : r = append(LevelAt(s, p), node, o)
    OBVIOUS
  <1>2. pc = "return" /\ o # NULL /\ levels' = SetLevel(s, p, r.q) /\ node' = r.node
    BY <1>0, <1>1 DEF RestRemainder
  <1>3. s \in Sides /\ p \in Prices /\ BookTypeOK
    BY <1>2 DEF BInv, IInv, Shape, BookTypeOK, Takers
  <1>4. o \in Pool!Slots /\ \A t, x : o \notin At(t, x)
    BY <1>0, <1>2 DEF BInv, Owned, Pool!InUse, At
  <1>5. /\ p \in DOMAIN levels'[s] /\ levels'[s][p] = r.q
        /\ \A t \in Sides, x \in Prices \cup {0} : t # s \/ x # p =>
              /\ x \in DOMAIN levels'[t] <=> x \in DOMAIN levels[t]
              /\ x \in DOMAIN levels[t] => levels'[t][x] = levels[t][x]
    BY <1>2, <1>3, SetLevelMaps
  <1>6. Line(s, p)' = Append(Line(s, p), o)
    BY <1>1, <1>2, <1>3, <1>4, <1>5, LineLonger
  <1>7. ASSUME NEW t \in Sides, NEW x \in Prices, t # s \/ x # p
        PROVE  Line(t, x)' = Line(t, x)
    <2>1. \A y \in Pool!Slots : y \notin At(s, p) /\ y # o => node'[y] = node[y]
      BY <1>1, <1>2, <1>3, <1>4, LinkedIntoLevel
    <2>2. o \notin At(t, x)
      BY <1>4
    <2>3. /\ x \in DOMAIN levels'[t] <=> x \in DOMAIN levels[t]
          /\ x \in DOMAIN levels[t] => levels'[t][x] = levels[t][x]
      BY <1>5, <1>7
    <2>4. BInv
      OBVIOUS
    <2> QED
      BY ONLY <1>7, <2>1, <2>2, <2>3, <2>4, OtherLine
  <1> QED
    BY <1>0, <1>3, <1>6, <1>7

\* A cancel takes one order out of its line and leaves the others in order.
LEMMA CancelOrderLines ==
    ASSUME BInv, NEW o \in Pool!InUse, Harmless(o), CancelOrder(o), NEW s, NEW p,
           s = terms[o].side, p = terms[o].price, HasLevel(s, p)
    PROVE  /\ s \in Sides /\ p \in Prices
           /\ \E k \in 1 .. Len(Line(s, p)) : Line(s, p)' = Without(Line(s, p), k)
           /\ \A t \in Sides, x \in Prices : t # s \/ x # p => Line(t, x)' = Line(t, x)
  <1>1. pc = "idle" /\ taker.order = NULL /\ o \in Pool!Slots
    BY DEF CancelOrder, Pool!InUse, BInv, Owned
  <1>2. s \in Sides /\ p \in Prices \cup {0} /\ BookTypeOK
    BY <1>1 DEF BInv, IInv, Shape, BookTypeOK
  <1>3. p \in Prices /\ o \in At(s, p)
    <2>1. shares[o] > 0
      BY DEF Harmless
    <2> QED
      BY <1>1, <1>2, <2>1, NullIsNoSlot DEF At, HasLevel, BookTypeOK
  <1>4. PICK r : r = remove(levels[s][p], node, o)
    OBVIOUS
  <1>5. /\ node' = r.node
        /\ levels' = IF empty(r.q) THEN EraseLevel(s, p) ELSE SetLevel(s, p, r.q)
    BY <1>4 DEF CancelOrder
  <1>6. /\ \A t \in Sides, x \in Prices \cup {0} : t # s \/ x # p =>
              /\ x \in DOMAIN levels'[t] <=> x \in DOMAIN levels[t]
              /\ x \in DOMAIN levels[t] => levels'[t][x] = levels[t][x]
        /\ \/ p \in DOMAIN levels'[s] /\ levels'[s][p] = r.q
           \/ p \notin DOMAIN levels'[s] /\ empty(r.q)
    <2>1. CASE empty(r.q)
      BY <1>2, <1>5, <2>1, EraseLevelMaps
    <2>2. CASE ~empty(r.q)
      BY <1>2, <1>5, <2>2, SetLevelMaps
    <2> QED
      BY <2>1, <2>2
  <1>7. PICK k \in 1 .. Len(Line(s, p)) : Line(s, p)[k] = o
    BY <1>2, <1>3, LineFacts
  <1>8. Line(s, p)' = Without(Line(s, p), k)
    <2>1. BInv /\ s \in Sides /\ p \in Prices /\ k \in 1 .. Len(Line(s, p))
      BY <1>2, <1>3
    <2>2. /\ node' = remove(levels[s][p], node, Line(s, p)[k]).node
          /\ \/ p \in DOMAIN levels'[s] /\ levels'[s][p] = remove(levels[s][p], node, Line(s, p)[k]).q
             \/ p \notin DOMAIN levels'[s] /\ empty(remove(levels[s][p], node, Line(s, p)[k]).q)
      BY <1>4, <1>5, <1>6, <1>7
    <2> QED
      BY ONLY <2>1, <2>2, LineShorter
  <1>9. ASSUME NEW t \in Sides, NEW x \in Prices, t # s \/ x # p
        PROVE  Line(t, x)' = Line(t, x)
    <2>0. s \in Sides /\ p \in Prices /\ o \in At(s, p) /\ BInv
      BY <1>2, <1>3
    <2>1. \A y \in Pool!Slots \ At(s, p) : remove(levels[s][p], node, o).node[y] = node[y]
      BY ONLY <2>0, UnlinkedFromLevel
    <2>2. \A y \in Pool!Slots : y \notin At(s, p) /\ y # o => node'[y] = node[y]
      BY <1>4, <1>5, <2>1
    <2>3. o \notin At(t, x)
      BY <1>3, <1>9, OneLevelEach
    <2>4. /\ x \in DOMAIN levels'[t] <=> x \in DOMAIN levels[t]
          /\ x \in DOMAIN levels[t] => levels'[t][x] = levels[t][x]
      BY <1>6, <1>9
    <2>5. BInv
      OBVIOUS
    <2> QED
      BY ONLY <1>9, <2>2, <2>3, <2>4, <2>5, OtherLine
  <1> QED
    BY <1>2, <1>3, <1>7, <1>8, <1>9

----------------------------------------------------------------------------
(* What MatchingEngine sees.                                               *)

\* The queue of a price, entry by entry.
LEMMA QueueFacts ==
    ASSUME BInv, NEW s \in Sides, NEW p \in Prices
    PROVE  /\ Gone(s, p) \in {0, 1} /\ Gone(s, p) <= Len(Line(s, p))
           /\ Queue(s, p) \in Seq([ref : Pool!Slots, size : 0 .. MaxSize])
           /\ Len(Queue(s, p)) = Len(Line(s, p)) - Gone(s, p)
           /\ \A i \in 1 .. Len(Line(s, p)) - Gone(s, p) :
                 Queue(s, p)[i] = [ref |-> Line(s, p)[i + Gone(s, p)],
                                   size |-> shares[Line(s, p)[i + Gone(s, p)]]]
  <1>1. PICK w : w = Line(s, p) /\ w \in Seq(Pool!Slots)
    BY LineFacts
  <1>2. PICK g : g = Gone(s, p) /\ g \in {0, 1}
    BY DEF Gone
  <1>3. PICK n \in Nat : n = Len(w)
    BY <1>1
  <1>4. g <= n
    <2>1. CASE g = 1
      <3>1. pc = "close" /\ s = Opposite(taker.side) /\ p = it
        BY <1>2, <2>1 DEF Gone
      <3>2. ~empty(Level)
        BY <3>1, LevelFacts DEF BInv, IInv
      <3>3. peek(Level) \in At(s, p)
        BY <3>1, <3>2, WorkedLevel
      <3>4. \E i \in 1 .. n : w[i] = peek(Level)
        BY <1>1, <1>3, <3>3, LineFacts
      <3> QED
        BY <1>3, <2>1, <3>4
    <2>2. CASE g = 0
      BY <1>3, <2>2
    <2> QED
      BY <1>2, <2>1, <2>2
  <1>5. Queue(s, p) = [i \in 1 .. n - g |-> [ref |-> w[i + g], size |-> shares[w[i + g]]]]
    BY <1>1, <1>2, <1>3 DEF Queue
  <1>6. n - g \in Nat /\ \A i \in 1 .. n - g : i + g \in 1 .. n
    <2>1. g \in Nat
      BY <1>2
    <2> QED
      BY <1>3, <1>4, <2>1
  <1>7. shares \in [Pool!Slots -> 0 .. MaxSize]
    BY DEF BInv, IInv, Shape
  <1>8. \A i \in 1 .. n - g : [ref |-> w[i + g], size |-> shares[w[i + g]]]
                                 \in [ref : Pool!Slots, size : 0 .. MaxSize]
    BY <1>1, <1>3, <1>6, <1>7
  <1>9. Queue(s, p) \in Seq([ref : Pool!Slots, size : 0 .. MaxSize]) /\ Len(Queue(s, p)) = n - g
    <2>1. Queue(s, p) \in [1 .. n - g -> [ref : Pool!Slots, size : 0 .. MaxSize]]
      BY <1>5, <1>8
    <2> QED
      BY <1>6, <2>1, FunctionIsSeq
  <1> QED
    BY <1>1, <1>2, <1>3, <1>4, <1>5, <1>9

\* A line that stays, with the shares of its orders, is the same queue.
LEMMA QueueKept ==
    ASSUME BInv, NEW s \in Sides, NEW p \in Prices,
           Line(s, p)' = Line(s, p), Gone(s, p)' = Gone(s, p),
           \A y \in At(s, p) : shares'[y] = shares[y]
    PROVE  Queue(s, p)' = Queue(s, p)
  <1>1. PICK w, g : w = Line(s, p) /\ g = Gone(s, p)
    OBVIOUS
  <1>2. \A i \in 1 .. Len(w) - g : shares'[w[i + g]] = shares[w[i + g]]
    <2>1. w \in Seq(Pool!Slots) /\ g \in {0, 1}
      BY <1>1, LineFacts DEF Gone
    <2>2. \A i \in 1 .. Len(w) - g : i + g \in 1 .. Len(w)
      BY <2>1
    <2> QED
      BY <1>1, <2>2, LineFacts
  <1>3. Queue(s, p) = [i \in 1 .. Len(w) - g |-> [ref |-> w[i + g], size |-> shares[w[i + g]]]]
    BY <1>1 DEF Queue
  <1>4. Queue(s, p)' = [i \in 1 .. Len(w) - g |-> [ref |-> w[i + g], size |-> shares'[w[i + g]]]]
    BY <1>1 DEF Queue
  <1> QED
    BY <1>2, <1>3, <1>4

\* Only orders of its line are in a queue.
LEMMA QueueRefs ==
    ASSUME BInv, NEW s \in Sides, NEW p \in Prices, NEW i \in DOMAIN Queue(s, p)
    PROVE  Queue(s, p)[i].ref \in At(s, p)
  <1>1. PICK w, g : w = Line(s, p) /\ g = Gone(s, p) /\ w \in Seq(Pool!Slots) /\ g \in {0, 1}
    BY LineFacts DEF Gone
  <1>2. i \in 1 .. Len(w) - g
    BY <1>1 DEF Queue
  <1>3. i + g \in 1 .. Len(w)
    BY <1>1, <1>2
  <1>4. Queue(s, p)[i].ref = w[i + g]
    BY <1>1, <1>2 DEF Queue
  <1> QED
    BY <1>1, <1>3, <1>4, LineFacts

\* Queues that all stay are the same book.
LEMMA QueuesStay ==
    ASSUME \A s \in Sides, p \in Prices : Queue(s, p)' = Queue(s, p)
    PROVE  Queues' = Queues
  BY DEF Queues

\* The book when one of its queues changes.
LEMMA OneQueueChanges ==
    ASSUME NEW s \in Sides, NEW p \in Prices,
           \A t \in Sides, x \in Prices : t # s \/ x # p => Queue(t, x)' = Queue(t, x)
    PROVE  Queues' = [Queues EXCEPT ![s][p] = Queue(s, p)']
  <1>1. Queues = [t \in Sides |-> [x \in Prices |-> Queue(t, x)]]
    BY DEF Queues
  <1>2. Queues' = [t \in Sides |-> [x \in Prices |-> Queue(t, x)']]
    BY DEF Queues
  <1>3. PICK v : v = Queue(s, p)'
    OBVIOUS
  <1>4. [Queues EXCEPT ![s][p] = v] =
           [t \in Sides |-> [x \in Prices |-> IF t = s /\ x = p THEN v ELSE Queue(t, x)]]
    BY <1>1
  <1>5. \A t \in Sides, x \in Prices :
           Queue(t, x)' = IF t = s /\ x = p THEN v ELSE Queue(t, x)
    BY <1>3
  <1>6. Queues' = [t \in Sides |-> [x \in Prices |-> IF t = s /\ x = p THEN v ELSE Queue(t, x)]]
    BY <1>2, <1>5
  <1> QED
    BY <1>3, <1>4, <1>6

\* Outside the matching loop, queues depend on lines and shares only.
LEMMA LinesStay ==
    ASSUME BInv, pc # "close", pc' # "close",
           \A s \in Sides, p \in Prices :
              Line(s, p)' = Line(s, p) /\ \A y \in At(s, p) : shares'[y] = shares[y]
    PROVE  Queues' = Queues
  <1>1. \A s, p : Gone(s, p) = 0 /\ Gone(s, p)' = 0
    BY DEF Gone
  <1>2. ASSUME NEW s \in Sides, NEW p \in Prices PROVE Queue(s, p)' = Queue(s, p)
    BY <1>1, QueueKept
  <1> QED
    BY <1>2, QueuesStay

\* Steps that touch neither the levels nor the links of what they hold.
LEMMA BookStays ==
    ASSUME BInv, pc # "close", pc' # "close", levels' = levels,
           \A s \in Sides, p \in Prices : \A y \in At(s, p) :
              node'[y] = node[y] /\ shares'[y] = shares[y]
    PROVE  Queues' = Queues
  <1>1. ASSUME NEW s \in Sides, NEW p \in Prices PROVE Line(s, p)' = Line(s, p)
    <2>1. HasLevel(s, p)' <=> HasLevel(s, p)
      BY DEF HasLevel
    <2> QED
      BY <2>1, LineKept
  <1> QED
    BY <1>1, LinesStay

----------------------------------------------------------------------------
(* Each step as MatchingEngine sees it.                                    *)

\* A new order has a slot of its own, so it is none of those that rest.
LEMMA AddOrderSubmits ==
    ASSUME MInv, NEW id \in OrderIds, NEW size \in Sizes, NEW price \in Prices,
           NEW side \in Sides, NEW type \in Types, AddOrder(id, size, price, side, type)
    PROVE  Engine!Next
  <1>0. PICK o : o = next_free_index
    OBVIOUS
  <1>1. o \in is_free /\ o \in Pool!Slots
    BY <1>0, PoolFacts DEF MInv, BInv, AddOrder, Pool!Allocate, Pool!TypeOK
  <1>2. /\ pc = "idle" /\ pc' = "match" /\ levels' = levels /\ total_matched' = 0
        /\ taker' = [order |-> o, size |-> size, price |-> price, side |-> side, type |-> type]
    BY <1>0 DEF AddOrder, MInv, BInv, IInv, Shape
  <1>3. /\ shares' = [shares EXCEPT ![o] = size] /\ shares \in [Pool!Slots -> 0 .. MaxSize]
        /\ node' = [node EXCEPT ![o] = NullNode] /\ node \in [Pool!Slots -> Links]
    BY <1>0 DEF AddOrder, Pool!Allocate, MInv, BInv, IInv, Shape, BookTypeOK
  <1>4. \A s, p : o \notin At(s, p) /\ At(s, p) \subseteq Pool!Slots
    BY <1>1 DEF At, Pool!InUse
  <1>5. Queues' = Queues
    BY <1>2, <1>3, <1>4, BookStays DEF MInv
  <1>6. PICK c : c = [ref |-> o, side |-> side, price |-> price, type |-> type,
                      left |-> size, rests |-> TRUE]
    OBVIOUS
  <1>7. Processed = {} /\ Processed' = {c}
    <2>1. size - 0 = size /\ o # NULL
      BY <1>1, NullIsNoSlot, SizesAssumption
    <2>2. CallOrder' = c
      BY <1>2, <1>6, <2>1 DEF CallOrder
    <2> QED
      BY <1>2, <2>2 DEF Processed
  <1>8. c \in Engine!Incoming
    BY <1>1, <1>6 DEF Engine!Incoming, Engine!Sides, Engine!Types, Sides, Types
  <1>9. \A s \in Sides, p \in Prices : ~Engine!RestsAt(o, s, p)
    <2> SUFFICES ASSUME NEW s \in Sides, NEW p \in Prices, Engine!RestsAt(o, s, p) PROVE FALSE
      OBVIOUS
    <2>1. Queues[s][p] = Queue(s, p)
      BY DEF Queues
    <2>2. PICK i \in DOMAIN Queue(s, p) : Queue(s, p)[i].ref = o
      BY <2>1 DEF Engine!RestsAt
    <2> QED
      BY <1>4, <2>2, QueueRefs DEF MInv
  <1>10. Engine!Submit(c)
    <2>1. c.ref = o
      BY <1>6
    <2> QED
      BY <1>5, <1>7, <1>9, <2>1 DEF Engine!Submit, Engine!Sides, Sides
  <1> QED
    BY <1>8, <1>10 DEF Engine!Next

\* A direct call of a matcher submits an order that will not rest.
LEMMA MatchOrderSubmits ==
    ASSUME MInv, NEW size \in Sizes, NEW price \in Prices,
           NEW side \in Sides, NEW type \in Types, MatchOrder(size, price, side, type)
    PROVE  Engine!Next
  <1>1. /\ pc = "idle" /\ pc' = "match" /\ total_matched' = 0
        /\ UNCHANGED <<poolVars, node, levels>>
        /\ taker' = [order |-> NULL, size |-> size, price |-> price, side |-> side, type |-> type]
    BY DEF MatchOrder, MInv, BInv, IInv, Shape
  <1>2. Queues' = Queues
    BY <1>1, BookStays DEF MInv, poolVars
  <1>3. PICK c : c = [ref |-> NULL, side |-> side, price |-> price, type |-> type,
                      left |-> size, rests |-> FALSE]
    OBVIOUS
  <1>4. Processed = {} /\ Processed' = {c}
    <2>1. size - 0 = size
      BY SizesAssumption
    <2>2. CallOrder' = c
      BY <1>1, <1>3, <2>1 DEF CallOrder
    <2> QED
      BY <1>1, <2>2 DEF Processed
  <1>5. c \in Engine!Incoming
    BY <1>3 DEF Engine!Incoming, Engine!Sides, Engine!Types, Sides, Types
  <1>6. \A s \in Sides, p \in Prices : ~Engine!RestsAt(NULL, s, p)
    <2> SUFFICES ASSUME NEW s \in Sides, NEW p \in Prices, Engine!RestsAt(NULL, s, p) PROVE FALSE
      OBVIOUS
    <2>1. Queues[s][p] = Queue(s, p)
      BY DEF Queues
    <2>2. PICK i \in DOMAIN Queue(s, p) : Queue(s, p)[i].ref = NULL
      BY <2>1 DEF Engine!RestsAt
    <2>3. NULL \in At(s, p)
      BY <2>2, QueueRefs DEF MInv
    <2> QED
      BY <2>3, NullIsNoSlot DEF At, Pool!InUse
  <1>7. Engine!Submit(c)
    <2>1. c.ref = NULL
      BY <1>3
    <2> QED
      BY <1>2, <1>4, <1>6, <2>1 DEF Engine!Submit, Engine!Sides, Sides
  <1> QED
    BY <1>5, <1>7 DEF Engine!Next

\* Entering a level, leaving one and ending the loop are steps of the code only.
LEMMA LoopStutters ==
    ASSUME MInv, EnterLevel \/ StopMatching \/ LevelLeft
    PROVE  UNCHANGED <<Queues, Processed>>
  <1>1. /\ pc \in {"match", "level"} /\ pc' \in {"level", "return"}
        /\ UNCHANGED <<poolVars, node, levels, taker, total_matched>>
    BY DEF EnterLevel, StopMatching, LevelLeft
  <1>2. Queues' = Queues
    BY <1>1, BookStays DEF MInv, poolVars
  <1>3. Processed' = Processed
    BY <1>1 DEF Processed, CallOrder
  <1> QED
    BY <1>2, <1>3

\* The prices at which MatchingEngine sees an offer are those of the levels
\* that hold an order.
LEMMA OfferedFacts ==
    ASSUME BInv, pc # "close", NEW s \in Sides, NEW p \in Prices
    PROVE  p \in Engine!Offered(s) <=> HasLevel(s, p) /\ ~empty(levels[s][p])
  <1>1. Queues[s][p] = Queue(s, p) /\ Gone(s, p) = 0
    BY DEF Queues, Gone
  <1>2. PICK w : w = Line(s, p) /\ w \in Seq(Pool!Slots)
    BY LineFacts
  <1>3. PICK u : u = Queue(s, p) /\ Len(u) = Len(w) /\ u \in Seq([ref : Pool!Slots, size : 0 .. MaxSize])
    <2>1. Len(w) - 0 = Len(w)
      BY <1>2
    <2> QED
      BY <1>1, <1>2, <2>1, QueueFacts
  <1>4. u # << >> <=> Len(w) # 0
    BY <1>3
  <1>5. Len(w) # 0 <=> HasLevel(s, p) /\ ~empty(levels[s][p])
    <2>1. CASE HasLevel(s, p)
      <3>1. Represents(levels[s][p], node, w)
        BY <1>2, <2>1, LineFacts
      <3> QED
        BY <2>1, <3>1 DEF Represents, empty
    <2>2. CASE ~HasLevel(s, p)
      BY <1>2, <2>2 DEF Line
    <2> QED
      BY <2>1, <2>2
  <1> QED
    BY <1>1, <1>3, <1>4, <1>5 DEF Engine!Offered

\* A matcher works at the best level, and it crosses.
LEMMA WorkedLevelCrosses ==
    ASSUME MInv, pc = "level", ~empty(Level)
    PROVE  Engine!Crosses(CallOrder, it)
  <1>1. PICK s, p : s = Opposite(taker.side) /\ p = it
    OBVIOUS
  <1>2. s \in Sides /\ p \in Prices /\ HasLevel(s, p) /\ Level = levels[s][p]
    BY <1>1, WorkedLevel DEF MInv, HasLevel
  <1>3. p \in Engine!Offered(s)
    BY <1>2, OfferedFacts DEF MInv
  <1>4. \A x \in Engine!Offered(s) : x \in Prices /\ HasLevel(s, x)
    <2>1. \A x \in Engine!Offered(s) : x \in Prices
      BY DEF Engine!Offered
    <2> QED
      BY <1>2, <2>1, OfferedFacts DEF MInv
  <1>5. \A x \in Engine!Offered(s) : BestFirst(s, p, x)
    BY <1>1, <1>4 DEF MInv, Chosen, IsBest, HasLevel
  <1>6. /\ CallOrder.side = taker.side /\ CallOrder.type = taker.type
        /\ CallOrder.price = taker.price /\ taker.side \in Sides
    BY LevelFacts DEF CallOrder, MInv, BInv, IInv
  <1>7. Engine!Opposite(taker.side) = s
    BY <1>1 DEF Engine!Opposite, Opposite
  <1>8. Crosses(p)
    BY <1>1 DEF MInv, Chosen
  <1> HIDE DEF CallOrder
  <1>9. \A x \in Engine!Offered(s) : IF taker.side = "bid" THEN p <= x ELSE p >= x
    BY <1>1, <1>5, <1>6 DEF BestFirst, Opposite, Sides
  <1> QED
    BY <1>1, <1>3, <1>6, <1>7, <1>8, <1>9 DEF Engine!Crosses, Crosses

\* A matcher that returned with shares left leaves nothing that crosses.
LEMMA NothingLeftCrosses ==
    ASSUME MInv, pc = "return", total_matched < taker.size, NEW p \in Prices
    PROVE  ~Engine!Crosses(CallOrder, p)
  <1> SUFFICES ASSUME Engine!Crosses(CallOrder, p) PROVE FALSE
    OBVIOUS
  <1>1. PICK s : s = Opposite(taker.side) /\ s \in Sides /\ taker.side \in Sides
    BY LevelFacts DEF MInv, BInv, IInv
  <1>2. /\ CallOrder.side = taker.side /\ CallOrder.type = taker.type
        /\ CallOrder.price = taker.price
    BY DEF CallOrder
  <1>3. Engine!Opposite(taker.side) = s
    BY <1>1 DEF Engine!Opposite, Opposite
  <1> HIDE DEF CallOrder
  <1>4. /\ p \in Engine!Offered(s)
        /\ \A x \in Engine!Offered(s) : IF taker.side = "bid" THEN p <= x ELSE p >= x
        /\ Crosses(p)
    BY <1>2, <1>3 DEF Engine!Crosses, Crosses
  <1>5. HasLevel(s, p)
    BY <1>1, <1>4, OfferedFacts DEF MInv
  <1>6. \A x \in DOMAIN levels[s] : x \in Prices /\ HasLevel(s, x) /\ ~empty(levels[s][x])
    BY <1>1 DEF MInv, BInv, IInv, Shape, BookTypeOK, Working, HasLevel
  <1>7. \A x \in DOMAIN levels[s] : x \in Engine!Offered(s)
    BY <1>1, <1>6, OfferedFacts DEF MInv
  <1>8. \A x \in DOMAIN levels[s] : BestFirst(s, p, x)
    BY <1>1, <1>4, <1>7 DEF BestFirst, Opposite, Sides
  <1>9. IsBest(s, p)
    BY <1>5, <1>8 DEF IsBest
  <1> QED
    BY <1>1, <1>4, <1>5, <1>9 DEF MInv, Spent, HasLevel

\* The oldest order at the best price gives what it has, or what is missing.
LEMMA MatchHeadTrades ==
    ASSUME MInv, MatchHead
    PROVE  Engine!Next
  <1>0. PICK s, p, o : s = Opposite(taker.side) /\ p = it /\ o = peek(Level)
    OBVIOUS
  <1>1. PICK d : d = decreaseSize(shares[o], Missing)
    OBVIOUS
  <1>2. /\ pc = "level" /\ ~empty(Level) /\ total_matched < taker.size
        /\ shares' = [shares EXCEPT ![o] = d.left]
        /\ total_matched' = total_matched + d.removed
        /\ pc' = IF d.left = 0 THEN "close" ELSE "level"
        /\ UNCHANGED <<node, levels, taker, it>>
    BY <1>0, <1>1 DEF MatchHead
  <1>3. /\ s \in Sides /\ p \in Prices /\ HasLevel(s, p)
        /\ Level = levels[s][p] /\ o \in At(s, p)
    BY <1>0, <1>2, WorkedLevel DEF MInv, HasLevel
  <1>4. o \in Pool!Slots /\ \A t, x : t # s \/ x # p => o \notin At(t, x)
    BY <1>3, OneLevelEach DEF At, Pool!InUse
  <1>5. PICK w : w = Line(s, p) /\ w \in Seq(Pool!Slots)
    BY <1>3, LineFacts DEF MInv
  <1>6. PICK n \in Nat : n = Len(w)
    BY <1>5
  <1>7. n # 0 /\ w[1] = o /\ \A i \in 1 .. n : i # 1 => w[i] # o
    <2>1. Represents(levels[s][p], node, w)
      BY <1>3, <1>5, LineFacts DEF MInv
    <2>2. n # 0 /\ w[1] = o
      BY <1>0, <1>2, <1>3, <1>6, <2>1 DEF Represents, empty, peek
    <2>3. \A i, j \in 1 .. n : w[i] = w[j] => i = j
      BY <1>6, <2>1 DEF Represents
    <2>4. 1 \in 1 .. n
      BY <1>6, <2>2
    <2> QED
      BY <2>2, <2>3, <2>4
  <1>8. \A t \in Sides, x \in Prices : Line(t, x)' = Line(t, x)
    BY <1>2, LineKept DEF MInv, HasLevel
  <1>9. shares \in [Pool!Slots -> 0 .. MaxSize]
    BY DEF MInv, BInv, IInv, Shape
  <1>10. ASSUME NEW t \in Sides, NEW x \in Prices, t # s \/ x # p
         PROVE  Queue(t, x)' = Queue(t, x)
    <2>1. Gone(t, x) = 0 /\ Gone(t, x)' = 0
      BY <1>0, <1>2, <1>10 DEF Gone
    <2>2. At(t, x) \subseteq Pool!Slots
      BY DEF At, Pool!InUse
    <2>3. \A y \in At(t, x) : shares'[y] = shares[y]
      BY <1>2, <1>4, <1>9, <1>10, <2>2
    <2> QED
      BY <1>8, <2>1, <2>3, QueueKept DEF MInv
  <1>11. Queues' = [Queues EXCEPT ![s][p] = Queue(s, p)']
    BY <1>3, <1>10, OneQueueChanges
  <1>12. PICK u : u = Queue(s, p)
    OBVIOUS
  <1>13. Queues[s][p] = u /\ Gone(s, p) = 0
    BY <1>2, <1>3, <1>12 DEF Queues, Gone
  <1>14. u = [i \in 1 .. n |-> [ref |-> w[i], size |-> shares[w[i]]]]
    <2>1. u = [i \in 1 .. Len(w) - 0 |-> [ref |-> w[i + 0], size |-> shares[w[i + 0]]]]
      BY <1>5, <1>12, <1>13 DEF Queue
    <2> QED
      BY <1>6, <2>1
  <1>15. /\ u \in Seq([ref : Pool!Slots, size : 0 .. MaxSize]) /\ Len(u) = n
         /\ Head(u) = [ref |-> o, size |-> shares[o]]
    <2>1. u \in Seq([ref : Pool!Slots, size : 0 .. MaxSize])
      BY <1>3, <1>12, QueueFacts DEF MInv
    <2>2. Len(u) = n /\ 1 \in 1 .. n
      BY <1>6, <1>7, <1>14
    <2>3. Head(u) = u[1]
      BY <1>7, <2>1, <2>2
    <2> QED
      BY <1>7, <1>14, <2>1, <2>2, <2>3
  <1>16. PICK c : c = CallOrder
    OBVIOUS
  <1>17. /\ Engine!Crosses(c, p) /\ Engine!Opposite(c.side) = s /\ c \in Processed
         /\ c.left = taker.size - total_matched
    BY <1>0, <1>2, <1>16, WorkedLevelCrosses DEF Engine!Opposite, Opposite, CallOrder, Processed
  <1>18. /\ total_matched \in Nat /\ taker.size \in Nat /\ shares[o] \in Nat
         /\ c.left \in Nat /\ c.left > 0
    BY <1>2, <1>4, <1>9, <1>17, SizesAssumption DEF MInv, BInv, IInv, Shape, BookTypeOK, Takers
  <1>19. Processed' = {CallOrder'} /\ CallOrder' = [c EXCEPT !.left = taker.size - total_matched']
    BY <1>2, <1>16 DEF Processed, CallOrder
  <1>20. CASE c.left >= shares[o]
    <2>1. d.left = 0 /\ d.removed = shares[o]
      BY <1>1, <1>17, <1>20 DEF decreaseSize, Missing
    <2>2. Gone(s, p)' = 1
      BY <1>0, <1>2, <2>1 DEF Gone
    <2>3. Queue(s, p)' = [i \in 1 .. n - 1 |-> [ref |-> w[i + 1], size |-> shares'[w[i + 1]]]]
      BY <1>3, <1>5, <1>6, <1>8, <2>2 DEF Queue
    <2>4. \A i \in 1 .. n - 1 : /\ i + 1 \in 1 .. n
                                /\ shares'[w[i + 1]] = shares[w[i + 1]]
      <3>1. \A i \in 1 .. n - 1 : i + 1 \in 1 .. n /\ i + 1 # 1
        BY <1>6
      <3>2. \A i \in 1 .. n : w[i] \in Pool!Slots
        BY <1>5, <1>6
      <3> QED
        BY <1>2, <1>7, <1>9, <3>1, <3>2
    <2>5. Tail(u) = [i \in 1 .. n - 1 |-> u[i + 1]]
      <3>1. u # << >>
        BY <1>7, <1>15
      <3> QED
        BY <1>15, <3>1, TailEntries
    <2>6. Queue(s, p)' = Tail(u)
      BY <1>14, <2>3, <2>4, <2>5
    <2>7. Queues' = [Queues EXCEPT ![s][p] = Tail(@)]
      BY <1>11, <1>13, <2>6
    <2>8. Processed' = {[c EXCEPT !.left = @ - shares[o]]}
      <3>1. taker.size - total_matched' = c.left - shares[o]
        BY <1>2, <1>17, <1>18, <2>1
      <3> QED
        BY <1>19, <3>1
    <2>9. Engine!Trade(c, p)
      <3>1. Queues' = [Queues EXCEPT ![Engine!Opposite(c.side)][p] = Tail(@)]
        BY <1>17, <2>7
      <3>2. Head(Queues[Engine!Opposite(c.side)][p]).size = shares[o]
        BY <1>13, <1>15, <1>17
      <3> QED
        BY <1>17, <1>18, <1>20, <2>8, <3>1, <3>2 DEF Engine!Trade
    <2> QED
      BY <1>3, <1>17, <2>9 DEF Engine!Next
  <1>21. CASE ~(c.left >= shares[o])
    <2>1. d.left = shares[o] - c.left /\ d.removed = c.left /\ d.left # 0
      BY <1>1, <1>17, <1>18, <1>21 DEF decreaseSize, Missing
    <2>2. Gone(s, p)' = 0
      BY <1>2, <2>1 DEF Gone
    <2>3. Queue(s, p)' = [i \in 1 .. n |-> [ref |-> w[i], size |-> shares'[w[i]]]]
      <3>1. Queue(s, p)' = [i \in 1 .. Len(w) - 0 |-> [ref |-> w[i + 0], size |-> shares'[w[i + 0]]]]
        BY <1>3, <1>5, <1>8, <2>2 DEF Queue
      <3> QED
        BY <1>6, <3>1
    <2>4. \A i \in 1 .. n :
             shares'[w[i]] = IF i = 1 THEN shares[o] - c.left ELSE shares[w[i]]
      <3>1. \A i \in 1 .. n : w[i] \in Pool!Slots
        BY <1>5, <1>6
      <3> QED
        BY <1>2, <1>4, <1>7, <1>9, <2>1, <3>1
    <2>5. Queue(s, p)' = [u EXCEPT ![1].size = @ - c.left]
      <3>1. u[1] = [ref |-> o, size |-> shares[o]]
        BY <1>6, <1>7, <1>14
      <3>2. [u EXCEPT ![1].size = @ - c.left] =
               [i \in 1 .. n |-> IF i = 1 THEN [u[1] EXCEPT !.size = @ - c.left] ELSE u[i]]
        BY <1>14
      <3>3. \A i \in 1 .. n : [ref |-> w[i], size |-> shares'[w[i]]] =
               IF i = 1 THEN [u[1] EXCEPT !.size = @ - c.left] ELSE u[i]
        BY <1>7, <1>14, <2>4, <3>1
      <3> QED
        BY <2>3, <3>2, <3>3
    <2>6. Queues' = [Queues EXCEPT ![s][p][1].size = @ - c.left]
      BY <1>11, <1>13, <2>5
    <2>7. Processed' = {[c EXCEPT !.left = 0]}
      <3>1. taker.size - total_matched' = 0
        BY <1>2, <1>17, <1>18, <2>1
      <3> QED
        BY <1>19, <3>1
    <2>8. Engine!Trade(c, p)
      <3>1. Queues' = [Queues EXCEPT ![Engine!Opposite(c.side)][p][1].size = @ - c.left]
        BY <1>17, <2>6
      <3>2. Head(Queues[Engine!Opposite(c.side)][p]).size = shares[o]
        BY <1>13, <1>15, <1>17
      <3> QED
        BY <1>17, <1>18, <1>21, <2>7, <3>1, <3>2 DEF Engine!Trade
    <2> QED
      BY <1>3, <1>17, <2>8 DEF Engine!Next
  <1> QED
    BY <1>20, <1>21

\* Unlinking and freeing the emptied order is a step of the code only.
LEMMA CloseHeadStutters ==
    ASSUME MInv, CloseHead
    PROVE  UNCHANGED <<Queues, Processed>>
  <1>0. PICK s, p : s = Opposite(taker.side) /\ p = it
    OBVIOUS
  <1>1. pc = "close" /\ pc' = "level" /\ UNCHANGED <<taker, total_matched, it, shares>>
    BY DEF CloseHead, Free, Pool!Deallocate
  <1>2. /\ s \in Sides /\ p \in Prices
        /\ Len(Line(s, p)) # 0 /\ Line(s, p)' = Without(Line(s, p), 1)
        /\ \A t \in Sides, x \in Prices : t # s \/ x # p => Line(t, x)' = Line(t, x)
    BY <1>0, CloseHeadLines DEF MInv
  <1>3. PICK w : w = Line(s, p) /\ w \in Seq(Pool!Slots)
    BY <1>2, LineFacts DEF MInv
  <1>4. PICK n \in Nat : n = Len(w) /\ n # 0
    BY <1>2, <1>3
  <1>5. ASSUME NEW t \in Sides, NEW x \in Prices, t # s \/ x # p
         PROVE  Queue(t, x)' = Queue(t, x)
    <2>1. Gone(t, x) = 0 /\ Gone(t, x)' = 0
      BY <1>0, <1>1, <1>5 DEF Gone
    <2> QED
      BY <1>1, <1>2, <1>5, <2>1, QueueKept DEF MInv
  <1>6. Queue(s, p)' = Queue(s, p)
    <2>1. Gone(s, p) = 1 /\ Gone(s, p)' = 0
      BY <1>0, <1>1 DEF Gone
    <2>2. Queue(s, p) = [i \in 1 .. n - 1 |-> [ref |-> w[i + 1], size |-> shares[w[i + 1]]]]
      BY <1>3, <1>4, <2>1 DEF Queue
    <2>3. PICK v : v = Without(w, 1)
      OBVIOUS
    <2>4. Len(v) = n - 1 /\ \A i \in 1 .. n - 1 : v[i] = w[i + 1]
      BY <1>3, <1>4, <2>3 DEF Without
    <2>5. Queue(s, p)' = [i \in 1 .. Len(v) - 0 |-> [ref |-> v[i + 0], size |-> shares[v[i + 0]]]]
      BY <1>1, <1>2, <1>3, <2>1, <2>3 DEF Queue
    <2>6. Queue(s, p)' = [i \in 1 .. n - 1 |-> [ref |-> v[i], size |-> shares[v[i]]]]
      BY <1>4, <2>4, <2>5
    <2> QED
      BY <2>2, <2>4, <2>6
  <1>7. Queues' = Queues
    BY <1>5, <1>6, QueuesStay
  <1>8. Processed' = Processed
    BY <1>1 DEF Processed, CallOrder
  <1> QED
    BY <1>7, <1>8

\* An empty level and no level are the same to MatchingEngine.
LEMMA LevelTakenStutters ==
    ASSUME MInv, LevelTaken
    PROVE  UNCHANGED <<Queues, Processed>>
  <1>1. pc = "level" /\ pc' = "match" /\ UNCHANGED <<poolVars, taker, total_matched>>
    BY DEF LevelTaken
  <1>2. \A t \in Sides, x \in Prices : Line(t, x)' = Line(t, x)
    BY LevelTakenLines DEF MInv
  <1>3. Queues' = Queues
    BY <1>1, <1>2, LinesStay DEF MInv, poolVars
  <1>4. Processed' = Processed
    BY <1>1 DEF Processed, CallOrder
  <1> QED
    BY <1>3, <1>4

\* The remainder joins the queue of its price behind all others.
LEMMA RestRemainderFinishes ==
    ASSUME MInv, RestRemainder
    PROVE  Engine!Next
  <1>0. PICK s, p, o : s = taker.side /\ p = taker.price /\ o = taker.order
    OBVIOUS
  <1>1. pc = "return" /\ pc' = "idle" /\ o # NULL /\ total_matched < taker.size
    BY <1>0 DEF RestRemainder, Return
  <1>2. /\ s \in Sides /\ p \in Prices
        /\ total_matched \in Nat /\ taker.size \in Nat
        /\ shares \in [Pool!Slots -> 0 .. MaxSize]
    BY <1>0, <1>1, SizesAssumption DEF MInv, BInv, IInv, Shape, BookTypeOK, Takers
  <1>3. o \in Pool!Slots /\ shares[o] = taker.size /\ \A t, x : o \notin At(t, x)
    BY <1>0, <1>1 DEF MInv, BInv, Owned, Pool!InUse, At
  <1>4. shares' = [shares EXCEPT ![o] = taker.size - total_matched]
    <2>1. decreaseSize(shares[o], total_matched).left = taker.size - total_matched
      BY <1>1, <1>2, <1>3 DEF decreaseSize
    <2> QED
      BY <1>0, <1>2, <1>3, <2>1 DEF RestRemainder, DecreaseTaker
  <1>5. PICK w : w = Line(s, p) /\ w \in Seq(Pool!Slots)
    BY <1>2, LineFacts DEF MInv
  <1>6. PICK n \in Nat : n = Len(w)
    BY <1>5
  <1>7. /\ Line(s, p)' = Append(w, o)
        /\ \A t \in Sides, x \in Prices : t # s \/ x # p => Line(t, x)' = Line(t, x)
    BY <1>0, <1>5, RestRemainderLines DEF MInv
  <1>8. \A t, x : Gone(t, x) = 0 /\ Gone(t, x)' = 0
    BY <1>1 DEF Gone
  <1>9. \A t, x : \A y \in At(t, x) : shares'[y] = shares[y]
    BY <1>2, <1>3, <1>4 DEF At, Pool!InUse
  <1>10. \A t \in Sides, x \in Prices : t # s \/ x # p => Queue(t, x)' = Queue(t, x)
    BY <1>7, <1>8, <1>9, QueueKept DEF MInv
  <1>11. PICK u, e : u = Queue(s, p) /\ e = [ref |-> o, size |-> taker.size - total_matched]
    OBVIOUS
  <1>12. u = [i \in 1 .. n |-> [ref |-> w[i], size |-> shares[w[i]]]]
    <2>1. u = [i \in 1 .. Len(w) - 0 |-> [ref |-> w[i + 0], size |-> shares[w[i + 0]]]]
      BY <1>5, <1>8, <1>11 DEF Queue
    <2> QED
      BY <1>6, <2>1
  <1>13. Queue(s, p)' = Append(u, e)
    <2>1. PICK v : v = Append(w, o)
      OBVIOUS
    <2>2. Len(v) = n + 1 /\ v[n + 1] = o /\ \A i \in 1 .. n : v[i] = w[i]
      BY <1>3, <1>5, <1>6, <2>1
    <2>3. Queue(s, p)' = [i \in 1 .. Len(v) - 0 |-> [ref |-> v[i + 0], size |-> shares'[v[i + 0]]]]
      BY <1>7, <1>8, <2>1 DEF Queue
    <2>4. Queue(s, p)' = [i \in 1 .. n + 1 |-> [ref |-> v[i], size |-> shares'[v[i]]]]
      BY <1>6, <2>2, <2>3
    <2>5. Len(u) = n
      BY <1>6, <1>12
    <2>6. Append(u, e) = [i \in 1 .. n + 1 |-> IF i = n + 1 THEN e ELSE u[i]]
      <3>1. u \in Seq([ref : Pool!Slots, size : 0 .. MaxSize])
        BY <1>2, <1>11, QueueFacts DEF MInv
      <3>2. e \in [ref : Pool!Slots, size : 0 .. MaxSize]
        <4>1. taker.size \in 0 .. MaxSize
          BY <1>2, <1>3
        <4>2. taker.size - total_matched \in 0 .. MaxSize
          BY <1>1, <1>2, <4>1, SizesAssumption
        <4> QED
          BY <1>3, <1>11, <4>2
      <3>3. PICK E : u \in Seq(E) /\ e \in E
        BY <3>1, <3>2
      <3>4. Append(u, e) = [i \in 1 .. Len(u) + 1 |-> IF i = Len(u) + 1 THEN e ELSE u[i]]
        BY ONLY <3>3, AppendEntries
      <3> QED
        BY <2>5, <3>4
    <2>7. \A i \in 1 .. n + 1 : [ref |-> v[i], size |-> shares'[v[i]]] =
                                  IF i = n + 1 THEN e ELSE u[i]
      <3>1. \A i \in 1 .. n + 1 : i # n + 1 => i \in 1 .. n
        BY <1>6
      <3>2. \A i \in 1 .. n : shares'[w[i]] = shares[w[i]]
        BY <1>2, <1>5, <1>6, <1>9, LineFacts DEF MInv
      <3>3. shares'[o] = taker.size - total_matched
        BY <1>2, <1>3, <1>4
      <3> QED
        BY <1>11, <1>12, <2>2, <3>1, <3>2, <3>3
    <2> QED
      BY <2>4, <2>6, <2>7
  <1>14. Queues' = [Queues EXCEPT ![s][p] = Append(@, e)]
    <2>1. Queues' = [Queues EXCEPT ![s][p] = Queue(s, p)']
      BY <1>2, <1>10, OneQueueChanges
    <2>2. Queues[s][p] = u
      BY <1>2, <1>11 DEF Queues
    <2> QED
      BY <1>13, <2>1, <2>2
  <1>15. PICK c : c = CallOrder
    OBVIOUS
  <1>16. /\ c \in Processed /\ Processed' = {} /\ c.rests /\ c.left = taker.size - total_matched
         /\ c.side = s /\ c.price = p /\ c.ref = o
    BY <1>0, <1>1, <1>15 DEF Processed, CallOrder
  <1>17. c.left > 0
    BY <1>1, <1>2, <1>16
  <1>18. \A x \in Prices : ~Engine!Crosses(c, x)
    BY <1>1, <1>15, NothingLeftCrosses
  <1>19. Engine!Finish(c)
    <2>1. Queues' = [Queues EXCEPT ![c.side][c.price] =
                        Append(@, [ref |-> c.ref, size |-> c.left])]
      BY <1>11, <1>14, <1>16
    <2> QED
      BY <1>16, <1>17, <1>18, <2>1 DEF Engine!Finish
  <1> QED
    BY <1>16, <1>19 DEF Engine!Next

\* A call that leaves nothing behind.
LEMMA ReturnFinishes ==
    ASSUME MInv, FullyMatched \/ ReturnMatched
    PROVE  Engine!Next
  <1>1. /\ pc = "return" /\ pc' = "idle" /\ UNCHANGED <<node, levels>>
        /\ taker.order = NULL \/ total_matched >= taker.size
    BY DEF FullyMatched, ReturnMatched, Return
  <1>2. /\ total_matched \in 0 .. taker.size /\ taker.size \in Nat
        /\ shares \in [Pool!Slots -> 0 .. MaxSize]
    BY SizesAssumption DEF MInv, BInv, IInv, Shape, BookTypeOK, Takers
  <1>3. \A s \in Sides, p \in Prices : \A y \in At(s, p) : shares'[y] = shares[y]
    <2> SUFFICES ASSUME NEW s \in Sides, NEW p \in Prices, NEW y \in At(s, p)
                 PROVE  shares'[y] = shares[y]
      OBVIOUS
    <2>1. y # taker.order /\ y \in Pool!Slots
      BY DEF At, Pool!InUse
    <2> QED
      BY <1>2, <2>1 DEF FullyMatched, DecreaseTaker, ReturnMatched, poolVars
  <1>4. Queues' = Queues
    BY <1>1, <1>3, BookStays DEF MInv
  <1>5. PICK c : c = CallOrder
    OBVIOUS
  <1>6. /\ c \in Processed /\ Processed' = {} /\ c.left = taker.size - total_matched
        /\ c.rests <=> taker.order # NULL
    BY <1>1, <1>5 DEF Processed, CallOrder
  <1>7. ~(c.rests /\ c.left > 0)
    BY <1>1, <1>2, <1>6
  <1>8. c.left = 0 \/ \A p \in Prices : ~Engine!Crosses(c, p)
    <2>1. CASE total_matched < taker.size
      BY <1>1, <1>5, <2>1, NothingLeftCrosses
    <2>2. CASE ~(total_matched < taker.size)
      BY <1>2, <1>6, <2>2
    <2> QED
      BY <2>1, <2>2
  <1>9. Engine!Finish(c)
    BY <1>4, <1>6, <1>7, <1>8 DEF Engine!Finish
  <1> QED
    BY <1>6, <1>9 DEF Engine!Next

\* A cancelled order that rests is withdrawn; one that was filled on arrival is
\* not on the book, and freeing it is a step of the code only.
LEMMA CancelOrderCancels ==
    ASSUME MInv, NEW o \in Pool!InUse, Harmless(o), CancelOrder(o)
    PROVE  Engine!Next \/ UNCHANGED <<Queues, Processed>>
  <1>0. PICK s, p : s = terms[o].side /\ p = terms[o].price
    OBVIOUS
  <1>1. /\ pc = "idle" /\ pc' = "idle" /\ UNCHANGED <<taker, shares>> /\ taker.order = NULL
        /\ o \in Pool!Slots
    BY DEF CancelOrder, callVars, Free, Pool!Deallocate, Pool!InUse, MInv, BInv, Owned
  <1>2. s \in Sides /\ p \in Prices \cup {0} /\ BookTypeOK
    BY <1>0, <1>1 DEF MInv, BInv, IInv, Shape, BookTypeOK
  <1>3. Processed = {} /\ Processed' = {}
    BY <1>1 DEF Processed
  <1>4. \A t, x : Gone(t, x) = 0 /\ Gone(t, x)' = 0
    BY <1>1 DEF Gone
  <1>5. CASE HasLevel(s, p)
    <2>1. /\ p \in Prices
          /\ \A t \in Sides, x \in Prices : t # s \/ x # p => Line(t, x)' = Line(t, x)
      BY <1>0, <1>5, CancelOrderLines DEF MInv
    <2>5. PICK w : w = Line(s, p) /\ w \in Seq(Pool!Slots)
      BY <1>2, <2>1, LineFacts DEF MInv
    <2>6. PICK n \in Nat : n = Len(w)
      BY <2>5
    <2>7. PICK k \in 1 .. n : Line(s, p)' = Without(w, k)
      BY <1>0, <1>5, <2>5, <2>6, CancelOrderLines DEF MInv
    <2>9. \A t \in Sides, x \in Prices : t # s \/ x # p => Queue(t, x)' = Queue(t, x)
      BY <1>1, <1>4, <2>1, QueueKept DEF MInv
    <2>10. PICK u : u = Queue(s, p)
      OBVIOUS
    <2>11. u = [i \in 1 .. n |-> [ref |-> w[i], size |-> shares[w[i]]]]
      <3>1. u = [i \in 1 .. Len(w) - 0 |-> [ref |-> w[i + 0], size |-> shares[w[i + 0]]]]
        BY <1>4, <2>5, <2>10 DEF Queue
      <3> QED
        BY <2>6, <3>1
    <2>12. Queue(s, p)' = Engine!Without(u, k)
      <3>1. PICK v : v = Without(w, k)
        OBVIOUS
      <3>2. Len(v) = n - 1 /\ \A i \in 1 .. n - 1 : v[i] = IF i < k THEN w[i] ELSE w[i + 1]
        BY <2>5, <2>6, <2>7, <3>1 DEF Without
      <3>3. Queue(s, p)' = [i \in 1 .. Len(v) - 0 |-> [ref |-> v[i + 0], size |-> shares[v[i + 0]]]]
        BY <1>1, <1>4, <2>7, <3>1 DEF Queue
      <3>4. Queue(s, p)' = [i \in 1 .. n - 1 |-> [ref |-> v[i], size |-> shares[v[i]]]]
        BY <2>6, <3>2, <3>3
      <3>5. Len(u) = n
        BY <2>6, <2>11
      <3>6. Engine!Without(u, k) = [i \in 1 .. n - 1 |-> IF i < k THEN u[i] ELSE u[i + 1]]
        BY <3>5 DEF Engine!Without
      <3>7. ASSUME NEW i \in 1 .. n - 1
            PROVE  [ref |-> v[i], size |-> shares[v[i]]] = IF i < k THEN u[i] ELSE u[i + 1]
        <4>1. i \in 1 .. n /\ i + 1 \in 1 .. n
          BY <2>6
        <4> QED
          BY <2>11, <3>2, <4>1
      <3> QED
        BY <3>4, <3>6, <3>7
    <2>13. Queues' = [Queues EXCEPT ![s][p] = Queue(s, p)']
      BY <1>2, <2>1, <2>9, OneQueueChanges
    <2>14. Queues[s][p] = u
      BY <1>2, <2>1, <2>10 DEF Queues
    <2>15. Engine!Cancel(s, p, k)
      <3>1. Queues' = [Queues EXCEPT ![s][p] = Engine!Without(@, k)]
        BY <2>12, <2>13, <2>14
      <3> QED
        BY <1>3, <3>1 DEF Engine!Cancel
    <2>16. k \in DOMAIN Queues[s][p]
      BY <2>7, <2>11, <2>14
    <2>17. s \in Engine!Sides
      BY <1>2 DEF Sides, Engine!Sides
    <2> QED
      BY <2>1, <2>15, <2>16, <2>17 DEF Engine!Next
  <1>6. CASE ~HasLevel(s, p)
    <2>1. UNCHANGED <<levels, node>>
      BY <1>0, <1>6 DEF CancelOrder
    <2>2. Queues' = Queues
      BY <1>1, <2>1, BookStays DEF MInv
    <2> QED
      BY <1>3, <2>2
  <1> QED
    BY <1>5, <1>6

----------------------------------------------------------------------------
\* Both begin with an empty book.
LEMMA InitIsEngineInit == Init => Engine!Init
  <1> SUFFICES ASSUME Init PROVE Engine!Init
    OBVIOUS
  <1>1. \A s \in Sides : DOMAIN levels[s] = {}
    BY DEF Init
  <1>2. ASSUME NEW s \in Sides, NEW p \in Prices PROVE Queue(s, p) = << >>
    <2>1. Line(s, p) = << >> /\ Gone(s, p) = 0
      BY <1>1 DEF Line, HasLevel, Gone, Init
    <2>2. Queue(s, p) = [i \in {} |-> [ref |-> Line(s, p)[i + Gone(s, p)],
                                       size |-> shares[Line(s, p)[i + Gone(s, p)]]]]
      BY <2>1 DEF Queue
    <2> QED
      BY <2>2
  <1>3. Queues = [s \in Sides |-> [p \in Prices |-> << >>]]
    BY <1>2 DEF Queues
  <1> QED
    BY <1>3 DEF Engine!Init, Engine!Sides, Sides, Init, Processed

\* Without a step of the book there is none of the engine.
LEMMA NothingStutters ==
    ASSUME UNCHANGED vars
    PROVE  UNCHANGED <<Queues, Processed>>
  <1>1. \A s, p : Line(s, p)' = Line(s, p) /\ Gone(s, p)' = Gone(s, p)
    BY DEF vars, callVars, Line, HasLevel, Gone
  <1>2. Queues' = Queues
    BY <1>1 DEF Queues, Queue, vars, poolVars
  <1> QED
    BY <1>2 DEF Processed, CallOrder, vars, callVars

\* Every step of the code, one by one.
LEMMA StepsAreEngineSteps ==
    ASSUME MInv, [CarefulNext]_vars
    PROVE  Engine!Next \/ UNCHANGED <<Queues, Processed>>
  <1>1. CASE CarefulCall
    <2>1. CASE AddOrderFails
      BY <2>1, NothingStutters DEF AddOrderFails
    <2> QED
      BY <1>1, <2>1, AddOrderSubmits, MatchOrderSubmits, CancelOrderCancels DEF CarefulCall
  <1>2. CASE Step
    BY <1>2, LoopStutters, MatchHeadTrades, CloseHeadStutters, LevelTakenStutters,
       RestRemainderFinishes, ReturnFinishes DEF Step
  <1>3. CASE UNCHANGED vars
    BY <1>3, NothingStutters
  <1> QED
    BY <1>1, <1>2, <1>3 DEF CarefulNext

(***************************************************************************)
(* The order book implements the price and time priority matching of       *)
(* MatchingEngine as long as callers cancel only orders that rest, or      *)
(* filled ones at a price without a level (order_book.cpp:15-117).         *)
(***************************************************************************)
THEOREM MatchingImplemented ==
    ASSUME ~CancelsFilled
    PROVE  Spec => ImplementsMatchingEngine
  <1>1. MInv /\ [Next]_vars => Engine!Next \/ UNCHANGED <<Queues, Processed>>
    BY StepsAreEngineSteps, CarefulUnlessTold
  <1>2. UNCHANGED <<Queues, Processed>> => UNCHANGED Engine!vars
    BY DEF Engine!vars
  <1>3. MInv /\ [Next]_vars => [Engine!Next]_(Engine!vars)
    BY <1>1, <1>2
  <1> QED
    BY <1>3, InitIsEngineInit, AlwaysMInv, PTL DEF Spec, ImplementsMatchingEngine, Engine!Spec
----------------------------------------------------------------------------
(* The depth report.                                                       *)

\* Orders of a level are different slots, so that they are not more than those.
LEMMA LineFits ==
    ASSUME NEW w, w \in Seq(Pool!Slots), \A i, j \in 1 .. Len(w) : w[i] = w[j] => i = j
    PROVE  Len(w) \in 0 .. PoolSize
  <1>1. PICK n \in Nat : n = Len(w)
    OBVIOUS
  <1>2. IsFiniteSet(Pool!Slots) /\ Cardinality(Pool!Slots) = PoolSize
    BY PoolSizeAssumption, FS_Interval DEF Pool!Slots
  <1>3. IsFiniteSet(1 .. n) /\ Cardinality(1 .. n) = n
    BY FS_Interval
  <1>4. w \in [1 .. n -> Pool!Slots]
    BY <1>1
  <1>5. ASSUME PoolSize < n PROVE FALSE
    <2>1. \E x, y \in 1 .. n : x # y /\ w[x] = w[y]
      BY <1>2, <1>3, <1>4, <1>5, FS_PigeonHole
    <2> QED
      BY <1>1, <2>1
  <1> QED
    BY <1>1, <1>5, PoolSizeAssumption

\* The loop of a row meets the orders of its level, and then the end of the
\* list.
LEMMA VisitedMeetsAll ==
    ASSUME NEW q, NEW w, w \in Seq(Pool!Slots), Represents(q, node, w),
           Len(w) \in 0 .. PoolSize
    PROVE  Visited(q) = [k \in 1 .. PoolSize + 1 |-> IF k <= Len(w) THEN w[k] ELSE NULL]
  <1>1. PICK n, N : n = Len(w) /\ N = PoolSize + 1 /\ n \in Nat /\ N \in Nat /\ n < N
    BY PoolSizeAssumption
  <1>2. w \in [1 .. n -> Pool!Slots]
    BY <1>1
  <1>3. PICK v : v = [k \in 1 .. N |-> IF k <= n THEN w[k] ELSE NULL]
    OBVIOUS
  <1> DEFINE Next1(f, k) == IF k = 1 THEN q.head
                            ELSE IF f[k - 1] = NULL THEN NULL ELSE node[f[k - 1]].next
  <1> DEFINE F(f) == [k \in 1 .. N |-> Next1(f, k)]
  <1>4. ASSUME NEW k \in 1 .. N PROVE v[k] = Next1(v, k)
    <2>1. CASE k = 1
      <3>1. q.head = IF n = 0 THEN NULL ELSE w[1]
        BY <1>1 DEF Represents
      <3> QED
        BY <1>1, <1>3, <2>1, <3>1
    <2>2. CASE k # 1 /\ k - 1 <= n
      <3>1. PICK b \in 1 .. n : b = k - 1
        BY <1>1, <2>2
      <3>2. node[w[b]] = [next |-> IF b = n THEN NULL ELSE w[b + 1],
                          prev |-> IF b = 1 THEN NULL ELSE w[b - 1]]
        BY <1>1 DEF Represents
      <3>3. node[w[b]].next = IF b = n THEN NULL ELSE w[b + 1]
        BY <3>2
      <3>4. b \in 1 .. N /\ v[b] = w[b] /\ v[b] # NULL
        BY <1>1, <1>2, <1>3, NullIsNoSlot
      <3>5. v[k] = IF b = n THEN NULL ELSE w[b + 1]
        BY <1>1, <1>3, <3>1
      <3> QED
        BY <2>2, <3>1, <3>3, <3>4, <3>5
    <2>3. CASE k # 1 /\ k - 1 > n
      BY <1>1, <1>3, <2>3
    <2> QED
      BY <1>1, <2>1, <2>2, <2>3
  <1>5. v = F(v)
    BY <1>3, <1>4
  <1>6. Visited(q) = CHOOSE f : f = F(f)
    BY <1>1 DEF Visited
  <1>7. PICK u : u = Visited(q)
    OBVIOUS
  <1>8. u = F(u)
    <2>1. \E f : f = F(f)
      BY <1>5
    <2> HIDE DEF F
    <2> QED
      BY <1>6, <1>7, <2>1
  <1>9. \A k \in 1 .. N : u[k] = Next1(u, k)
    <2>1. \A k \in 1 .. N : F(u)[k] = Next1(u, k)
      OBVIOUS
    <2> HIDE DEF F, Next1
    <2> QED
      BY <1>8, <2>1
  <1> DEFINE Bad == {k \in 1 .. N : u[k] # v[k]}
  <1>10. ASSUME Bad # {} PROVE FALSE
    <2>1. PICK b \in Bad : \A x \in Bad : b <= x
      <3>1. Bad \subseteq Nat
        OBVIOUS
      <3> HIDE DEF Bad
      <3> QED
        BY <1>10, <3>1, HasFirst
    <2>2. b \in 1 .. N /\ u[b] # v[b]
      OBVIOUS
    <2>3. b # 1
      BY <1>4, <1>9, <2>2
    <2>4. b - 1 \in 1 .. N /\ b - 1 < b
      BY <1>1, <2>2, <2>3
    <2>5. u[b - 1] = v[b - 1]
      BY <2>1, <2>4
    <2> QED
      BY <1>4, <1>9, <2>2, <2>3, <2>5
  <1>11. u = [k \in 1 .. N |-> v[k]]
    <2>1. F(u) = [k \in 1 .. N |-> F(u)[k]]
      OBVIOUS
    <2>2. \A k \in 1 .. N : u[k] = v[k]
      BY <1>10
    <2> HIDE DEF F
    <2> QED
      BY <1>8, <2>1, <2>2
  <1> QED
    BY <1>1, <1>3, <1>7, <1>11

\* Between calls, the open orders of a side and price belong to its level.
LEMMA OpenIsAt ==
    ASSUME BInv, pc = "idle", NEW s, NEW p
    PROVE  Open(s, p) = At(s, p)
  <1>1. ASSUME NEW o \in Pool!InUse
        PROVE  o \in Open(s, p) <=> o \in At(s, p)
    <2>1. o # taker.order
      BY NullIsNoSlot DEF BInv, Owned, Pool!InUse
    <2>2. ~Closing(o)
      BY DEF Closing
    <2>3. PICK t : t = terms[o] /\ t \in [price : Prices \cup {0}, side : Sides]
      BY DEF BInv, IInv, Shape, BookTypeOK, Pool!InUse
    <2>4. t = [price |-> p, side |-> s] <=> t.side = s /\ t.price = p
      BY <2>3
    <2> QED
      BY <2>1, <2>2, <2>3, <2>4 DEF Open, At
  <1>2. Open(s, p) \subseteq Pool!InUse /\ At(s, p) \subseteq Pool!InUse
    BY DEF Open, At
  <1> QED
    BY <1>1, <1>2

\* Between calls, a price has a level on a side exactly if an order is open.
LEMMA LevelIffOpen ==
    ASSUME BInv, pc = "idle", NEW s \in Sides, NEW p
    PROVE  p \in DOMAIN levels[s] <=> p \in Prices /\ Open(s, p) # {}
  <1>1. p \in DOMAIN levels[s] => p \in Prices
    BY DEF BInv, IInv, Shape, BookTypeOK
  <1>2. ASSUME p \in DOMAIN levels[s] PROVE At(s, p) # {}
    <2>1. ~empty(levels[s][p])
      BY <1>2 DEF BInv, IInv, Shape, Working
    <2>2. Holds(Pool!Slots, levels[s][p], node, At(s, p))
      BY <1>1, <1>2 DEF BInv, Linked, LevelOK, HasLevel
    <2> QED
      BY <2>1, <2>2, NullIsNoSlot, HoldsHead DEF empty
  <1>3. ASSUME p \in Prices, At(s, p) # {} PROVE p \in DOMAIN levels[s]
    BY <1>3 DEF BInv, Linked, LevelOK, HasLevel
  <1> QED
    BY <1>1, <1>2, <1>3, OpenIsAt

\* What the loop of a row counts, and where it ends.
LEMMA RowLoop ==
    ASSUME BInv, pc = "idle", NEW s \in Sides, NEW p \in DOMAIN levels[s]
    PROVE  /\ total_size(s, p) = SumFunctionOnSet(shares, Open(s, p)) % SizeRange
           /\ Visited(levels[s][p])[PoolSize + 1] = NULL
  <1>1. p \in Prices /\ HasLevel(s, p)
    BY DEF BInv, IInv, Shape, BookTypeOK, HasLevel
  <1>2. PICK w : w = Line(s, p) /\ w \in Seq(Pool!Slots)
    BY <1>1, LineFacts
  <1>3. /\ \A i \in 1 .. Len(w) : w[i] \in At(s, p)
        /\ \A o \in At(s, p) : \E i \in 1 .. Len(w) : w[i] = o
        /\ \A i, j \in 1 .. Len(w) : w[i] = w[j] => i = j
        /\ Represents(levels[s][p], node, w)
    BY <1>1, <1>2, LineFacts
  <1>4. PICK n \in Nat : n = Len(w) /\ n <= PoolSize
    BY <1>2, <1>3, LineFits, PoolSizeAssumption
  <1>5. PICK v : v = Visited(levels[s][p])
    OBVIOUS
  <1>6. v = [k \in 1 .. PoolSize + 1 |-> IF k <= n THEN w[k] ELSE NULL]
    BY <1>2, <1>3, <1>4, <1>5, VisitedMeetsAll, PoolSizeAssumption
  <1>7. v[PoolSize + 1] = NULL
    BY <1>4, <1>6, PoolSizeAssumption
  <1>8. w \in [1 .. n -> Pool!Slots]
    BY <1>2, <1>4
  <1>9. Counted(v) = 1 .. n
    <2>1. \A k \in 1 .. PoolSize : v[k] # NULL <=> k <= n
      BY <1>4, <1>6, <1>8, NullIsNoSlot, PoolSizeAssumption
    <2> QED
      BY <1>4, <2>1, PoolSizeAssumption DEF Counted
  <1>10. [k \in Counted(v) |-> shares[v[k]]] = [k \in 1 .. n |-> shares[w[k]]]
    <2>1. \A k \in 1 .. n : v[k] = w[k]
      BY <1>4, <1>6, PoolSizeAssumption
    <2> QED
      BY <1>9, <2>1
  <1>11. Open(s, p) = {w[k] : k \in 1 .. n}
    <2>1. Open(s, p) = At(s, p)
      BY OpenIsAt
    <2> QED
      BY <1>3, <1>4, <2>1
  <1>12. SumFunctionOnSet([k \in 1 .. n |-> shares[w[k]]], 1 .. n)
           = SumFunctionOnSet(shares, {w[k] : k \in 1 .. n})
    <2>1. PICK T, e, f : /\ T = {w[k] : k \in 1 .. n}
                         /\ e = [k \in 1 .. n |-> shares[w[k]]] /\ f = shares
      OBVIOUS
    <2>2. T \subseteq Pool!Slots /\ IsFiniteSet(T)
      <3>1. T \subseteq Pool!Slots
        BY <1>8, <2>1
      <3>2. IsFiniteSet(Pool!Slots)
        BY PoolSizeAssumption, FS_Interval DEF Pool!Slots
      <3> QED
        BY <3>1, <3>2, FS_Subset
    <2>3. \A y \in T : f[y] \in Nat
      BY <2>1, <2>2, SizesAssumption DEF BInv, IInv, Shape
    <2>4. w \in Bijection(1 .. n, T)
      <3>1. w \in [1 .. n -> T] /\ \A y \in T : \E k \in 1 .. n : w[k] = y
        BY <1>8, <2>1
      <3> QED
        BY <1>3, <1>4, <3>1 DEF Bijection, Injection, Surjection, IsInjective
    <2>5. \A k \in 1 .. n : e[k] = f[w[k]]
      BY <2>1
    <2>6. SumFunctionOnSet(e, 1 .. n) = SumFunctionOnSet(f, T)
      BY <2>2, <2>3, <2>4, <2>5, SumAlong
    <2> QED
      BY <2>1, <2>6
  <1>13. total_size(s, p) =
           SumFunctionOnSet([k \in Counted(v) |-> shares[v[k]]], Counted(v)) % SizeRange
    BY <1>5 DEF total_size
  <1> QED
    BY <1>5, <1>7, <1>9, <1>10, <1>11, <1>12, <1>13

\* What the report shows is what is open.
LEMMA ReportIsExact == BInv => ReportExact
  <1> SUFFICES ASSUME BInv, pc = "idle"
               PROVE  /\ Rows = {p \in Prices : \E s \in Sides : Open(s, p) # {}}
                      /\ \A s \in Sides, p \in Rows :
                            Count(s, p) = SumFunctionOnSet(shares, Open(s, p)) % SizeRange
                      /\ \A s \in Sides : \A p \in DOMAIN levels[s] :
                            Visited(levels[s][p])[PoolSize + 1] = NULL
                      /\ MidPrice # 0 =>
                            \A b \in DOMAIN levels["bid"], a \in DOMAIN levels["ask"] :
                                2 * b < MidPrice /\ MidPrice < 2 * a
    BY DEF ReportExact
  <1>1. \A p : p \in Rows <=> \E s \in Sides : p \in DOMAIN levels[s]
    BY DEF Rows, Sides
  <1>2. Rows = {p \in Prices : \E s \in Sides : Open(s, p) # {}}
    BY <1>1, LevelIffOpen
  <1>3. ASSUME NEW s \in Sides, NEW p \in Rows
        PROVE  Count(s, p) = SumFunctionOnSet(shares, Open(s, p)) % SizeRange
    <2>1. CASE HasLevel(s, p)
      BY <2>1, RowLoop DEF Count, HasLevel
    <2>2. CASE ~HasLevel(s, p)
      <3>1. Open(s, p) = {}
        BY <1>2, <2>2, LevelIffOpen DEF HasLevel
      <3>2. SumFunctionOnSet(shares, {}) = 0
        BY SumOfNone
      <3>3. 0 % SizeRange = 0
        BY SizeRangeAssumption, SizesAssumption
      <3> QED
        BY <2>2, <3>1, <3>2, <3>3 DEF Count
    <2> QED
      BY <2>1, <2>2
  <1>4. \A s \in Sides : \A p \in DOMAIN levels[s] : Visited(levels[s][p])[PoolSize + 1] = NULL
    BY RowLoop
  <1>5. ASSUME MidPrice # 0, NEW b \in DOMAIN levels["bid"], NEW a \in DOMAIN levels["ask"]
        PROVE  2 * b < MidPrice /\ MidPrice < 2 * a
    <2>1. PICK B, A : B = DOMAIN levels["bid"] /\ A = DOMAIN levels["ask"]
      OBVIOUS
    <2>2. B \subseteq 0 .. MaxPrice /\ A \subseteq 0 .. MaxPrice /\ b \in B /\ a \in A
      BY <2>1, PricesAssumption DEF BInv, IInv, Shape, BookTypeOK, Sides
    <2>3. PICK x : x = Max(B) /\ x \in B /\ \A y \in B : x >= y
      BY <2>2, HasLast DEF Max
    <2>4. PICK z : z = Min(A) /\ z \in A /\ \A y \in A : z <= y
      <3>1. A \subseteq Nat /\ A # {}
        BY <2>2, PricesAssumption
      <3>2. \E z \in A : \A y \in A : z <= y
        BY <3>1, HasFirst
      <3> QED
        BY <3>2 DEF Min
    <2>5. x < z
      BY <2>1, <2>3, <2>4 DEF BInv, IInv, NotCrossed
    <2>6. MidPrice = x + z
      BY <2>1, <2>2, <2>3, <2>4 DEF MidPrice
    <2>7. x \in Nat /\ z \in Nat /\ a \in Nat /\ b \in Nat /\ x >= b /\ z <= a
      BY <2>2, <2>3, <2>4, PricesAssumption
    <2> QED
      BY <2>5, <2>6, <2>7
  <1> QED
    BY <1>2, <1>3, <1>4, <1>5

(***************************************************************************)
(* Between calls the depth report is exact for every pool size, set of     *)
(* prices and sizes, and width of its totals: a row for every price at     *)
(* which something is open and for no other, in each row the total of the  *)
(* open orders, found in the pool and not along the links, a loop that     *)
(* comes to the end of its list, and a mid price strictly between the      *)
(* sides (order_book.cpp:119-161).                                         *)
(***************************************************************************)
THEOREM ReportsExact ==
    ASSUME ~CancelsFilled
    PROVE  Spec => []ReportExact
  BY ReportIsExact, AlwaysBInv, PTL
=============================================================================
