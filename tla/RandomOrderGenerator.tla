------------------------ MODULE RandomOrderGenerator ------------------------
(***************************************************************************)
(* RandomOrderDataGenerator (src/project/random_order_generator.hpp): the  *)
(* orders main() submits.  Ids count up, sizes are drawn afresh, and the   *)
(* price is a random walk in unsigned arithmetic: mostly a signed offset   *)
(* on the last price, now and then a fresh price, usually rounded to a     *)
(* multiple of Tick.  The draws are nondeterministic choices.  The uuid    *)
(* that serves as client_id has no state and is read by nobody.            *)
(***************************************************************************)
EXTENDS Integers

CONSTANTS Modulus,      \* 2^64, the values of a uint64_t
          Tick,         \* 100, prices are rounded to multiples of it
          MinPrice,     \* 100
          StartPrice,   \* 15000
          MaxOffset,    \* 300
          WidePrices,   \* 10000 .. 20000
          Lots,         \* sizes in thousands, 1 .. 100
          Fractions,    \* sizes in units of 250, 1 .. 3
          MaxId,        \* bound of the model: ids drawn
          MaxLast       \* bound of the model: last price that is walked from

\* Prices are positive, and no draw comes near the end of the range.
ASSUME ParametersAssumption ==
    /\ Tick \in Nat \ {0} /\ MinPrice \in Nat \ {0} /\ MaxOffset \in Nat
    /\ MaxLast \in Nat /\ Modulus \in Nat /\ MaxLast + MaxOffset + Tick < Modulus
    /\ WidePrices \cup {StartPrice} \subseteq MinPrice .. MaxLast
    /\ Lots \cup Fractions \subseteq Nat \ {0}
    /\ MaxId \in Nat

VARIABLES current_id,   \* the next id
          last_price,   \* the price returned last
          size          \* the size returned last; 0 before any

genVars == <<current_id, last_price, size>>

GenInit ==
    /\ current_id = 1
    /\ last_price = StartPrice
    /\ size = 0

----------------------------------------------------------------------------
get_next_order_id ==
    /\ current_id <= MaxId
    /\ current_id' = current_id + 1
    /\ UNCHANGED <<last_price, size>>

\* The sizes an order may get.
Drawn == {250 * f : f \in Fractions} \cup {1000 * l : l \in Lots}

generate_random_size ==
    /\ size' \in Drawn
    /\ UNCHANGED <<current_id, last_price>>

\* The sum of a uint64_t and an int64_t.
Plus(price, offset) == (price + offset) % Modulus

\* Mutant: adds the offset without looking how low the price is.
ClusteredUnchecked(offset) == Plus(last_price, offset)

\* A price near the last one; one that would not stay positive is the minimum.
Clustered(offset) ==
    IF offset < 0 /\ -offset >= last_price THEN MinPrice
    ELSE Plus(last_price, offset)

Rounded(price) == (Plus(price, Tick \div 2) \div Tick) * Tick

\* Mutant: no floor after rounding.
FloorMissing(price) == price

Floor(price) == IF price < MinPrice THEN MinPrice ELSE price

\* The end of generate_random_price(), for the price drawn.
Settle(price) ==
    /\ \E p \in {price, Rounded(price)} : last_price' = Floor(p)
    /\ UNCHANGED <<current_id, size>>

\* generate_random_price() when the coin says to stay close.
StayClose ==
    /\ last_price <= MaxLast
    /\ \E offset \in -MaxOffset .. MaxOffset : Settle(Clustered(offset))

\* generate_random_price() when the coin says to start afresh.
StartAfresh ==
    \E price \in WidePrices : Settle(price)

generate_random_price == StayClose \/ StartAfresh

GenNext == get_next_order_id \/ generate_random_size \/ generate_random_price

GenSpec == GenInit /\ [][GenNext]_genVars

----------------------------------------------------------------------------
\* However low the walk goes, no order comes in below the minimum price.
GenTypeOK ==
    /\ current_id \in 1 .. MaxId + 1
    /\ last_price \in MinPrice .. Modulus - 1
    /\ size \in Nat

(***************************************************************************)
(* A price drawn near the last one is near it: the unsigned sum does not   *)
(* wrap around, in the walk or in the rounding, however negative the       *)
(* offset (random_order_generator.hpp:46-56).                              *)
(***************************************************************************)
StaysClose ==
    [][StayClose => last_price' \in last_price - MaxOffset - Tick
                                    .. last_price + MaxOffset + Tick]_genVars
=============================================================================
