---------------------------- MODULE MCOrderBook ----------------------------
(***************************************************************************)
(* Model of OrderBook: a pool of three orders, two prices and sizes that   *)
(* let one order fill, outlast or exactly match another.                   *)
(***************************************************************************)
EXTENDS OrderBook
=============================================================================
