-------------------------- MODULE MCPoolBenchmark --------------------------
(***************************************************************************)
(* The benchmark on pools of four elements: all 24 orders of freeing them, *)
(* a churn that meets the empty and the full pool, and fewer cold samples  *)
(* than elements.  The six addresses are as many as the churn can hold, so *)
(* that the heap never has to refuse.                                      *)
(***************************************************************************)
EXTENDS PoolBenchmark
=============================================================================
