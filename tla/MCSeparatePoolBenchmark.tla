---------------------- MODULE MCSeparatePoolBenchmark ----------------------
(***************************************************************************)
(* The benchmark of the second pool, on the bounds of the first.           *)
(***************************************************************************)
EXTENDS SeparatePoolBenchmark
=============================================================================
