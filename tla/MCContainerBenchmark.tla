------------------------ MODULE MCContainerBenchmark ------------------------
(***************************************************************************)
(* Five keys, so that the binary search halves odd and even stretches, in  *)
(* all 120 orders of looking them up, and fewer cold samples than keys.    *)
(***************************************************************************)
EXTENDS ContainerBenchmark
=============================================================================
