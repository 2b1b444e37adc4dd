---------------------------- MODULE MCEntrypoint ----------------------------
(***************************************************************************)
(* Model of main(): two more orders than the pool has slots, so that slots *)
(* are reused under pointers that were tracked, and the pool can run out.  *)
(* The generator has a tick of 2, a floor at 2 and offsets of 1, from      *)
(* which the prices 2, 3 and 4 come, and 16 stands for 2^64.               *)
(***************************************************************************)
EXTENDS Entrypoint
=============================================================================
