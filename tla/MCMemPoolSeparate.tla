-------------------------- MODULE MCMemPoolSeparate --------------------------
(***************************************************************************)
(* The pool with separate links on the store that MCMemPool uses.          *)
(***************************************************************************)
EXTENDS MemPoolSeparateFreeStructure
=============================================================================
