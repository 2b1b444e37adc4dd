----------------------------- MODULE MCMemPool -----------------------------
(***************************************************************************)
(* The memory pool on a small store.  Words holds a value that is also a   *)
(* valid index of the store and one that is the sentinel, so that an       *)
(* object's bytes read as a link would pass for one.                       *)
(***************************************************************************)
EXTENDS MemPool
=============================================================================
