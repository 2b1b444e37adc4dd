----------------------------- MODULE ObjectPool -----------------------------
(***************************************************************************)
(* What a memory pool promises its caller, whatever data structure keeps   *)
(* track of the free elements: a live object sits in an element no other   *)
(* live object uses, and keeps the value its owner gave it until the owner *)
(* frees it.  MemPool and MemPoolSeparateFreeStructure implement this.     *)
(***************************************************************************)
CONSTANTS Elements,  \* the elements of the pool's backing store
          Values     \* the values an object may hold

\* The live objects: a function from the elements in use to their values.
VARIABLE live

Init == live = [e \in {} |-> {}]

\* The caller obtains an element that no live object occupies.
Allocate(e, v) ==
    /\ e \in Elements \ DOMAIN live
    /\ live' = [x \in DOMAIN live \cup {e} |-> IF x = e THEN v ELSE live[x]]

\* The owner writes its object through the pointer it was given.
Write(e, v) ==
    /\ e \in DOMAIN live
    /\ live' = [live EXCEPT ![e] = v]

\* The owner gives the element back.
Deallocate(e) ==
    /\ e \in DOMAIN live
    /\ live' = [x \in DOMAIN live \ {e} |-> live[x]]

Next ==
    \E e \in Elements :
        \/ \E v \in Values : Allocate(e, v) \/ Write(e, v)
        \/ Deallocate(e)

Spec == Init /\ [][Next]_live
=============================================================================
