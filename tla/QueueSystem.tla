---------------------------- MODULE QueueSystem ----------------------------
(***************************************************************************)
(* Several IntrusiveQueues over one population of items, as the price      *)
(* levels of an order book are over the orders of its pool.  An item has   *)
(* one list_node, so it sits in at most one queue at a time; the caller    *)
(* keeps to that.  fifo[k] is what queue k ought to hold, oldest first: a  *)
(* plain sequence, the contract the links are checked against.             *)
(***************************************************************************)
EXTENDS IntrusiveQueue

CONSTANTS Items, Queues

ASSUME NullAssumption == NULL \notin Items

VARIABLES queues,   \* the IntrusiveQueue objects
          node,     \* the list_node of every item
          fifo,     \* what each queue ought to hold
          popped    \* what the last pop() returned; NULL before any

vars == <<queues, node, fifo, popped>>

Members(k) == {fifo[k][i] : i \in 1 .. Len(fifo[k])}
Idle == {x \in Items : \A k \in Queues : x \notin Members(k)}

Init ==
    /\ queues = [k \in Queues |-> EmptyQueue]
    /\ node = [x \in Items |-> NullNode]
    /\ fifo = [k \in Queues |-> << >>]
    /\ popped = NULL

AppendItem(k, x) ==
    /\ LET r == append(queues[k], node, x)
       IN  queues' = [queues EXCEPT ![k] = r.q] /\ node' = r.node
    /\ fifo' = [fifo EXCEPT ![k] = Append(@, x)]
    /\ UNCHANGED popped

\* The caller removes an item from the queue that holds it.
RemoveItem(k, x) ==
    /\ LET r == remove(queues[k], node, x)
       IN  queues' = [queues EXCEPT ![k] = r.q] /\ node' = r.node
    /\ fifo' = [fifo EXCEPT ![k] =
                  Without(@, CHOOSE i \in 1 .. Len(@) : @[i] = x)]
    /\ UNCHANGED popped

\* pop() on a queue without a head returns nullptr.
PopNothing(k) ==
    /\ queues[k].head = NULL
    /\ popped' = NULL
    /\ UNCHANGED <<queues, node, fifo>>

\* Mutant: pop() counts down although remove() did.
PopCountsTwice(k) ==
    /\ queues[k].head # NULL
    /\ LET r == remove(queues[k], node, queues[k].head)
       IN  queues' = [queues EXCEPT ![k] = [r.q EXCEPT !.size = @ - 1]] /\ node' = r.node
    /\ fifo' = [fifo EXCEPT ![k] = Without(@, 1)]
    /\ popped' = queues[k].head

\* Otherwise it removes what head_ points at and returns it.
PopItem(k) ==
    /\ queues[k].head # NULL
    /\ LET r == remove(queues[k], node, queues[k].head)
       IN  queues' = [queues EXCEPT ![k] = r.q] /\ node' = r.node
    /\ fifo' = [fifo EXCEPT ![k] = Without(@, 1)]
    /\ popped' = queues[k].head

Next ==
    \E k \in Queues :
        \/ \E x \in Idle : AppendItem(k, x)
        \/ \E x \in Members(k) : RemoveItem(k, x)
        \/ PopNothing(k)
        \/ PopItem(k)

Spec == Init /\ [][Next]_vars

----------------------------------------------------------------------------
TypeOK ==
    /\ queues \in [Queues -> QueuesOf(Items)]
    /\ node \in [Items -> NodesOf(Items)]
    /\ fifo \in [Queues -> Seq(Items)]
    /\ popped \in Items \cup {NULL}

\* No item is a member of two queues.
Exclusive ==
    \A k, l \in Queues : k # l => Members(k) \cap Members(l) = {}

(***************************************************************************)
(* After any mix of append(), remove() and pop() on any of the queues, the *)
(* links, the end pointers and the counter of every queue describe exactly *)
(* the items put in and not taken out, in order of arrival                 *)
(* (intrusive_queue.hpp:17-58).                                            *)
(***************************************************************************)
QueuesIntact ==
    /\ Exclusive
    /\ \A k \in Queues : Represents(queues[k], node, fifo[k])

(***************************************************************************)
(* pop() returns the item that has waited longest in its queue, and        *)
(* nullptr only when the queue holds nothing (intrusive_queue.hpp:17-25).  *)
(***************************************************************************)
PopTakesOldest ==
    [][\A k \in Queues :
          /\ PopItem(k) => fifo[k] # << >> /\ popped' = fifo[k][1]
          /\ PopNothing(k) => fifo[k] = << >>]_vars
=============================================================================
