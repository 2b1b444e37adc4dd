--------------------------- MODULE IntrusiveQueue ---------------------------
(***************************************************************************)
(* IntrusiveQueue<T> (src/project/intrusive_queue.hpp): a doubly linked    *)
(* list whose links live in the items.  A queue is a record of head_,      *)
(* tail_ and size_; node is the list_node of every item, shared by all the *)
(* queues of T.  An operation that changes links is an operator from the   *)
(* queue and the links before it to the pair after it, so that a caller's  *)
(* action can apply it to one of the queues it owns.                       *)
(***************************************************************************)
EXTENDS Naturals, Sequences

CONSTANT NULL   \* nullptr

\* A default-constructed Node and a default-constructed queue.
NullNode == [next |-> NULL, prev |-> NULL]
EmptyQueue == [head |-> NULL, tail |-> NULL, size |-> 0]

\* empty() looks at the counter, not at the links.
empty(q) == q.size = 0

peek(q) == q.head

\* Mutant: links a new item before the head.
AppendAtFront(q, node, item) ==
    IF q.head = NULL
    THEN [q |-> [head |-> item, tail |-> item, size |-> q.size + 1],
          node |-> [node EXCEPT ![item] = NullNode]]
    ELSE [q |-> [head |-> item, tail |-> q.tail, size |-> q.size + 1],
          node |-> [node EXCEPT ![q.head].prev = item,
                                ![item] = [next |-> q.head, prev |-> NULL]]]

append(q, node, item) ==
    IF q.head = NULL
    THEN [q |-> [head |-> item, tail |-> item, size |-> q.size + 1],
          node |-> [node EXCEPT ![item] = NullNode]]
    ELSE [q |-> [head |-> q.head, tail |-> item, size |-> q.size + 1],
          node |-> [node EXCEPT ![q.tail].next = item,
                                ![item] = [next |-> NULL, prev |-> q.tail]]]

\* The links once those of item's neighbours lead past it and its own are null.
Bypass(node, item) ==
    LET n == node[item]
    IN  [i \in DOMAIN node |->
            IF i = item THEN NullNode
            ELSE [next |-> IF i = n.prev THEN n.next ELSE node[i].next,
                  prev |-> IF i = n.next THEN n.prev ELSE node[i].prev]]

\* Mutant: does not move tail_ when the last item of several leaves.
RemoveKeepsTail(q, node, item) ==
    LET n == node[item]
    IN  [q |-> [head |-> IF n.prev = NULL THEN n.next ELSE q.head,
                tail |-> q.tail,
                size |-> q.size - 1],
         node |-> Bypass(node, item)]

\* remove() asks only the item's own links where it is: an item without a
\* prev is taken for the head, one without a next for the tail.
remove(q, node, item) ==
    LET n == node[item]
    IN  [q |-> [head |-> IF n.prev = NULL THEN n.next ELSE q.head,
                tail |-> IF n.next = NULL THEN n.prev ELSE q.tail,
                size |-> q.size - 1],
         node |-> Bypass(node, item)]

----------------------------------------------------------------------------
\* The links of the items of a population, and the queues over it.
NodesOf(Items) == [next : Items \cup {NULL}, prev : Items \cup {NULL}]
QueuesOf(Items) == [head : Items \cup {NULL}, tail : Items \cup {NULL}, size : Nat]

\* The queue holds the items of s, in that order.
Represents(q, node, s) ==
    /\ q.size = Len(s)
    /\ \A i, j \in 1 .. Len(s) : s[i] = s[j] => i = j
    /\ q.head = IF Len(s) = 0 THEN NULL ELSE s[1]
    /\ q.tail = IF Len(s) = 0 THEN NULL ELSE s[Len(s)]
    /\ \A i \in 1 .. Len(s) :
          node[s[i]] = [next |-> IF i = Len(s) THEN NULL ELSE s[i + 1],
                        prev |-> IF i = 1 THEN NULL ELSE s[i - 1]]

\* The items a reader meets who follows next from head_ for size_ steps; NULL
\* where the links end too early.
Walk(q, node) ==
    LET item[i \in 1 .. q.size] ==
            IF i = 1 THEN q.head
            ELSE IF item[i - 1] = NULL THEN NULL ELSE node[item[i - 1]].next
    IN  item

\* s without its k-th entry.
Without(s, k) == [i \in 1 .. Len(s) - 1 |-> IF i < k THEN s[i] ELSE s[i + 1]]
=============================================================================
