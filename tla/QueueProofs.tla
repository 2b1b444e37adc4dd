---------------------------- MODULE QueueProofs ----------------------------
(***************************************************************************)
(* The links of IntrusiveQueue are right for any population of items and   *)
(* any number of queues over it.  The lemmas are about one operation on    *)
(* one queue; QueuesIntact, with the types, is inductive as it stands.     *)
(***************************************************************************)
EXTENDS QueueSystem, QueueLemmas

----------------------------------------------------------------------------
IInv == TypeOK /\ QueuesIntact

\* What the three mutating actions share: one queue changes, and its links
\* describe the new contents t, which gain at most one idle item.
LEMMA OneQueueChanges ==
    ASSUME IInv, NEW k \in Queues, NEW q \in QueuesOf(Items),
           NEW nd \in [Items -> NodesOf(Items)], NEW t \in Seq(Items),
           queues' = [queues EXCEPT ![k] = q], node' = nd,
           fifo' = [fifo EXCEPT ![k] = t], popped' \in Items \cup {NULL},
           Represents(q, nd, t),
           \A i \in 1 .. Len(t) : t[i] \in Members(k) \cup Idle,
           \A l \in Queues \ {k} : \A y \in Members(l) : nd[y] = node[y]
    PROVE  IInv'
  <1>1. TypeOK'
    BY DEF IInv, TypeOK
  <1>2. \A l \in Queues : fifo'[l] = (IF l = k THEN t ELSE fifo[l])
    BY DEF IInv, TypeOK
  <1>3. \A l \in Queues : queues'[l] = (IF l = k THEN q ELSE queues[l])
    BY DEF IInv, TypeOK
  <1>4. \A l \in Queues \ {k} : Members(l)' = Members(l)
    BY <1>2 DEF Members
  <1>5. Members(k)' \subseteq Members(k) \cup Idle
    BY <1>2 DEF Members
  <1>6. Exclusive'
    <2> SUFFICES ASSUME NEW a \in Queues, NEW b \in Queues, a # b,
                        NEW y \in Members(a)', y \in Members(b)'
                 PROVE  FALSE
      BY DEF Exclusive
    <2>1. \A l \in Queues \ {k} : Members(l) \cap Idle = {} /\ Members(l) \cap Members(k) = {}
      BY DEF IInv, QueuesIntact, Exclusive, Idle
    <2>2. a # k /\ b # k => Members(a) \cap Members(b) = {}
      BY DEF IInv, QueuesIntact, Exclusive
    <2> QED
      BY <1>4, <1>5, <2>1, <2>2
  <1>7. ASSUME NEW l \in Queues PROVE Represents(queues'[l], node', fifo'[l])
    <2>1. CASE l = k
      BY <1>2, <1>3, <2>1
    <2>2. CASE l # k
      <3>1. Represents(queues[l], node, fifo[l])
        BY DEF IInv, QueuesIntact
      <3>2. \A i \in 1 .. Len(fifo[l]) : node'[fifo[l][i]] = node[fifo[l][i]]
        BY <2>2 DEF Members
      <3>3. Represents(queues[l], node', fifo[l])
        BY <3>1, <3>2, RepresentsFrame
      <3> QED
        BY <1>2, <1>3, <2>2, <3>3
    <2> QED
      BY <2>1, <2>2
  <1> QED
    BY <1>1, <1>6, <1>7 DEF IInv, QueuesIntact

\* An item joins one queue, and the other queues do not share its links.
LEMMA AppendItemIInv ==
    ASSUME IInv, NEW k \in Queues, NEW x \in Idle, AppendItem(k, x)
    PROVE  IInv'
  <1> DEFINE r == append(queues[k], node, x)
  <1>1. /\ queues[k] \in QueuesOf(Items) /\ node \in [Items -> NodesOf(Items)]
        /\ fifo[k] \in Seq(Items) /\ x \in Items
        /\ Represents(queues[k], node, fifo[k])
    BY DEF IInv, TypeOK, QueuesIntact, Idle
  <1>2. \A i \in 1 .. Len(fifo[k]) : fifo[k][i] # x
    BY DEF Idle, Members
  <1>3. /\ r.q \in QueuesOf(Items) /\ r.node \in [Items -> NodesOf(Items)]
        /\ Represents(r.q, r.node, Append(fifo[k], x))
    BY <1>1, <1>2, NullAssumption, AppendRepresents
  <1>4. ASSUME NEW l \in Queues \ {k}, NEW y \in Members(l)
        PROVE  r.node[y] = node[y]
    <2>1. y \in Items
      BY DEF IInv, TypeOK, Members
    <2>2. y # x
      BY DEF Idle
    <2>3. y \notin Members(k)
      BY DEF IInv, QueuesIntact, Exclusive
    <2>4. queues[k].head # NULL => queues[k].tail \in Members(k)
      <3>1. PICK n \in Nat : n = Len(fifo[k])
        BY <1>1
      <3>2. queues[k].head # NULL => n # 0 /\ queues[k].tail = fifo[k][n]
        BY <1>1, <3>1 DEF Represents
      <3> QED
        BY <3>1, <3>2 DEF Members
    <2> QED
      BY <1>1, <2>1, <2>2, <2>3, <2>4, AppendFrame
  <1>5. PICK t : t = Append(fifo[k], x) /\ t \in Seq(Items)
    <2>1. Append(fifo[k], x) \in Seq(Items)
      BY <1>1
    <2> QED
      BY <2>1
  <1>6. \A i \in 1 .. Len(t) : t[i] \in Members(k) \cup Idle
    <2> SUFFICES ASSUME NEW i \in 1 .. Len(t) PROVE t[i] \in Members(k) \cup Idle
      OBVIOUS
    <2>1. CASE i = Len(t)
      BY <1>1, <1>5, <2>1
    <2>2. CASE i # Len(t)
      <3>1. i \in 1 .. Len(fifo[k]) /\ t[i] = fifo[k][i]
        BY <1>1, <1>5, <2>2
      <3> QED
        BY <3>1 DEF Members
    <2> QED
      BY <2>1, <2>2
  <1>7. /\ queues' = [queues EXCEPT ![k] = r.q] /\ node' = r.node
        /\ fifo' = [fifo EXCEPT ![k] = t] /\ popped' \in Items \cup {NULL}
    BY <1>5 DEF AppendItem, IInv, TypeOK
  <1> HIDE DEF r
  <1> QED
    BY <1>3, <1>4, <1>5, <1>6, <1>7, OneQueueChanges

\* remove() of the i-th member, by remove() itself or by pop().
LEMMA RemoveIInv ==
    ASSUME IInv, NEW k \in Queues, NEW i \in 1 .. Len(fifo[k]),
           queues' = [queues EXCEPT ![k] = remove(queues[k], node, fifo[k][i]).q],
           node' = remove(queues[k], node, fifo[k][i]).node,
           fifo' = [fifo EXCEPT ![k] = Without(fifo[k], i)],
           popped' \in Items \cup {NULL}
    PROVE  IInv'
  <1> DEFINE x == fifo[k][i]
             r == remove(queues[k], node, x)
             t == Without(fifo[k], i)
  <1>1. /\ queues[k] \in QueuesOf(Items) /\ node \in [Items -> NodesOf(Items)]
        /\ fifo[k] \in Seq(Items) /\ x \in Items
        /\ Represents(queues[k], node, fifo[k])
    BY DEF IInv, TypeOK, QueuesIntact
  <1>2. /\ r.q \in QueuesOf(Items) /\ r.node \in [Items -> NodesOf(Items)]
        /\ t \in Seq(Items) /\ Represents(r.q, r.node, t)
    BY <1>1, NullAssumption, RemoveRepresents
  <1>3. ASSUME NEW l \in Queues \ {k}, NEW y \in Members(l)
        PROVE  r.node[y] = node[y]
    <2>1. y \in Items
      BY DEF IInv, TypeOK, Members
    <2>2. y \notin Members(k)
      BY DEF IInv, QueuesIntact, Exclusive
    <2>3. x \in Members(k)
      BY DEF Members
    <2>4. node[x].prev \in Members(k) \cup {NULL} /\ node[x].next \in Members(k) \cup {NULL}
      BY <1>1, NeighboursAreMembers DEF Members
    <2> QED
      BY <1>1, <2>1, <2>2, <2>3, <2>4, NullAssumption, RemoveFrame
  <1>4. \A j \in 1 .. Len(t) : t[j] \in Members(k) \cup Idle
    <2> SUFFICES ASSUME NEW j \in 1 .. Len(t) PROVE t[j] \in Members(k)
      OBVIOUS
    <2>1. PICK n \in Nat : n = Len(fifo[k])
      BY <1>1
    <2>2. DOMAIN t = 1 .. n - 1
      BY <2>1 DEF Without
    <2>3. j \in 1 .. n - 1
      BY <1>2, <2>2
    <2>4. t[j] = IF j < i THEN fifo[k][j] ELSE fifo[k][j + 1]
      BY <2>1, <2>3 DEF Without
    <2>5. j \in 1 .. n /\ j + 1 \in 1 .. n
      BY <2>1, <2>3
    <2> QED
      BY <2>1, <2>4, <2>5 DEF Members
  <1>5. queues' = [queues EXCEPT ![k] = r.q] /\ node' = r.node /\ fifo' = [fifo EXCEPT ![k] = t]
    OBVIOUS
  <1> HIDE DEF r, t
  <1>6. PICK c, u : c = r /\ u = t
    OBVIOUS
  <1>7. /\ c.q \in QueuesOf(Items) /\ c.node \in [Items -> NodesOf(Items)] /\ u \in Seq(Items)
        /\ Represents(c.q, c.node, u)
        /\ \A j \in 1 .. Len(u) : u[j] \in Members(k) \cup Idle
        /\ \A l \in Queues \ {k} : \A y \in Members(l) : c.node[y] = node[y]
        /\ queues' = [queues EXCEPT ![k] = c.q] /\ node' = c.node
        /\ fifo' = [fifo EXCEPT ![k] = u]
    BY <1>2, <1>3, <1>4, <1>5, <1>6
  <1> QED
    BY <1>7, OneQueueChanges

\* An item leaves its queue from any position.
LEMMA RemoveItemIInv ==
    ASSUME IInv, NEW k \in Queues, NEW x \in Members(k), RemoveItem(k, x)
    PROVE  IInv'
  <1> DEFINE i == CHOOSE j \in 1 .. Len(fifo[k]) : fifo[k][j] = x
  <1>1. i \in 1 .. Len(fifo[k]) /\ fifo[k][i] = x
    BY DEF Members
  <1>2. fifo' = [fifo EXCEPT ![k] = Without(fifo[k], i)]
    BY DEF RemoveItem, IInv, TypeOK
  <1> HIDE DEF i
  <1> QED
    <2>1. popped' \in Items \cup {NULL}
      BY DEF RemoveItem, IInv, TypeOK
    <2>2. /\ queues' = [queues EXCEPT ![k] = remove(queues[k], node, fifo[k][i]).q]
          /\ node' = remove(queues[k], node, fifo[k][i]).node
      BY <1>1 DEF RemoveItem
    <2> QED
      BY <1>1, <1>2, <2>1, <2>2, RemoveIInv

\* What head_ points at is the oldest member.
LEMMA HeadIsOldest ==
    ASSUME IInv, NEW k \in Queues
    PROVE  /\ queues[k].head # NULL =>
                1 \in 1 .. Len(fifo[k]) /\ queues[k].head = fifo[k][1]
           /\ queues[k].head = NULL => fifo[k] = << >>
  <1>1. fifo[k] \in Seq(Items) /\ Represents(queues[k], node, fifo[k])
    BY DEF IInv, TypeOK, QueuesIntact
  <1>2. PICK n \in Nat : n = Len(fifo[k])
    BY <1>1
  <1>3. queues[k].head = IF n = 0 THEN NULL ELSE fifo[k][1]
    BY <1>1, <1>2 DEF Represents
  <1>4. n # 0 => 1 \in 1 .. n /\ fifo[k][1] \in Items
    BY <1>1, <1>2
  <1>5. n = 0 => fifo[k] = << >>
    BY <1>1, <1>2, EmptySeq
  <1> QED
    BY <1>2, <1>3, <1>4, <1>5, NullAssumption

\* pop() is the removal of the head.
LEMMA PopItemIInv ==
    ASSUME IInv, NEW k \in Queues, PopItem(k)
    PROVE  IInv'
  <1>1. 1 \in 1 .. Len(fifo[k]) /\ queues[k].head = fifo[k][1] /\ queues[k].head \in Items \cup {NULL}
    BY HeadIsOldest DEF PopItem, IInv, TypeOK, QueuesOf
  <1>2. fifo' = [fifo EXCEPT ![k] = Without(fifo[k], 1)]
    BY DEF PopItem, IInv, TypeOK
  <1> QED
    BY <1>1, <1>2, RemoveIInv DEF PopItem

\* All queues are empty.
LEMMA InitIInv == Init => IInv
  <1> SUFFICES ASSUME Init PROVE IInv
    OBVIOUS
  <1>1. TypeOK
    BY DEF Init, TypeOK, EmptyQueue, NullNode, QueuesOf, NodesOf
  <1>2. \A k \in Queues : Represents(queues[k], node, fifo[k])
    BY DEF Init, Represents, EmptyQueue
  <1>3. Exclusive
    BY DEF Init, Exclusive, Members
  <1> QED
    BY <1>1, <1>2, <1>3 DEF IInv, QueuesIntact

\* Every call keeps all queues intact.
LEMMA NextIInv == IInv /\ [Next]_vars => IInv'
  <1> SUFFICES ASSUME IInv, [Next]_vars PROVE IInv'
    OBVIOUS
  <1>1. ASSUME NEW k \in Queues, NEW x \in Idle, AppendItem(k, x) PROVE IInv'
    BY <1>1, AppendItemIInv
  <1>2. ASSUME NEW k \in Queues, NEW x \in Members(k), RemoveItem(k, x) PROVE IInv'
    BY <1>2, RemoveItemIInv
  <1>3. ASSUME NEW k \in Queues, PopItem(k) PROVE IInv'
    BY <1>3, PopItemIInv
  <1>4. ASSUME queues' = queues, node' = node, fifo' = fifo, popped' \in Items \cup {NULL}
        PROVE  IInv'
    <2>1. TypeOK'
      BY <1>4 DEF IInv, TypeOK
    <2>2. Exclusive'
      <3>1. \A k \in Queues : Members(k)' = Members(k)
        BY <1>4 DEF Members
      <3> QED
        BY <3>1 DEF IInv, QueuesIntact, Exclusive
    <2>3. \A k \in Queues : Represents(queues'[k], node', fifo'[k])
      BY <1>4 DEF IInv, QueuesIntact
    <2> QED
      BY <2>1, <2>2, <2>3 DEF IInv, QueuesIntact
  <1>5. ASSUME NEW k \in Queues, PopNothing(k) PROVE IInv'
    BY <1>4, <1>5 DEF PopNothing
  <1>6. CASE UNCHANGED vars
    BY <1>4, <1>6 DEF vars, IInv, TypeOK
  <1> QED
    BY <1>1, <1>2, <1>3, <1>5, <1>6 DEF Next

\* The invariant of all the theorems below.
LEMMA AlwaysIInv == Spec => []IInv
  BY InitIInv, NextIInv, PTL DEF Spec

(***************************************************************************)
(* head_, tail_ and every link are items or nullptr, and size_, which is   *)
(* counted down without a check, never goes below zero.                    *)
(***************************************************************************)
THEOREM QueueTypes == Spec => []TypeOK
  BY AlwaysIInv, PTL DEF IInv

(***************************************************************************)
(* For any items and queues, the links of every queue describe exactly the *)
(* items put in and not yet taken out, in order of arrival.                *)
(***************************************************************************)
THEOREM QueuesCorrect == Spec => []QueuesIntact
  BY AlwaysIInv, PTL DEF IInv

(***************************************************************************)
(* pop() always returns the item that has waited longest, and nullptr only *)
(* when nothing waits.                                                     *)
(***************************************************************************)
THEOREM PopCorrect == Spec => PopTakesOldest
  <1>1. IInv => \A k \in Queues :
                   /\ PopItem(k) => fifo[k] # << >> /\ popped' = fifo[k][1]
                   /\ PopNothing(k) => fifo[k] = << >>
    <2> SUFFICES ASSUME IInv, NEW k \in Queues
                 PROVE  /\ PopItem(k) => fifo[k] # << >> /\ popped' = fifo[k][1]
                        /\ PopNothing(k) => fifo[k] = << >>
      OBVIOUS
    <2> QED
      BY HeadIsOldest DEF PopItem, PopNothing
  <1>2. Spec => []IInv
    BY InitIInv, NextIInv, PTL DEF Spec
  <1> QED
    BY <1>1, <1>2, PTL DEF PopTakesOldest, Spec
=============================================================================
