---------------------------- MODULE QueueLemmas ----------------------------
(***************************************************************************)
(* What one operation of an IntrusiveQueue does to the items the queue     *)
(* holds, for any population of items.  Whoever owns queues cites these    *)
(* lemmas: QueueProofs for queues by themselves, OrderBookProofs for the   *)
(* price levels of a book.                                                 *)
(*                                                                         *)
(* At the end, what the sums of the models come to: OrderBookProofs adds   *)
(* up the shares along a level, ExampleProofs the values of the keys.      *)
(***************************************************************************)
EXTENDS IntrusiveQueue, Functions, FiniteSetTheorems, SequenceTheorems, WellFoundedInduction, TLAPS

\* A set of numbers has a least one.  It stands in for induction: an entry of a
\* list that is not as claimed would have a first one before it.
LEMMA HasFirst ==
    ASSUME NEW S, S \subseteq Nat, S # {}
    PROVE  \E p \in S : \A x \in S : p <= x
  <1>1. PICK p \in S : \A x \in S : ~(<<x, p>> \in OpToRel(<, Nat))
    BY NatLessThanWellFounded, WFMin
  <1>2. \A x \in S : ~(x < p)
    BY <1>1 DEF OpToRel
  <1> QED
    BY <1>2

\* append() puts the item behind the items the queue holds.
LEMMA AppendRepresents ==
    ASSUME NEW Items, NULL \notin Items, NEW q \in QueuesOf(Items), NEW nd \in [Items -> NodesOf(Items)],
           NEW s \in Seq(Items), NEW x \in Items,
           Represents(q, nd, s), \A i \in 1 .. Len(s) : s[i] # x
    PROVE  /\ append(q, nd, x).q \in QueuesOf(Items)
           /\ append(q, nd, x).node \in [Items -> NodesOf(Items)]
           /\ Represents(append(q, nd, x).q, append(q, nd, x).node, Append(s, x))
  <1>1. PICK n \in Nat : n = Len(s)
    OBVIOUS
  <1>2. PICK t : t = Append(s, x)
    OBVIOUS
  <1>3. Len(t) = n + 1 /\ t[n + 1] = x
    BY <1>1, <1>2
  <1>4. \A i \in 1 .. n : t[i] = s[i] /\ s[i] \in Items /\ s[i] # x
    BY <1>1, <1>2
  <1>5. /\ q.size = n
        /\ q.head = IF n = 0 THEN NULL ELSE s[1]
        /\ q.tail = IF n = 0 THEN NULL ELSE s[n]
    BY <1>1 DEF Represents
  <1>6. \A i, j \in 1 .. n : s[i] = s[j] => i = j
    BY <1>1 DEF Represents
  <1>7. \A i \in 1 .. n :
           nd[s[i]] = [next |-> IF i = n THEN NULL ELSE s[i + 1],
                       prev |-> IF i = 1 THEN NULL ELSE s[i - 1]]
    BY <1>1 DEF Represents
  <1>8. \A i, j \in 1 .. n + 1 : t[i] = t[j] => i = j
    <2> SUFFICES ASSUME NEW i \in 1 .. n + 1, NEW j \in 1 .. n + 1, t[i] = t[j]
                 PROVE  i = j
      OBVIOUS
    <2>1. CASE i \in 1 .. n /\ j \in 1 .. n
      <3>1. s[i] = s[j]
        BY <1>4, <2>1
      <3> QED
        BY <1>6, <2>1, <3>1
    <2>2. CASE i = n + 1 /\ j \in 1 .. n
      BY <1>3, <1>4, <2>2
    <2>3. CASE j = n + 1 /\ i \in 1 .. n
      BY <1>3, <1>4, <2>3
    <2> QED
      BY <2>1, <2>2, <2>3
  <1> DEFINE r == append(q, nd, x)
  <1>9. ASSUME r.q.size = n + 1, r.q.head = t[1], r.q.tail = x,
               \A i \in 1 .. n + 1 :
                  r.node[t[i]] = [next |-> IF i = n + 1 THEN NULL ELSE t[i + 1],
                                  prev |-> IF i = 1 THEN NULL ELSE t[i - 1]]
        PROVE  Represents(r.q, r.node, t)
    <2> HIDE DEF r
    <2>1. Len(t) # 0 /\ t[Len(t)] = x
      BY <1>3
    <2>2. \A i, j \in 1 .. Len(t) : t[i] = t[j] => i = j
      BY <1>3, <1>8
    <2>3. \A i \in 1 .. Len(t) :
             r.node[t[i]] = [next |-> IF i = Len(t) THEN NULL ELSE t[i + 1],
                             prev |-> IF i = 1 THEN NULL ELSE t[i - 1]]
      BY <1>3, <1>9
    <2> QED
      BY <1>3, <1>9, <2>1, <2>2, <2>3 DEF Represents
  <1>10. CASE n = 0
    <2>1. r = [q |-> [head |-> x, tail |-> x, size |-> q.size + 1],
               node |-> [nd EXCEPT ![x] = NullNode]]
      BY <1>5, <1>10 DEF append
    <2>2. [nd EXCEPT ![x] = NullNode] \in [Items -> NodesOf(Items)]
      BY DEF NodesOf, NullNode
    <2>3. r.q \in QueuesOf(Items) /\ r.node \in [Items -> NodesOf(Items)]
      BY <1>5, <2>1, <2>2 DEF QueuesOf
    <2>4. Represents(r.q, r.node, t)
      BY <1>3, <1>5, <1>9, <1>10, <2>1 DEF NullNode
    <2> QED
      BY <1>2, <2>3, <2>4
  <1>11. CASE n # 0
    <2>1. n \in 1 .. n /\ 1 \in 1 .. n
      BY <1>11
    <2>2. q.tail = s[n] /\ q.head = s[1]
      BY <1>5, <1>11
    <2>3. q.head \in Items /\ q.head # NULL
      BY <1>4, <2>1, <2>2
    <2>4. PICK tl \in Items : tl = q.tail /\ tl = s[n] /\ tl # x
      BY <1>4, <2>1, <2>2
    <2> DEFINE md == [nd EXCEPT ![tl].next = x, ![x] = [next |-> NULL, prev |-> tl]]
    <2>5. r = [q |-> [head |-> q.head, tail |-> x, size |-> q.size + 1], node |-> md]
      BY <2>3, <2>4 DEF append
    <2>6. /\ md \in [Items -> NodesOf(Items)]
          /\ md[x] = [next |-> NULL, prev |-> tl]
          /\ md[tl] = [next |-> x, prev |-> nd[tl].prev]
          /\ \A y \in Items : y # x /\ y # tl => md[y] = nd[y]
      BY <2>4 DEF NodesOf
    <2> HIDE DEF md
    <2>7. ASSUME NEW i \in 1 .. n + 1
          PROVE  md[t[i]] = [next |-> IF i = n + 1 THEN NULL ELSE t[i + 1],
                             prev |-> IF i = 1 THEN NULL ELSE t[i - 1]]
      <3>1. CASE i = n + 1
        <4>1. t[i - 1] = tl /\ i # 1
          BY <1>4, <1>11, <2>1, <2>4, <3>1
        <4> QED
          BY <1>3, <2>6, <3>1, <4>1
      <3>2. CASE i = n
        <4>1. nd[tl] = [next |-> NULL, prev |-> IF i = 1 THEN NULL ELSE s[i - 1]]
          BY <1>7, <2>1, <2>4, <3>2
        <4>2. i # 1 => t[i - 1] = s[i - 1]
          BY <1>4, <3>2
        <4>3. t[i] = tl /\ t[i + 1] = x /\ i # n + 1
          BY <1>3, <1>4, <2>1, <2>4, <3>2
        <4> QED
          BY <2>6, <4>1, <4>2, <4>3
      <3>3. CASE i \in 1 .. n /\ i # n
        <4>1. i + 1 \in 1 .. n /\ i # n + 1 /\ (i # 1 => i - 1 \in 1 .. n)
          BY <3>3
        <4>2. s[i] # tl
          BY <1>6, <2>1, <2>4, <3>3
        <4>3. md[t[i]] = nd[s[i]]
          BY <1>4, <2>6, <3>3, <4>2
        <4>4. t[i + 1] = s[i + 1] /\ (i # 1 => t[i - 1] = s[i - 1])
          BY <1>4, <4>1
        <4> QED
          BY <1>7, <3>3, <4>1, <4>3, <4>4
      <3> QED
        BY <3>1, <3>2, <3>3
    <2>8. t[1] = q.head
      BY <1>4, <2>1, <2>2
    <2>9. r.q \in QueuesOf(Items) /\ r.node \in [Items -> NodesOf(Items)]
      BY <1>5, <2>3, <2>5, <2>6 DEF QueuesOf
    <2>10. Represents(r.q, r.node, t)
      <3>1. r.q.size = n + 1 /\ r.q.head = t[1] /\ r.q.tail = x /\ r.node = md
        BY <1>5, <2>5, <2>8
      <3> HIDE DEF r
      <3> QED
        BY <1>9, <2>7, <3>1
    <2> QED
      BY <1>2, <2>9, <2>10
  <1> QED
    BY <1>10, <1>11

\* append() touches the links of the item and of the queue's last item only.
LEMMA AppendFrame ==
    ASSUME NEW Items, NEW q, NEW nd \in [Items -> NodesOf(Items)], NEW x \in Items, NEW y \in Items,
           y # x, q.head # NULL => y # q.tail
    PROVE  append(q, nd, x).node[y] = nd[y]
  BY DEF append

\* remove() takes the item out wherever it stands, and keeps the others' order.
LEMMA RemoveRepresents ==
    ASSUME NEW Items, NULL \notin Items, NEW q \in QueuesOf(Items), NEW nd \in [Items -> NodesOf(Items)],
           NEW s \in Seq(Items), NEW k \in 1 .. Len(s), Represents(q, nd, s)
    PROVE  /\ remove(q, nd, s[k]).q \in QueuesOf(Items)
           /\ remove(q, nd, s[k]).node \in [Items -> NodesOf(Items)]
           /\ Without(s, k) \in Seq(Items)
           /\ Represents(remove(q, nd, s[k]).q, remove(q, nd, s[k]).node, Without(s, k))
  <1>1. PICK n \in Nat : n = Len(s)
    OBVIOUS
  <1>2. PICK x \in Items : x = s[k]
    BY <1>1
  <1>3. PICK t : t = Without(s, k)
    OBVIOUS
  <1>4. k \in 1 .. n /\ n \in 1 .. n /\ 1 \in 1 .. n /\ n - 1 \in Nat
    BY <1>1
  <1>5. \A i \in 1 .. n : s[i] \in Items /\ s[i] # NULL
    BY <1>1
  <1>6. /\ q.size = n
        /\ q.head = s[1]
        /\ q.tail = s[n]
    <2>1. /\ q.size = n
          /\ q.head = IF n = 0 THEN NULL ELSE s[1]
          /\ q.tail = IF n = 0 THEN NULL ELSE s[n]
      BY <1>1 DEF Represents
    <2> QED
      BY <1>4, <2>1
  <1>7. \A i, j \in 1 .. n : s[i] = s[j] => i = j
    BY <1>1 DEF Represents
  <1>8. \A i \in 1 .. n :
           nd[s[i]] = [next |-> IF i = n THEN NULL ELSE s[i + 1],
                       prev |-> IF i = 1 THEN NULL ELSE s[i - 1]]
    BY <1>1 DEF Represents
  <1>9. t \in [1 .. n - 1 -> Items] /\ t \in Seq(Items) /\ Len(t) = n - 1
    <2>1. t \in [1 .. n - 1 -> Items]
      BY <1>1, <1>3, <1>4, <1>5 DEF Without
    <2> QED
      BY <1>4, <2>1
  <1>10. \A i \in 1 .. n - 1 : t[i] = IF i < k THEN s[i] ELSE s[i + 1]
    BY <1>1, <1>3 DEF Without
  <1>11. \A i, j \in 1 .. n - 1 : t[i] = t[j] => i = j
    <2> SUFFICES ASSUME NEW i \in 1 .. n - 1, NEW j \in 1 .. n - 1, t[i] = t[j]
                 PROVE  i = j
      OBVIOUS
    <2> DEFINE a == IF i < k THEN i ELSE i + 1
               b == IF j < k THEN j ELSE j + 1
    <2>1. a \in 1 .. n /\ b \in 1 .. n /\ s[a] = t[i] /\ s[b] = t[j]
      BY <1>4, <1>10
    <2>2. a = b
      BY <1>7, <2>1
    <2> QED
      BY <1>4, <2>2
  <1>12. PICK nx : nx = IF k = n THEN NULL ELSE s[k + 1]
    OBVIOUS
  <1>13. PICK pv : pv = IF k = 1 THEN NULL ELSE s[k - 1]
    OBVIOUS
  <1>14. nd[x] = [next |-> nx, prev |-> pv]
    BY <1>2, <1>4, <1>8, <1>12, <1>13
  <1>15. /\ nx \in Items \cup {NULL} /\ (nx = NULL <=> k = n)
         /\ pv \in Items \cup {NULL} /\ (pv = NULL <=> k = 1)
    <2>1. k # n => k + 1 \in 1 .. n
      BY <1>4
    <2>2. k # 1 => k - 1 \in 1 .. n
      BY <1>4
    <2> QED
      BY <1>5, <1>12, <1>13, <2>1, <2>2
  <1> DEFINE md == [y \in Items |->
                      IF y = x THEN NullNode
                      ELSE [next |-> IF y = pv THEN nx ELSE nd[y].next,
                            prev |-> IF y = nx THEN pv ELSE nd[y].prev]]
             r == remove(q, nd, s[k])
  <1>16. r = [q |-> [head |-> IF pv = NULL THEN nx ELSE q.head,
                     tail |-> IF nx = NULL THEN pv ELSE q.tail,
                     size |-> q.size - 1],
              node |-> md]
    BY <1>2, <1>14 DEF remove, Bypass
  <1>17. md \in [Items -> NodesOf(Items)]
    BY <1>15 DEF NodesOf, NullNode
  <1>18. \A y \in Items : y # x =>
            md[y] = [next |-> IF y = pv THEN nx ELSE nd[y].next,
                     prev |-> IF y = nx THEN pv ELSE nd[y].prev]
    OBVIOUS
  <1> HIDE DEF md
  <1>19. ASSUME NEW i \in 1 .. n - 1
         PROVE  md[t[i]] = [next |-> IF i = n - 1 THEN NULL ELSE t[i + 1],
                            prev |-> IF i = 1 THEN NULL ELSE t[i - 1]]
    <2>1. CASE i < k
      <3>1. i \in 1 .. n /\ i # k /\ i # n /\ i + 1 \in 1 .. n
        BY <1>4, <2>1
      <3>2. t[i] = s[i] /\ s[i] \in Items /\ s[i] # x
        BY <1>2, <1>4, <1>5, <1>7, <1>10, <2>1, <3>1
      <3>3. nd[s[i]] = [next |-> s[i + 1], prev |-> IF i = 1 THEN NULL ELSE s[i - 1]]
        BY <1>8, <3>1
      <3>4. s[i] # nx
        <4>1. k # n => k + 1 \in 1 .. n /\ k + 1 # i
          BY <1>4, <2>1
        <4> QED
          BY <1>5, <1>7, <1>12, <3>1, <4>1
      <3>5. i # 1 => t[i - 1] = s[i - 1]
        BY <1>4, <1>10, <2>1
      <3>6. CASE i = k - 1
        <4>1. s[i] = pv
          BY <1>4, <1>13, <3>1, <3>6
        <4>2. nx = IF i = n - 1 THEN NULL ELSE t[i + 1]
          BY <1>4, <1>10, <1>12, <3>6
        <4>3. md[t[i]] = [next |-> nx, prev |-> nd[s[i]].prev]
          BY <1>18, <3>2, <3>4, <4>1
        <4> QED
          BY <3>3, <3>5, <4>2, <4>3
      <3>7. CASE i # k - 1
        <4>1. s[i] # pv
          <5>1. k # 1 => k - 1 \in 1 .. n /\ k - 1 # i
            BY <1>4, <3>7
          <5> QED
            BY <1>5, <1>7, <1>13, <3>1, <5>1
        <4>2. i # n - 1 /\ t[i + 1] = s[i + 1]
          BY <1>4, <1>10, <2>1, <3>7
        <4> QED
          BY <1>18, <3>2, <3>3, <3>4, <3>5, <4>1, <4>2
      <3> QED
        BY <3>6, <3>7
    <2>2. CASE i >= k
      <3>1. i + 1 \in 1 .. n /\ i + 1 # k /\ i + 1 # 1
        BY <1>4, <2>2
      <3>2. t[i] = s[i + 1] /\ s[i + 1] \in Items /\ s[i + 1] # x
        BY <1>2, <1>4, <1>5, <1>7, <1>10, <2>2, <3>1
      <3>3. nd[s[i + 1]] = [next |-> IF i + 1 = n THEN NULL ELSE s[i + 1 + 1],
                            prev |-> s[i + 1 - 1]]
        <4>1. PICK j \in 1 .. n : j = i + 1 /\ j # 1
          BY <3>1
        <4>2. nd[s[j]] = [next |-> IF j = n THEN NULL ELSE s[j + 1], prev |-> s[j - 1]]
          BY <1>8, <4>1
        <4> QED
          BY <4>1, <4>2
      <3>4. s[i + 1] # pv
        <4>1. k # 1 => k - 1 \in 1 .. n /\ k - 1 # i + 1
          BY <1>4, <2>2
        <4> QED
          BY <1>5, <1>7, <1>13, <3>1, <4>1
      <3>5. i # n - 1 => t[i + 1] = s[i + 1 + 1]
        BY <1>4, <1>10, <2>2
      <3>6. i + 1 = n <=> i = n - 1
        BY <1>4
      <3>7. CASE i = k
        <4>1. s[i + 1] = nx
          BY <1>4, <1>12, <3>1, <3>7
        <4>2. pv = IF i = 1 THEN NULL ELSE t[i - 1]
          BY <1>4, <1>10, <1>13, <3>7
        <4>3. md[t[i]] = [next |-> nd[s[i + 1]].next, prev |-> pv]
          BY <1>18, <3>2, <3>4, <4>1
        <4> QED
          BY <3>3, <3>5, <3>6, <4>2, <4>3
      <3>8. CASE i # k
        <4>1. s[i + 1] # nx
          <5>1. k # n => k + 1 \in 1 .. n /\ k + 1 # i + 1
            BY <1>4, <3>8
          <5> QED
            BY <1>5, <1>7, <1>12, <3>1, <5>1
        <4>2. i # 1 /\ t[i - 1] = s[i + 1 - 1]
          BY <1>4, <1>10, <2>2, <3>8
        <4> QED
          BY <1>18, <3>2, <3>3, <3>4, <3>5, <3>6, <4>1, <4>2
      <3> QED
        BY <3>7, <3>8
    <2> QED
      BY <1>4, <2>1, <2>2
  <1>20. r.q.head = IF n - 1 = 0 THEN NULL ELSE t[1]
    <2>1. r.q.head = IF k = 1 THEN nx ELSE s[1]
      BY <1>6, <1>15, <1>16
    <2>2. n - 1 # 0 => t[1] = IF 1 < k THEN s[1] ELSE s[2]
      BY <1>4, <1>10
    <2> QED
      BY <1>4, <1>12, <2>1, <2>2
  <1>21. r.q.tail = IF n - 1 = 0 THEN NULL ELSE t[n - 1]
    <2>1. r.q.tail = IF k = n THEN pv ELSE s[n]
      BY <1>6, <1>15, <1>16
    <2>2. n - 1 # 0 => t[n - 1] = IF n - 1 < k THEN s[n - 1] ELSE s[n]
      BY <1>4, <1>10
    <2> QED
      BY <1>4, <1>13, <2>1, <2>2
  <1>22. r.q.size = n - 1 /\ r.node = md
    BY <1>6, <1>16
  <1>23. r.q \in QueuesOf(Items) /\ r.node \in [Items -> NodesOf(Items)]
    BY <1>4, <1>6, <1>15, <1>16, <1>17 DEF QueuesOf
  <1>24. Represents(r.q, r.node, t)
    <2> HIDE DEF r
    <2> QED
      BY <1>9, <1>11, <1>19, <1>20, <1>21, <1>22 DEF Represents
  <1> QED
    BY <1>3, <1>9, <1>23, <1>24

\* remove() touches the links of the item and of its neighbours only.
LEMMA RemoveFrame ==
    ASSUME NEW Items, NEW q, NEW nd \in [Items -> NodesOf(Items)], NEW x \in Items, NEW y \in Items,
           y # x, y # nd[x].prev, y # nd[x].next
    PROVE  remove(q, nd, x).node[y] = nd[y]
  BY DEF remove, Bypass, NodesOf

\* A queue none of whose items' links change keeps its contents.
LEMMA RepresentsFrame ==
    ASSUME NEW q, NEW nd, NEW md, NEW s, Represents(q, nd, s),
           \A i \in 1 .. Len(s) : md[s[i]] = nd[s[i]]
    PROVE  Represents(q, md, s)
  BY DEF Represents

\* The neighbours of a member are members.
LEMMA NeighboursAreMembers ==
    ASSUME NEW Items, NEW q, NEW nd, NEW s \in Seq(Items), Represents(q, nd, s),
           NEW k \in 1 .. Len(s)
    PROVE  /\ nd[s[k]].prev \in {s[i] : i \in 1 .. Len(s)} \cup {NULL}
           /\ nd[s[k]].next \in {s[i] : i \in 1 .. Len(s)} \cup {NULL}
  <1>1. PICK n \in Nat : n = Len(s)
    OBVIOUS
  <1>2. nd[s[k]] = [next |-> IF k = n THEN NULL ELSE s[k + 1],
                    prev |-> IF k = 1 THEN NULL ELSE s[k - 1]]
    BY <1>1 DEF Represents
  <1> DEFINE M == {s[i] : i \in 1 .. Len(s)}
  <1>3. k # n => s[k + 1] \in M
    <2>1. k # n => k + 1 \in 1 .. Len(s)
      BY <1>1
    <2> QED
      BY <2>1
  <1>4. k # 1 => s[k - 1] \in M
    <2>1. k # 1 => k - 1 \in 1 .. Len(s)
      BY <1>1
    <2> QED
      BY <2>1
  <1> HIDE DEF M
  <1>5. nd[s[k]].next \in M \cup {NULL} /\ nd[s[k]].prev \in M \cup {NULL}
    BY <1>2, <1>3, <1>4
  <1> QED
    BY <1>5 DEF M

\* A reader who follows the links from head_ meets the items the queue holds:
\* the first entry at which the walk went astray would follow one at which it
\* had not.
LEMMA WalkMeetsAll ==
    ASSUME NEW Items, NULL \notin Items, NEW q, NEW nd, NEW s \in Seq(Items),
           Represents(q, nd, s)
    PROVE  Walk(q, nd) = s
  <1>1. PICK n \in Nat : n = Len(s)
    OBVIOUS
  <1>2. s \in [1 .. n -> Items]
    BY <1>1
  <1>3. q.size = n /\ (n # 0 => q.head = s[1])
    BY <1>1 DEF Represents
  <1>4. \A i \in 1 .. n : i # n => nd[s[i]].next = s[i + 1]
    <2>1. \A i \in 1 .. n :
             nd[s[i]] = [next |-> IF i = n THEN NULL ELSE s[i + 1],
                         prev |-> IF i = 1 THEN NULL ELSE s[i - 1]]
      BY <1>1 DEF Represents
    <2> SUFFICES ASSUME NEW i \in 1 .. n, i # n PROVE nd[s[i]].next = s[i + 1]
      OBVIOUS
    <2>2. PICK e : e = nd[s[i]]
      OBVIOUS
    <2>3. e = [next |-> s[i + 1], prev |-> IF i = 1 THEN NULL ELSE s[i - 1]]
      BY <2>1, <2>2
    <2> QED
      BY <2>2, <2>3
  <1> DEFINE F(f) == [i \in 1 .. q.size |->
                        IF i = 1 THEN q.head
                        ELSE IF f[i - 1] = NULL THEN NULL ELSE nd[f[i - 1]].next]
  <1>5. ASSUME NEW i \in 1 .. n, i # 1 PROVE s[i - 1] # NULL /\ nd[s[i - 1]].next = s[i]
    <2>1. i - 1 \in 1 .. n /\ i - 1 # n /\ i - 1 + 1 = i
      BY <1>5
    <2> QED
      BY <1>2, <1>4, <2>1
  <1>6. s = F(s)
    <2>1. \A i \in 1 .. n : s[i] = F(s)[i]
      BY <1>3, <1>5
    <2> QED
      BY <1>2, <1>3, <2>1
  <1>7. Walk(q, nd) = CHOOSE f : f = F(f)
    BY DEF Walk
  <1>8. PICK w : w = Walk(q, nd)
    OBVIOUS
  <1>9. w = F(w)
    <2>1. \E f : f = F(f)
      BY <1>6
    <2> HIDE DEF F
    <2> QED
      BY <1>7, <1>8, <2>1
  <1>10. \A i \in 1 .. n : w[i] = IF i = 1 THEN q.head
                                  ELSE IF w[i - 1] = NULL THEN NULL ELSE nd[w[i - 1]].next
    <2>1. PICK g : g = F(w)
      OBVIOUS
    <2>2. \A i \in 1 .. n : g[i] = IF i = 1 THEN q.head
                                  ELSE IF w[i - 1] = NULL THEN NULL ELSE nd[w[i - 1]].next
      BY <1>3, <2>1
    <2> QED
      BY <1>9, <2>1, <2>2
  <1> DEFINE Bad == {i \in 1 .. n : w[i] # s[i]}
  <1>11. ASSUME Bad # {} PROVE FALSE
    <2>1. PICK b \in Bad : \A x \in Bad : b <= x
      <3>1. Bad \subseteq Nat
        OBVIOUS
      <3> HIDE DEF Bad
      <3> QED
        BY <1>11, <3>1, HasFirst
    <2>2. b \in 1 .. n /\ w[b] # s[b]
      OBVIOUS
    <2>3. b # 1
      BY <1>3, <1>10, <2>2
    <2>4. b - 1 \in 1 .. n /\ b - 1 < b
      BY <2>2, <2>3
    <2>5. w[b - 1] = s[b - 1]
      BY <2>1, <2>4
    <2> QED
      BY <1>5, <1>10, <2>2, <2>3, <2>5
  <1>12. DOMAIN w = 1 .. n
    <2>1. DOMAIN F(w) = 1 .. n
      BY <1>3
    <2> HIDE DEF F
    <2> QED
      BY <1>9, <2>1
  <1>13. w = [i \in 1 .. n |-> s[i]]
    <2>1. w = [i \in DOMAIN w |-> w[i]]
      <3>1. \A f : F(f) = [i \in DOMAIN F(f) |-> F(f)[i]]
        OBVIOUS
      <3> HIDE DEF F
      <3> QED
        BY <1>9, <3>1
    <2>2. \A i \in 1 .. n : w[i] = s[i]
      BY <1>11
    <2> QED
      BY <1>12, <2>1, <2>2
  <1> QED
    BY <1>2, <1>8, <1>13

\* A function on 1 .. n is a sequence of length n.
LEMMA FunctionIsSeq ==
    ASSUME NEW S, NEW n, NEW f, n \in Nat, f \in [1 .. n -> S]
    PROVE  f \in Seq(S) /\ Len(f) = n
  OBVIOUS

\* What Append adds.
LEMMA AppendEntries ==
    ASSUME NEW S, NEW s \in Seq(S), NEW e \in S
    PROVE  Append(s, e) = [i \in 1 .. Len(s) + 1 |-> IF i = Len(s) + 1 THEN e ELSE s[i]]
  <1>1. PICK t, n : t = Append(s, e) /\ n = Len(s) + 1
    OBVIOUS
  <1>2. t \in Seq(S) /\ Len(t) = n /\ \A i \in 1 .. Len(s) : t[i] = s[i]
    BY <1>1, AppendProperties
  <1>3. t[n] = e
    BY <1>1, AppendProperties
  <1>4. \A i \in 1 .. n : t[i] = IF i = n THEN e ELSE s[i]
    <2>1. \A i \in 1 .. n : i # n => i \in 1 .. Len(s)
      BY <1>1
    <2> QED
      BY <1>2, <1>3, <2>1
  <1>5. t \in [1 .. n -> S]
    BY <1>2
  <1>6. t = [i \in 1 .. n |-> IF i = n THEN e ELSE s[i]]
    BY <1>4, <1>5
  <1> QED
    BY <1>1, <1>6

\* What Tail leaves.
LEMMA TailEntries ==
    ASSUME NEW S, NEW s \in Seq(S), s # << >>
    PROVE  Tail(s) = [i \in 1 .. Len(s) - 1 |-> s[i + 1]]
  <1>1. PICK t, n : t = Tail(s) /\ n = Len(s) - 1
    OBVIOUS
  <1>2. t \in Seq(S) /\ Len(t) = n /\ \A i \in 1 .. Len(t) : t[i] = s[i + 1]
    BY <1>1, HeadTailProperties
  <1>3. t \in [1 .. n -> S] /\ \A i \in 1 .. n : t[i] = s[i + 1]
    BY <1>2
  <1>4. t = [i \in 1 .. n |-> s[i + 1]]
    BY <1>3
  <1> QED
    BY <1>1, <1>4

----------------------------------------------------------------------------
(* The same facts for a caller that knows which items a queue holds and    *)
(* not in which order.                                                     *)

\* The queue is a sound list of the items of S.
Holds(Items, q, nd, S) ==
    \E s \in Seq(Items) : Represents(q, nd, s) /\ S = {s[i] : i \in 1 .. Len(s)}

\* A default-constructed queue holds nothing.
LEMMA EmptyHolds ==
    ASSUME NEW Items, NEW nd
    PROVE  Holds(Items, EmptyQueue, nd, {})
  <1>1. << >> \in Seq(Items) /\ Represents(EmptyQueue, nd, << >>)
    BY DEF Represents, EmptyQueue
  <1>2. {<< >>[i] : i \in 1 .. Len(<< >>)} = {}
    OBVIOUS
  <1> QED
    BY <1>1, <1>2 DEF Holds

\* Links of other items do not matter to a queue.
LEMMA HoldsFrame ==
    ASSUME NEW Items, NEW q, NEW nd, NEW md, NEW S, Holds(Items, q, nd, S),
           \A y \in S : md[y] = nd[y]
    PROVE  Holds(Items, q, md, S)
  <1>1. PICK s \in Seq(Items) : Represents(q, nd, s) /\ S = {s[i] : i \in 1 .. Len(s)}
    BY DEF Holds
  <1>2. Represents(q, md, s)
    BY <1>1, RepresentsFrame
  <1> QED
    BY <1>1, <1>2 DEF Holds

\* size_ and head_ tell whether there is an item, and head_ is one.
LEMMA HoldsHead ==
    ASSUME NEW Items, NULL \notin Items, NEW q, NEW nd, NEW S, Holds(Items, q, nd, S)
    PROVE  /\ S \subseteq Items
           /\ q.size = 0 <=> S = {}
           /\ q.size # 0 => q.head \in S
  <1>1. PICK s \in Seq(Items) : Represents(q, nd, s) /\ S = {s[i] : i \in 1 .. Len(s)}
    BY DEF Holds
  <1>2. PICK n \in Nat : n = Len(s)
    OBVIOUS
  <1>3. q.size = n /\ (n # 0 => q.head = s[1] /\ 1 \in 1 .. n)
    <2>1. Represents(q, nd, s)
      BY <1>1
    <2>2. q.size = n /\ (n # 0 => q.head = s[1])
      BY <1>2, <2>1 DEF Represents
    <2> QED
      BY <2>2
  <1>4. n # 0 => q.head \in S
    BY <1>1, <1>2, <1>3
  <1>5. n = 0 => S = {}
    BY <1>1, <1>2
  <1>6. S \subseteq Items
    BY <1>1
  <1> QED
    BY <1>3, <1>4, <1>5, <1>6

\* append() adds its item to what the queue holds.
LEMMA HoldsAppend ==
    ASSUME NEW Items, NEW q, NEW nd, NEW S, NEW x,
           NULL \notin Items, q \in QueuesOf(Items), nd \in [Items -> NodesOf(Items)],
           Holds(Items, q, nd, S), x \in Items, x \notin S
    PROVE  Holds(Items, append(q, nd, x).q, append(q, nd, x).node, S \cup {x})
  <1>1. PICK s \in Seq(Items) : Represents(q, nd, s) /\ S = {s[i] : i \in 1 .. Len(s)}
    BY DEF Holds
  <1>2. Represents(append(q, nd, x).q, append(q, nd, x).node, Append(s, x))
    BY <1>1, AppendRepresents
  <1>3. PICK n \in Nat : n = Len(s)
    OBVIOUS
  <1>4. PICK t : t = Append(s, x) /\ t \in Seq(Items)
    <2>1. Append(s, x) \in Seq(Items)
      OBVIOUS
    <2> QED
      BY <2>1
  <1>5. Len(t) = n + 1 /\ t[n + 1] = x /\ \A i \in 1 .. n : t[i] = s[i]
    BY <1>3, <1>4
  <1>6. S \cup {x} = {t[i] : i \in 1 .. Len(t)}
    <2>1. \A i \in 1 .. n + 1 : i \in 1 .. n \/ i = n + 1
      BY <1>3
    <2>2. \A i \in 1 .. n : i \in 1 .. n + 1
      BY <1>3
    <2>3. n + 1 \in 1 .. n + 1
      BY <1>3
    <2> QED
      BY <1>1, <1>3, <1>5, <2>1, <2>2, <2>3
  <1> QED
    BY <1>2, <1>4, <1>6 DEF Holds

\* ... and the items of other queues keep their links.
LEMMA HoldsAppendFrame ==
    ASSUME NEW Items, NEW q, NEW nd, NEW S, NEW x, NEW y,
           nd \in [Items -> NodesOf(Items)],
           Holds(Items, q, nd, S), x \in Items, y \in Items, y \notin S, y # x
    PROVE  append(q, nd, x).node[y] = nd[y]
  <1>1. PICK s \in Seq(Items) : Represents(q, nd, s) /\ S = {s[i] : i \in 1 .. Len(s)}
    BY DEF Holds
  <1>2. PICK n \in Nat : n = Len(s)
    OBVIOUS
  <1>3. q.head # NULL => n # 0 /\ q.tail = s[n]
    BY <1>1, <1>2 DEF Represents
  <1>4. q.head # NULL => q.tail \in S
    BY <1>1, <1>2, <1>3
  <1> QED
    BY <1>4, AppendFrame

\* remove() takes its item, wherever it is in the queue, and no other.
LEMMA HoldsRemove ==
    ASSUME NEW Items, NEW q, NEW nd, NEW S, NEW x,
           NULL \notin Items, q \in QueuesOf(Items), nd \in [Items -> NodesOf(Items)],
           Holds(Items, q, nd, S), x \in S
    PROVE  Holds(Items, remove(q, nd, x).q, remove(q, nd, x).node, S \ {x})
  <1>1. PICK s \in Seq(Items) : Represents(q, nd, s) /\ S = {s[i] : i \in 1 .. Len(s)}
    BY DEF Holds
  <1>2. PICK k \in 1 .. Len(s) : s[k] = x
    BY <1>1
  <1>3. PICK t \in Seq(Items) : t = Without(s, k) /\ Represents(remove(q, nd, x).q, remove(q, nd, x).node, t)
    BY <1>1, <1>2, RemoveRepresents
  <1>4. PICK n \in Nat : n = Len(s) /\ k \in 1 .. n
    OBVIOUS
  <1>5. Len(t) = n - 1 /\ \A i \in 1 .. n - 1 : t[i] = IF i < k THEN s[i] ELSE s[i + 1]
    BY <1>3, <1>4 DEF Without
  <1>6. ASSUME NEW i \in 1 .. n - 1 PROVE t[i] \in S \ {x}
    <2>1. PICK j \in 1 .. n : j # k /\ t[i] = s[j]
      <3>1. CASE i < k
        BY <1>4, <1>5, <3>1
      <3>2. CASE ~(i < k)
        <4>1. i + 1 \in 1 .. n /\ i + 1 # k
          BY <1>4, <3>2
        <4> QED
          BY <1>5, <3>2, <4>1
      <3> QED
        BY <3>1, <3>2
    <2>2. s[j] # s[k]
      BY <1>1, <1>4, <2>1 DEF Represents
    <2> QED
      BY <1>1, <1>2, <1>4, <2>1, <2>2
  <1>7. ASSUME NEW y \in S \ {x} PROVE \E i \in 1 .. n - 1 : t[i] = y
    <2>1. PICK j \in 1 .. n : s[j] = y
      BY <1>1, <1>4
    <2>2. CASE j < k
      <3>1. j \in 1 .. n - 1 /\ t[j] = s[j]
        BY <1>4, <1>5, <2>2
      <3> QED
        BY <2>1, <3>1
    <2>3. CASE j > k
      <3>1. j - 1 \in 1 .. n - 1 /\ ~(j - 1 < k) /\ j - 1 + 1 = j
        BY <1>4, <2>3
      <3> QED
        BY <1>5, <2>1, <3>1
    <2> QED
      BY <1>2, <1>4, <2>1, <2>2, <2>3
  <1>8. S \ {x} = {t[i] : i \in 1 .. Len(t)}
    BY <1>5, <1>6, <1>7
  <1> QED
    BY <1>3, <1>8 DEF Holds

\* It relinks only members of the queue.
LEMMA HoldsRemoveFrame ==
    ASSUME NEW Items, NEW q, NEW nd, NEW S, NEW x, NEW y,
           NULL \notin Items, nd \in [Items -> NodesOf(Items)],
           Holds(Items, q, nd, S), x \in S, y \in Items, y \notin S
    PROVE  remove(q, nd, x).node[y] = nd[y]
  <1>1. PICK s \in Seq(Items) : Represents(q, nd, s) /\ S = {s[i] : i \in 1 .. Len(s)}
    BY DEF Holds
  <1>2. PICK k \in 1 .. Len(s) : s[k] = x
    BY <1>1
  <1>3. nd[x].prev \in S \cup {NULL} /\ nd[x].next \in S \cup {NULL}
    BY <1>1, <1>2, NeighboursAreMembers
  <1>4. x \in Items
    BY <1>1
  <1> QED
    BY <1>3, <1>4, RemoveFrame

\* What a reader of such a queue meets.
LEMMA HoldsWalk ==
    ASSUME NEW Items, NULL \notin Items, NEW q, NEW nd, NEW S, Holds(Items, q, nd, S)
    PROVE  /\ Walk(q, nd) \in Seq(Items)
           /\ Represents(q, nd, Walk(q, nd))
           /\ DOMAIN Walk(q, nd) = 1 .. q.size
           /\ S = {Walk(q, nd)[i] : i \in 1 .. q.size}
  <1>1. PICK s \in Seq(Items) : Represents(q, nd, s) /\ S = {s[i] : i \in 1 .. Len(s)}
    BY DEF Holds
  <1>2. Walk(q, nd) = s
    BY <1>1, WalkMeetsAll
  <1>3. q.size = Len(s) /\ DOMAIN s = 1 .. Len(s)
    <2>1. q.size = Len(s)
      BY <1>1 DEF Represents
    <2> QED
      BY <2>1
  <1> QED
    BY <1>1, <1>2, <1>3
----------------------------------------------------------------------------
(* Sums.  SumFunctionOnSet takes the elements of a set out one by one, in  *)
(* an order that CHOOSE decides; these lemmas say that the order does not  *)
(* matter.                                                                 *)

Some(t) == CHOOSE x \in t : TRUE

\* The definition of the sums of f over the subsets of S, as a map from a guess
\* at them to the next one.
Totals(f, S, g) ==
    [t \in SUBSET S |-> IF t = {} THEN 0 ELSE f[Some(t)] + g[t \ {Some(t)}]]

\* What is left when the chosen element is gone is smaller by one.
LEMMA SomeLeaves ==
    ASSUME NEW S, IsFiniteSet(S), NEW t, t \subseteq S, t # {}
    PROVE  /\ Some(t) \in t /\ t \ {Some(t)} \subseteq S
           /\ Cardinality(t) \in Nat /\ Cardinality(t) # 0
           /\ Cardinality(t \ {Some(t)}) = Cardinality(t) - 1
  <1>1. Some(t) \in t
    BY DEF Some
  <1>2. IsFiniteSet(t)
    BY FS_Subset
  <1>3. Cardinality(t) \in Nat /\ Cardinality(t) # 0
    BY <1>2, FS_CardinalityType, FS_EmptySet
  <1>4. Cardinality(t \ {Some(t)}) = Cardinality(t) - 1
    BY <1>1, <1>2, FS_RemoveElement
  <1> QED
    BY <1>1, <1>3, <1>4

\* The definition has a solution: one that is right on the subsets of at most k
\* elements yields one that is right on those of one more.
LEMMA TotalsExist ==
    ASSUME NEW f, NEW S, IsFiniteSet(S)
    PROVE  \E g : g = Totals(f, S, g)
  <1> DEFINE Right(g, k) == \A t \in SUBSET S : Cardinality(t) <= k => g[t] = Totals(f, S, g)[t]
  <1> DEFINE Bad == {k \in Nat : \A g : ~Right(g, k)}
  <1>1. ASSUME Bad # {} PROVE FALSE
    <2>1. PICK k \in Bad : \A x \in Bad : k <= x
      <3>1. Bad \subseteq Nat
        OBVIOUS
      <3> HIDE DEF Bad
      <3> QED
        BY <1>1, <3>1, HasFirst
    <2>2. k \in Nat /\ \A g : ~Right(g, k)
      OBVIOUS
    <2> HIDE DEF Bad
    <2>3. \E h : \A t \in SUBSET S : t # {} /\ Cardinality(t) <= k =>
                   h[t \ {Some(t)}] = Totals(f, S, h)[t \ {Some(t)}]
      <3>1. CASE k = 0
        <4>1. \A t \in SUBSET S : t # {} => ~(Cardinality(t) <= k)
          <5> SUFFICES ASSUME NEW t \in SUBSET S, t # {} PROVE ~(Cardinality(t) <= k)
            OBVIOUS
          <5>1. Cardinality(t) \in Nat /\ Cardinality(t) # 0
            BY SomeLeaves
          <5> QED
            BY <3>1, <5>1
        <4> QED
          BY <4>1
      <3>2. CASE k # 0
        <4>1. k - 1 \in Nat /\ k - 1 \notin Bad
          BY <2>1, <2>2, <3>2
        <4>2. PICK h : Right(h, k - 1)
          BY <4>1 DEF Bad
        <4>3. ASSUME NEW t \in SUBSET S, t # {}, Cardinality(t) <= k
              PROVE  h[t \ {Some(t)}] = Totals(f, S, h)[t \ {Some(t)}]
          <5>1. t \ {Some(t)} \in SUBSET S /\ Cardinality(t \ {Some(t)}) <= k - 1
            BY <2>2, <4>3, SomeLeaves
          <5> QED
            BY <4>2, <5>1
        <4> QED
          BY <4>3
      <3> QED
        BY <3>1, <3>2
    <2>4. PICK h : \A t \in SUBSET S : t # {} /\ Cardinality(t) <= k =>
                     h[t \ {Some(t)}] = Totals(f, S, h)[t \ {Some(t)}]
      BY <2>3
    <2>5. PICK g : g = Totals(f, S, h)
      OBVIOUS
    <2>6. ASSUME NEW t \in SUBSET S, Cardinality(t) <= k
          PROVE  g[t] = Totals(f, S, g)[t]
      <3>1. CASE t = {}
        BY <2>5, <3>1 DEF Totals
      <3>2. CASE t # {}
        <4>1. g[t] = f[Some(t)] + h[t \ {Some(t)}]
          BY <2>5, <3>2 DEF Totals
        <4>2. Totals(f, S, g)[t] = f[Some(t)] + g[t \ {Some(t)}]
          BY <3>2 DEF Totals
        <4>3. h[t \ {Some(t)}] = g[t \ {Some(t)}]
          BY <2>4, <2>5, <2>6, <3>2
        <4> QED
          BY <4>1, <4>2, <4>3
      <3> QED
        BY <3>1, <3>2
    <2> QED
      BY <2>2, <2>6
  <1>2. Cardinality(S) \in Nat
    BY FS_CardinalityType
  <1>3. PICK g : Right(g, Cardinality(S))
    BY <1>1, <1>2
  <1>4. \A t \in SUBSET S : Cardinality(t) <= Cardinality(S)
    BY FS_Subset
  <1>5. \A t \in SUBSET S : g[t] = Totals(f, S, g)[t]
    BY <1>3, <1>4
  <1>6. PICK e : e = Totals(f, S, g)
    OBVIOUS
  <1>7. \A t \in SUBSET S : e[t] = g[t]
    BY <1>5, <1>6
  <1>8. Totals(f, S, e) = Totals(f, S, g)
    <2>1. \A t \in SUBSET S : t \ {Some(t)} \in SUBSET S
      OBVIOUS
    <2>2. \A t \in SUBSET S : e[t \ {Some(t)}] = g[t \ {Some(t)}]
      BY <1>7, <2>1
    <2> QED
      BY <2>2 DEF Totals
  <1> QED
    BY <1>6, <1>8

\* The sums are a solution.
LEMMA SumIsTotal ==
    ASSUME NEW f, NEW S, IsFiniteSet(S)
    PROVE  \E g : g = Totals(f, S, g) /\ SumFunctionOnSet(f, S) = g[S]
  <1>1. SumFunctionOnSet(f, S) = (CHOOSE g : g = Totals(f, S, g))[S]
    BY DEF SumFunctionOnSet, FoldFunctionOnSet, MapThenFoldSet, Totals, Some
  <1> QED
    BY <1>1, TotalsExist

\* Two solutions agree where both are defined: a smallest set on which they do
\* not would have a smaller one.
LEMMA TotalsAgree ==
    ASSUME NEW f, NEW S, NEW T, NEW g, NEW h, IsFiniteSet(S), T \subseteq S,
           g = Totals(f, S, g), h = Totals(f, T, h), NEW u \in SUBSET T
    PROVE  g[u] = h[u]
  <1> DEFINE Bad == {n \in Nat : \E t \in SUBSET T : Cardinality(t) = n /\ g[t] # h[t]}
  <1>1. ASSUME Bad # {} PROVE FALSE
    <2>1. PICK n \in Bad : \A x \in Bad : n <= x
      <3>1. Bad \subseteq Nat
        OBVIOUS
      <3> HIDE DEF Bad
      <3> QED
        BY <1>1, <3>1, HasFirst
    <2>2. PICK t \in SUBSET T : Cardinality(t) = n /\ g[t] # h[t]
      OBVIOUS
    <2>3. t # {}
      <3>1. Totals(f, S, g)[{}] = 0 /\ Totals(f, T, h)[{}] = 0
        BY DEF Totals
      <3> QED
        BY <2>2, <3>1
    <2>4. t \ {Some(t)} \in SUBSET T /\ Cardinality(t \ {Some(t)}) = n - 1 /\ n - 1 \in Nat
      BY <2>2, <2>3, SomeLeaves
    <2>5. g[t \ {Some(t)}] = h[t \ {Some(t)}]
      BY <2>1, <2>4
    <2>6. /\ Totals(f, S, g)[t] = f[Some(t)] + g[t \ {Some(t)}]
          /\ Totals(f, T, h)[t] = f[Some(t)] + h[t \ {Some(t)}]
      BY <2>2, <2>3 DEF Totals
    <2> QED
      BY <2>2, <2>5, <2>6
  <1>2. Cardinality(u) \in Nat
    BY FS_Subset, FS_CardinalityType
  <1> QED
    BY <1>1, <1>2

\* The sum over nothing.
LEMMA SumOfNone ==
    ASSUME NEW f
    PROVE  SumFunctionOnSet(f, {}) = 0
  <1>1. PICK g : g = Totals(f, {}, g) /\ SumFunctionOnSet(f, {}) = g[{}]
    BY SumIsTotal, FS_EmptySet
  <1>2. Totals(f, {}, g)[{}] = 0
    BY DEF Totals
  <1> QED
    BY <1>1, <1>2

\* The sum takes one element, and then the others.
LEMMA SumOfSome ==
    ASSUME NEW f, NEW S, IsFiniteSet(S), S # {}
    PROVE  SumFunctionOnSet(f, S) = f[Some(S)] + SumFunctionOnSet(f, S \ {Some(S)})
  <1>1. PICK T : T = S \ {Some(S)}
    OBVIOUS
  <1>2. IsFiniteSet(T) /\ T \subseteq S
    BY <1>1, FS_Subset
  <1>3. PICK g : g = Totals(f, S, g) /\ SumFunctionOnSet(f, S) = g[S]
    BY SumIsTotal
  <1>4. PICK h : h = Totals(f, T, h) /\ SumFunctionOnSet(f, T) = h[T]
    BY <1>2, SumIsTotal
  <1>5. g[T] = h[T]
    BY <1>2, <1>3, <1>4, TotalsAgree
  <1>6. Totals(f, S, g)[S] = f[Some(S)] + g[T]
    BY <1>1 DEF Totals
  <1> QED
    BY <1>1, <1>3, <1>4, <1>5, <1>6

\* A sum of numbers is a number.
LEMMA SumType ==
    ASSUME NEW f, NEW U, IsFiniteSet(U), \A y \in U : f[y] \in Nat,
           NEW S \in SUBSET U
    PROVE  SumFunctionOnSet(f, S) \in Nat
  <1> DEFINE Bad == {n \in Nat : \E t \in SUBSET U :
                        Cardinality(t) = n /\ SumFunctionOnSet(f, t) \notin Nat}
  <1>1. ASSUME Bad # {} PROVE FALSE
    <2>1. PICK n \in Bad : \A x \in Bad : n <= x
      <3>1. Bad \subseteq Nat
        OBVIOUS
      <3> HIDE DEF Bad
      <3> QED
        BY <1>1, <3>1, HasFirst
    <2>2. PICK t \in SUBSET U : Cardinality(t) = n /\ SumFunctionOnSet(f, t) \notin Nat
      OBVIOUS
    <2>3. t # {}
      BY <2>2, SumOfNone
    <2>4. /\ t \ {Some(t)} \in SUBSET U /\ Cardinality(t \ {Some(t)}) = n - 1
          /\ n - 1 \in Nat /\ Some(t) \in U
      BY <2>2, <2>3, SomeLeaves
    <2>5. SumFunctionOnSet(f, t \ {Some(t)}) \in Nat
      BY <2>1, <2>4
    <2>6. IsFiniteSet(t)
      BY <2>2, FS_Subset
    <2>7. SumFunctionOnSet(f, t) = f[Some(t)] + SumFunctionOnSet(f, t \ {Some(t)})
      BY <2>3, <2>6, SumOfSome
    <2> QED
      BY <2>2, <2>4, <2>5, <2>7
  <1>2. Cardinality(S) \in Nat
    BY FS_Subset, FS_CardinalityType
  <1> QED
    BY <1>1, <1>2

\* Any element may be taken first: in a smallest set for which this failed,
\* the element that is taken and the one in question could be swapped.
LEMMA SumWithOneMore ==
    ASSUME NEW f, NEW U, IsFiniteSet(U), \A y \in U : f[y] \in Nat,
           NEW T \in SUBSET U, NEW x \in U, x \notin T
    PROVE  SumFunctionOnSet(f, T \cup {x}) = f[x] + SumFunctionOnSet(f, T)
  <1> DEFINE Fails(t, a) ==
        a \notin t /\ SumFunctionOnSet(f, t \cup {a}) # f[a] + SumFunctionOnSet(f, t)
  <1> DEFINE Bad == {n \in Nat : \E t \in SUBSET U, a \in U : Cardinality(t) = n /\ Fails(t, a)}
  <1>1. ASSUME Bad # {} PROVE FALSE
    <2>1. PICK n \in Bad : \A m \in Bad : n <= m
      <3>1. Bad \subseteq Nat
        OBVIOUS
      <3> HIDE DEF Bad
      <3> QED
        BY <1>1, <3>1, HasFirst
    <2>2. PICK t \in SUBSET U, a \in U : Cardinality(t) = n /\ Fails(t, a)
      OBVIOUS
    <2>3. PICK w : w = t \cup {a}
      OBVIOUS
    <2>4. w \in SUBSET U /\ w # {} /\ IsFiniteSet(w) /\ IsFiniteSet(t)
      BY <2>2, <2>3, FS_Subset
    <2>5. PICK c : c = Some(w) /\ c \in w
      BY <2>4 DEF Some
    <2>6. SumFunctionOnSet(f, w) = f[c] + SumFunctionOnSet(f, w \ {c})
      BY <2>4, <2>5, SumOfSome
    <2>7. CASE c = a
      <3>1. w \ {c} = t
        BY <2>2, <2>3, <2>7
      <3> QED
        BY <2>2, <2>3, <2>6, <2>7, <3>1
    <2>8. CASE c # a
      <3>1. PICK v : v = t \ {c}
        OBVIOUS
      <3>2. c \in t /\ w \ {c} = v \cup {a} /\ t = v \cup {c} /\ v \in SUBSET U
        BY <2>2, <2>3, <2>5, <2>8, <3>1
      <3>3. Cardinality(v) = n - 1 /\ n - 1 \in Nat /\ n \in Nat
        <4>1. Cardinality(t) # 0
          BY <2>4, <3>2, FS_EmptySet
        <4>2. Cardinality(v) = Cardinality(t) - 1
          BY <2>4, <3>1, <3>2, FS_RemoveElement
        <4>3. n \in Nat
          BY <2>1
        <4> QED
          BY <2>2, <4>1, <4>2, <4>3
      <3>4. \A b \in U : ~Fails(v, b)
        <4>1. n - 1 \notin Bad
          <5> HIDE DEF Bad
          <5>1. ~(n <= n - 1)
            BY <3>3
          <5> QED
            BY <2>1, <5>1
        <4> QED
          BY <3>2, <3>3, <4>1
      <3>5. SumFunctionOnSet(f, v \cup {a}) = f[a] + SumFunctionOnSet(f, v)
        BY <2>2, <3>1, <3>4
      <3>6. SumFunctionOnSet(f, v \cup {c}) = f[c] + SumFunctionOnSet(f, v)
        BY <3>1, <3>2, <3>4
      <3>7. SumFunctionOnSet(f, v) \in Nat /\ f[a] \in Nat /\ f[c] \in Nat
        BY <2>2, <3>2, SumType
      <3>8. SumFunctionOnSet(f, w) = f[a] + SumFunctionOnSet(f, t)
        <4>1. PICK sv, fa, fc : sv = SumFunctionOnSet(f, v) /\ fa = f[a] /\ fc = f[c]
          OBVIOUS
        <4>2. SumFunctionOnSet(f, w) = fc + (fa + sv)
          BY <2>6, <3>2, <3>5, <4>1
        <4>3. SumFunctionOnSet(f, t) = fc + sv
          BY <3>2, <3>6, <4>1
        <4>4. fc + (fa + sv) = fa + (fc + sv)
          BY <3>7, <4>1
        <4> QED
          BY <4>1, <4>2, <4>3, <4>4
      <3> QED
        BY <2>2, <2>3, <3>8
    <2> QED
      BY <2>7, <2>8
  <1>2. Cardinality(T) \in Nat
    BY FS_Subset, FS_CardinalityType
  <1> QED
    BY <1>1, <1>2

\* The sum over the entries of a list is the sum over what is in it.
LEMMA SumAlong ==
    ASSUME NEW f, NEW T, IsFiniteSet(T), \A y \in T : f[y] \in Nat,
           NEW n, n \in Nat, NEW w, w \in Bijection(1 .. n, T),
           NEW e, \A k \in 1 .. n : e[k] = f[w[k]]
    PROVE  SumFunctionOnSet(e, 1 .. n) = SumFunctionOnSet(f, T)
  <1>0. /\ w \in [1 .. n -> T]
        /\ \A i, j \in 1 .. n : w[i] = w[j] => i = j
        /\ \A y \in T : \E k \in 1 .. n : w[k] = y
    BY DEF Bijection, Injection, Surjection, IsInjective
  <1> DEFINE In(m) == {w[k] : k \in 1 .. m}
  <1> DEFINE Bad == {m \in 0 .. n : SumFunctionOnSet(e, 1 .. m) # SumFunctionOnSet(f, In(m))}
  <1>1. ASSUME Bad # {} PROVE FALSE
    <2>1. PICK m \in Bad : \A x \in Bad : m <= x
      <3>1. Bad \subseteq Nat
        OBVIOUS
      <3> HIDE DEF Bad
      <3> QED
        BY <1>1, <3>1, HasFirst
    <2>2. m \in 0 .. n /\ SumFunctionOnSet(e, 1 .. m) # SumFunctionOnSet(f, In(m))
      OBVIOUS
    <2>3. m # 0
      <3>1. 1 .. 0 = {} /\ In(0) = {}
        OBVIOUS
      <3> HIDE DEF In
      <3> QED
        BY <2>2, <3>1, SumOfNone
    <2>4. m - 1 \in 0 .. n /\ m \in 1 .. n /\ m - 1 \in Nat
      BY <2>2, <2>3
    <2>5. SumFunctionOnSet(e, 1 .. m - 1) = SumFunctionOnSet(f, In(m - 1))
      BY <2>1, <2>4
    <2>6. SumFunctionOnSet(e, 1 .. m) = e[m] + SumFunctionOnSet(e, 1 .. m - 1)
      <3>1. IsFiniteSet(1 .. n) /\ \A y \in 1 .. n : e[y] \in Nat
        <4>1. IsFiniteSet(1 .. n)
          BY FS_Interval
        <4> QED
          BY <1>0, <4>1
      <3>2. (1 .. m - 1) \in SUBSET (1 .. n) /\ m \notin 1 .. m - 1
        BY <2>4
      <3>3. 1 .. m = (1 .. m - 1) \cup {m}
        BY <2>4
      <3>4. SumFunctionOnSet(e, (1 .. m - 1) \cup {m}) = e[m] + SumFunctionOnSet(e, 1 .. m - 1)
        <4>1. PICK V, t : V = 1 .. n /\ t = 1 .. m - 1
          OBVIOUS
        <4>2. SumFunctionOnSet(e, t \cup {m}) = e[m] + SumFunctionOnSet(e, t)
          <5>1. /\ IsFiniteSet(V) /\ \A y \in V : e[y] \in Nat
                /\ t \in SUBSET V /\ m \in V /\ m \notin t
            BY <2>4, <3>1, <3>2, <4>1
          <5> QED
            BY ONLY <5>1, SumWithOneMore
        <4> QED
          BY <4>1, <4>2
      <3> QED
        BY <3>3, <3>4
    <2>7. SumFunctionOnSet(f, In(m)) = f[w[m]] + SumFunctionOnSet(f, In(m - 1))
      <3>1. In(m - 1) \in SUBSET T /\ w[m] \in T /\ w[m] \notin In(m - 1)
        BY <1>0, <2>4
      <3>2. In(m) = In(m - 1) \cup {w[m]}
        BY <2>4
      <3> HIDE DEF In
      <3> QED
        BY <3>1, <3>2, SumWithOneMore
    <2>8. e[m] = f[w[m]]
      BY <2>4
    <2> HIDE DEF In
    <2> QED
      BY <2>2, <2>5, <2>6, <2>7, <2>8
  <1>2. n \in 0 .. n
    OBVIOUS
  <1>3. SumFunctionOnSet(e, 1 .. n) = SumFunctionOnSet(f, In(n))
    BY <1>1, <1>2
  <1>4. In(n) = T
    BY <1>0
  <1> QED
    BY <1>3, <1>4
=============================================================================
