--------------------------- MODULE LRUListProofs ----------------------------
(***************************************************************************)
(* What the proofs about LRUCache share: caches whose list is sorted by a  *)
(* rank, and that every private step of the code (new, move_to_front, the  *)
(* removal of pop, the eviction, the overwrite and the insertion of put)   *)
(* builds such caches and keeps the entries it should.                     *)
(***************************************************************************)
EXTENDS LRUCache, TLAPS

Ranks == [Slots -> Int]

\* Wellformed with the list sorted by a rank: the invariant that is inductive.
Good(c, rank) ==
  /\ c \in CacheType
  /\ Wellformed(c)
  /\ rank \in Ranks
  /\ SortedBy(c, rank)

\* r ranks above everything cached.
Above(c, rank, r) ==
  r \in Int /\ \A j \in Slots : c.nodes[j] # None => rank[j] < r

\* new and new_boxed build a well-formed empty cache.
LEMMA NewCacheGood == ASSUME NEW rank \in Ranks PROVE Good(NewCache, rank)
<1>1. NewCache \in CacheType
  BY CapacityAssumption DEF NewCache, CacheType, Slots, Link
<1>2. FreeListExact(NewCache)
  BY CapacityAssumption DEF NewCache, FreeListExact, Slots
<1>3. MapExact(NewCache) /\ ListLinked(NewCache) /\ SortedBy(NewCache, rank)
  BY DEF NewCache, MapExact, ListLinked, SortedBy
<1> QED BY <1>1, <1>2, <1>3 DEF Wellformed, Good

\* The head has the highest rank and the tail the lowest.
LEMMA HeadAndTailRank ==
  ASSUME NEW c, NEW rank, Good(c, rank), NEW j \in Slots, c.nodes[j] # None
  PROVE  /\ c.head \in Slots /\ c.nodes[c.head] # None /\ rank[j] <= rank[c.head]
         /\ c.tail \in Slots /\ c.nodes[c.tail] # None /\ rank[c.tail] <= rank[j]
<1>1. /\ c.head \in Slots /\ c.nodes[c.head] # None
      /\ c.tail \in Slots /\ c.nodes[c.tail] # None
  BY DEF Good, CacheType, Wellformed, ListLinked, Link
<1>2. c.nodes[c.head].prev = None /\ c.nodes[c.tail].next = None
  BY <1>1 DEF Good, Wellformed, ListLinked
<1>3. ~(rank[c.head] < rank[j]) /\ ~(rank[j] < rank[c.tail])
  BY <1>1, <1>2 DEF Good, SortedBy
<1> QED BY <1>1, <1>3 DEF Good, Ranks

NodeArray == [Slots -> Node \cup {None}]

\* Node j of array b is node j of array a with the links given.
Relinked(a, b, j, p, n) ==
  /\ b[j] \in Node
  /\ b[j].key = a[j].key
  /\ b[j].value = a[j].value
  /\ b[j].prev = p
  /\ b[j].next = n

\* Writing one next field changes that field and nothing else.
LEMMA SetNextAt ==
  ASSUME NEW a \in NodeArray, NEW i \in Link, NEW x \in Link,
         i # None => a[i] \in Node
  PROVE  /\ SetNext(a, i, x) \in NodeArray
         /\ \A j \in Slots : j # i => SetNext(a, i, x)[j] = a[j]
         /\ i # None => Relinked(a, SetNext(a, i, x), i, a[i].prev, x)
BY NoneAssumption DEF NodeArray, Node, Link, SetNext, Relinked

\* Writing one prev field changes that field and nothing else.
LEMMA SetPrevAt ==
  ASSUME NEW a \in NodeArray, NEW i \in Link, NEW x \in Link,
         i # None => a[i] \in Node
  PROVE  /\ SetPrev(a, i, x) \in NodeArray
         /\ \A j \in Slots : j # i => SetPrev(a, i, x)[j] = a[j]
         /\ i # None => Relinked(a, SetPrev(a, i, x), i, x, a[i].next)
BY NoneAssumption DEF NodeArray, Node, Link, SetPrev, Relinked

\* d is c with slot i ranked r; no entry appears, disappears or changes slot.
Moved(c, d, i, rank, r) ==
  /\ Good(d, [rank EXCEPT ![i] = r])
  /\ d.map = c.map
  /\ \A j \in Slots :
       /\ d.nodes[j] = None <=> c.nodes[j] = None
       /\ c.nodes[j] # None =>
            d.nodes[j].key = c.nodes[j].key /\ d.nodes[j].value = c.nodes[j].value

\* move_to_front of an occupied slot keeps the cache well formed; the slot
\* gets the highest rank.
LEMMA MoveToFrontGood ==
  ASSUME NEW c, NEW rank, Good(c, rank), NEW i \in Slots, c.nodes[i] # None,
         NEW r, Above(c, rank, r)
  PROVE  Moved(c, MoveToFront(c, i), i, rank, r)
<1> DEFINE d == MoveToFront(c, i)
           s == [rank EXCEPT ![i] = r]
<1>0. /\ c.nodes \in [Slots -> Node \cup {None}] /\ c.map \in [Keys -> Link]
      /\ c.head \in Link /\ c.tail \in Link /\ c.free_list \in Seq(Slots)
      /\ c = [nodes |-> c.nodes, map |-> c.map, free_list |-> c.free_list, head |-> c.head, tail |-> c.tail]
  BY DEF Good, CacheType
<1>1. CASE c.head = i
  <2>1. d = c
    BY <1>1 DEF MoveToFront
  <2>2. SortedBy(c, s)
    <3> SUFFICES ASSUME NEW j \in Slots, NEW k \in Slots, c.nodes[j] # None, c.nodes[k] # None
                 PROVE  /\ j # k => s[j] # s[k]
                        /\ c.nodes[j].next = k => s[k] < s[j]
                        /\ s[k] < s[j] => c.nodes[j].next # None /\ s[k] <= s[c.nodes[j].next]
                        /\ s[j] < s[k] => c.nodes[j].prev # None /\ s[c.nodes[j].prev] <= s[k]
      BY DEF SortedBy
    <3>1. /\ rank \in [Slots -> Int] /\ r \in Int /\ rank[j] < r /\ rank[k] < r
          /\ c.nodes[j].next # None => c.nodes[j].next \in Slots /\ c.nodes[j].next # i
                                      /\ rank[c.nodes[j].next] < r
          /\ c.nodes[j].prev # None => c.nodes[j].prev \in Slots
                                      /\ rank[c.nodes[j].prev] < r
      BY <1>0, <1>1, NoneAssumption DEF Good, Above, Ranks, Wellformed, ListLinked, Node, Link
    <3>2. rank[j] <= rank[i] /\ rank[k] <= rank[i]
      BY <1>1, HeadAndTailRank
    <3>3. c.nodes[i].prev = None
      BY <1>1 DEF Good, Wellformed, ListLinked
    <3> QED BY <1>1, <3>1, <3>2, <3>3 DEF Good, SortedBy
  <2> QED BY <2>1, <2>2 DEF Good, Ranks, Above, Moved
<1>2. CASE c.head # i
  <2> DEFINE p == c.nodes[i].prev
             n == c.nodes[i].next
  <2>1. /\ c.head \in Slots /\ c.tail \in Slots
        /\ c.nodes[i] \in Node /\ p \in Slots /\ n \in Link
        /\ c.nodes[p] \in Node /\ c.nodes[c.head] \in Node
        /\ n # None => n \in Slots /\ c.nodes[n] \in Node
    BY <1>0, <1>2, NoneAssumption DEF Good, CacheType, Wellformed, ListLinked, Link, Node
  <2>e. c.nodes[i].prev = p /\ c.nodes[i].next = n /\ p # None
    BY <2>1, NoneAssumption
  <2> HIDE DEF p, n
  <2>2. p # i /\ n # i /\ n # p /\ n # c.head
    BY <2>1, <2>e, <1>2, NoneAssumption DEF Good, SortedBy, Ranks, Wellformed, ListLinked
  <2>f. /\ c.nodes[p].next = i
        /\ n # None => c.nodes[n].prev = i
        /\ c.nodes[c.head].prev = None
        /\ \A j \in Slots : c.nodes[j] # None =>
             /\ c.nodes[j].next = i => j = p
             /\ c.nodes[j].prev = i => j = n
             /\ c.nodes[j].prev = None <=> j = c.head
    BY Zenon, <2>1, <2>e, NoneAssumption DEF Good, Wellformed, ListLinked
  <2> DEFINE n1 == SetNext(c.nodes, p, n)
             n2 == SetPrev(n1, n, p)
             n3 == [n2 EXCEPT ![i] = [@ EXCEPT !.prev = None, !.next = c.head]]
             n4 == SetPrev(n3, c.head, i)
  <2>a. /\ n1 \in NodeArray
        /\ \A j \in Slots : j # p => n1[j] = c.nodes[j]
        /\ Relinked(c.nodes, n1, p, c.nodes[p].prev, n)
    <3>1. c.nodes \in NodeArray /\ p \in Link /\ n \in Link /\ p # None
      BY <1>0, <2>1, NoneAssumption DEF NodeArray, Link
    <3> QED BY <2>1, <3>1, SetNextAt
  <2>b. /\ n2 \in NodeArray
        /\ \A j \in Slots : j # n => n2[j] = n1[j]
        /\ n # None => Relinked(n1, n2, n, p, n1[n].next)
    <3>1. n # None => n1[n] \in Node
      BY <2>a, <2>1, <2>2
    <3>2. p \in Link
      BY <2>1 DEF Link
    <3> HIDE DEF n1
    <3> QED BY <2>a, <3>1, <3>2, <2>1, SetPrevAt
  <2>c. /\ n3 \in NodeArray
        /\ \A j \in Slots : j # i => n3[j] = n2[j]
        /\ Relinked(c.nodes, n3, i, None, c.head)
    <3>1. n2[i] = c.nodes[i]
      BY <2>a, <2>b, <2>2
    <3> HIDE DEF n2
    <3> QED BY <1>0, <2>b, <3>1, <2>1, NoneAssumption, ZenonT(40) DEF Link, NodeArray, Relinked, Node
  <2>d. /\ n4 \in NodeArray
        /\ \A j \in Slots : j # c.head => n4[j] = n3[j]
        /\ Relinked(n3, n4, c.head, i, n3[c.head].next)
    <3>1. n3[c.head] \in Node
      BY <2>a, <2>b, <2>c, <2>1, <2>2, <1>2, ZenonT(40) DEF Relinked
    <3>2. c.head \in Link /\ i \in Link /\ c.head # None
      BY <2>1, NoneAssumption DEF Link
    <3> HIDE DEF n3
    <3> QED BY <2>c, <3>1, <3>2, SetPrevAt
  <2>3. /\ d \in CacheType
        /\ d.map = c.map /\ d.free_list = c.free_list /\ d.head = i
        /\ d.tail = IF n = None THEN p ELSE c.tail
        /\ d.nodes = n4
    <3>1. d = [nodes |-> n4, map |-> c.map, free_list |-> c.free_list, head |-> i,
               tail |-> IF n = None THEN p ELSE c.tail]
      BY <1>2 DEF MoveToFront, p, n
    <3> HIDE DEF d, n4
    <3> QED BY <3>1, <1>0, <2>1, <2>d DEF CacheType, NodeArray, Link
  <2>4. \A j \in Slots :
           /\ c.nodes[j] = None => d.nodes[j] = None
           /\ c.nodes[j] # None =>
                /\ d.nodes[j] \in Node
                /\ d.nodes[j].key = c.nodes[j].key
                /\ d.nodes[j].value = c.nodes[j].value
                /\ d.nodes[j].next = IF j = i THEN c.head ELSE IF j = p THEN n ELSE c.nodes[j].next
                /\ d.nodes[j].prev = IF j = i THEN None ELSE IF j = n THEN p
                                     ELSE IF j = c.head THEN i ELSE c.nodes[j].prev
    <3> HIDE DEF n1, n2, n3, n4
    <3> QED BY <1>0, <1>2, <2>1, <2>2, <2>3, <2>a, <2>b, <2>c, <2>d, NoneAssumption DEF Relinked, NodeArray
  <2> HIDE DEF d, n1, n2, n3, n4
  <2>5. FreeListExact(d)
    BY <2>3, <2>4, NoneAssumption DEF FreeListExact, Good, Wellformed, Relinked
  <2>6. MapExact(d)
    BY <1>0, <2>3, <2>4, NoneAssumption DEF MapExact, Good, Wellformed, Link, Relinked
  <2>7. ListLinked(d)
    <3>1. d.head # None /\ d.tail # None /\ d.nodes[d.head] # None /\ d.nodes[d.tail] # None
      BY <1>0, <1>2, <2>1, <2>2, <2>3, <2>4, NoneAssumption DEF ListLinked, Good, Wellformed, Relinked
    <3>2. ASSUME NEW j \in Slots, d.nodes[j] # None
          PROVE  /\ d.nodes[j].prev = None <=> d.head = j
                 /\ d.nodes[j].prev # None =>
                      d.nodes[d.nodes[j].prev] # None /\ d.nodes[d.nodes[j].prev].next = j
      BY <1>0, <1>2, <2>1, <2>2, <2>3, <2>4, <2>e, <2>f, <3>2, NoneAssumption DEF ListLinked, Good, Wellformed, Link, Relinked, NodeArray, Node
    <3>3. ASSUME NEW j \in Slots, d.nodes[j] # None
          PROVE  /\ d.nodes[j].next = None <=> d.tail = j
                 /\ d.nodes[j].next # None =>
                      d.nodes[d.nodes[j].next] # None /\ d.nodes[d.nodes[j].next].prev = j
      BY <1>0, <1>2, <2>1, <2>2, <2>3, <2>4, <2>e, <2>f, <3>3, NoneAssumption DEF ListLinked, Good, Wellformed, Link, Relinked, NodeArray, Node
    <3> QED BY Zenon, <3>1, <3>2, <3>3 DEF ListLinked
  <2>8. SortedBy(d, s)
    <3> SUFFICES ASSUME NEW j \in Slots, NEW k \in Slots, d.nodes[j] # None, d.nodes[k] # None
                 PROVE  /\ j # k => s[j] # s[k]
                        /\ d.nodes[j].next = k => s[k] < s[j]
                        /\ s[k] < s[j] => d.nodes[j].next # None /\ s[k] <= s[d.nodes[j].next]
                        /\ s[j] < s[k] => d.nodes[j].prev # None /\ s[d.nodes[j].prev] <= s[k]
      BY DEF SortedBy
    <3>1. /\ c.nodes[j] # None /\ c.nodes[k] # None
          /\ rank \in [Slots -> Int] /\ r \in Int
          /\ s[j] = IF j = i THEN r ELSE rank[j]
          /\ s[k] = IF k = i THEN r ELSE rank[k]
          /\ rank[j] < r /\ rank[k] < r
      BY <2>4 DEF Good, Above, Ranks
    <3>2. d.nodes[j].next # None => s[d.nodes[j].next] = IF d.nodes[j].next = i THEN r ELSE rank[d.nodes[j].next]
      BY Zenon, <3>1, <2>3, <2>1, <2>4 DEF CacheType, Node, Link
    <3>3. d.nodes[j].prev # None => s[d.nodes[j].prev] = IF d.nodes[j].prev = i THEN r ELSE rank[d.nodes[j].prev]
      BY Zenon, <3>1, <2>3, <2>1, <2>4 DEF CacheType, Node, Link
    <3>4. \A m \in Slots : c.nodes[m] # None => rank[m] < r
      BY DEF Above
    <3> HIDE DEF s
    <3>5. j # k => s[j] # s[k]
      BY <3>1 DEF Good, SortedBy
    <3>6. d.nodes[j].next = k => s[k] < s[j]
      BY <1>0, <1>2, <2>1, <2>2, <2>4, <2>e, <2>f, <3>1, NoneAssumption DEF Good, SortedBy, Relinked, Wellformed, ListLinked
    <3>7. ASSUME s[k] < s[j]
          PROVE  d.nodes[j].next # None /\ s[k] <= s[d.nodes[j].next]
      <4>0. k # i /\ s[k] = rank[k]
        BY <3>1, <3>7
      <4>1. CASE j = i
        <5>1. d.nodes[j].next = c.head
          BY <2>4, <3>1, <4>1
        <5>2. rank[k] <= rank[c.head]
          BY <3>1, HeadAndTailRank
        <5> QED BY <4>0, <5>1, <5>2, <3>2, <2>1, <1>2, NoneAssumption
      <4>2. CASE j = p
        <5>1. c.nodes[j].next = i /\ rank[k] < rank[j] /\ d.nodes[j].next = n
          <6>1. c.nodes[j].next = i /\ d.nodes[j].next = n
            BY Zenon, <2>2, <2>4, <2>f, <3>1, <4>2
          <6>2. rank[k] < rank[j]
            BY <2>2, <3>1, <3>7, <4>0, <4>2
          <6> QED BY <6>1, <6>2
        <5>2. rank[k] < rank[i]
          BY <5>1, <4>0, <3>1 DEF Good, SortedBy
        <5>3. n # None /\ rank[k] <= rank[n]
          BY <2>e, <5>2, <3>1 DEF Good, SortedBy
        <5> QED BY <5>1, <5>3, <4>0, <3>2, <2>2
      <4>3. CASE j # i /\ j # p
        <5>1. d.nodes[j].next = c.nodes[j].next /\ rank[k] < rank[j]
          BY <2>4, <3>1, <3>7, <4>0, <4>3
        <5>2. c.nodes[j].next # None /\ rank[k] <= rank[c.nodes[j].next]
          BY Zenon, <5>1, <3>1 DEF Good, SortedBy
        <5>3. c.nodes[j].next # i
          BY <2>f, <3>1, <4>3
        <5> QED BY <5>1, <5>2, <5>3, <4>0, <3>2
      <4> QED BY <4>1, <4>2, <4>3
    <3>8. ASSUME s[j] < s[k]
          PROVE  d.nodes[j].prev # None /\ s[d.nodes[j].prev] <= s[k]
      <4>0. j # i /\ s[j] = rank[j]
        BY <3>1, <3>8
      <4>1. CASE j = n
        <5>1. d.nodes[j].prev = p /\ c.nodes[j].prev = i
          BY Zenon, <2>1, <2>4, <2>f, <3>1, <4>0, <4>1, NoneAssumption
        <5>2. rank[p] <= s[k]
          <6>1. CASE k = i
            BY <6>1, <3>1, <3>4, <2>1, NoneAssumption DEF Ranks
          <6>2. CASE k # i
            <7>1. rank[i] <= rank[k]
              BY <5>1, <6>2, <3>1, <3>8, <4>0 DEF Good, SortedBy
            <7>2. rank[i] < rank[k]
              BY <7>1, <6>2, <3>1 DEF Good, SortedBy
            <7> QED BY <2>e, <7>2, <6>2, <3>1 DEF Good, SortedBy
          <6> QED BY <6>1, <6>2
        <5> QED BY <5>1, <5>2, <3>3, <2>1, <2>2, NoneAssumption
      <4>2. CASE j = c.head
        <5>1. d.nodes[j].prev = i
          BY Zenon, <2>1, <2>2, <2>4, <3>1, <4>0, <4>2
        <5>2. k = i
          BY <4>2, <4>0, <3>1, <3>8, HeadAndTailRank
        <5> QED BY <5>1, <5>2, <3>1, <3>3, NoneAssumption
      <4>3. CASE j # n /\ j # c.head
        <5>1. d.nodes[j].prev = c.nodes[j].prev /\ c.nodes[j].prev # None /\ c.nodes[j].prev # i
          BY Zenon, <2>4, <2>f, <3>1, <4>0, <4>3
        <5>2. CASE k = i
          BY <5>1, <5>2, <3>1, <3>3, <3>4, <1>0 DEF Good, Wellformed, ListLinked, Node, Link
        <5>3. CASE k # i
          BY Zenon, <5>1, <5>3, <3>1, <3>3, <3>8, <4>0 DEF Good, SortedBy
        <5> QED BY <5>2, <5>3
      <4> QED BY <4>1, <4>2, <4>3
    <3> QED BY Zenon, <3>5, <3>6, <3>7, <3>8
  <2> QED
    BY <2>3, <2>4, <2>5, <2>6, <2>7, <2>8, NoneAssumption DEF Good, Wellformed, Above, Ranks, d, Relinked, Moved
<1> QED BY <1>1, <1>2

-----------------------------------------------------------------------------
(* remove and the eviction                                                 *)


\* d is c without key k; the entries d keeps have their slot and key in c.
Removed(c, d, k, rank) ==
  /\ Good(d, rank)
  /\ d.map = [c.map EXCEPT ![k] = None]
  /\ d.free_list # <<>>
  /\ \A j \in Slots : d.nodes[j] # None =>
       /\ c.nodes[j] # None /\ c.nodes[j].key # k
       /\ d.nodes[j].key = c.nodes[j].key /\ d.nodes[j].value = c.nodes[j].value
  /\ \A j \in Slots : c.nodes[j] # None /\ j # c.map[k] => d.nodes[j] # None

\* pop of a cached key keeps the cache well formed; nothing else moves.
LEMMA RemoveGood ==
  ASSUME NEW c, NEW rank, Good(c, rank), NEW k \in Keys, c.map[k] # None
  PROVE  Removed(c, Remove(c, k), k, rank)
<1> DEFINE d == Remove(c, k)
           i == c.map[k]
           p == c.nodes[i].prev
           n == c.nodes[i].next
<1>0. /\ c.nodes \in NodeArray /\ c.map \in [Keys -> Link]
      /\ c.head \in Link /\ c.tail \in Link /\ c.free_list \in Seq(Slots)
      /\ rank \in [Slots -> Int]
  BY DEF Good, CacheType, NodeArray, Ranks
<1>1. /\ i \in Slots /\ c.nodes[i] \in Node /\ c.nodes[i] # None
      /\ c.nodes[i].key = k /\ c.nodes[i].prev = p /\ c.nodes[i].next = n
      /\ p \in Link /\ n \in Link
      /\ p # None => p \in Slots /\ c.nodes[p] \in Node
      /\ n # None => n \in Slots /\ c.nodes[n] \in Node
  <2>1. i \in Slots /\ c.nodes[i] \in Node /\ c.nodes[i].key = k
    BY <1>0 DEF Good, Wellformed, MapExact, NodeArray, Link
  <2> HIDE DEF i
  <2>2. p \in Link /\ n \in Link
    BY <2>1 DEF Node
  <2>3. c.nodes[i] # None /\ ListLinked(c)
    BY Zenon DEF Good, Wellformed, MapExact, i
  <2>4. p # None => p \in Slots /\ c.nodes[p] # None
    BY Zenon, <2>1, <2>2, <2>3 DEF ListLinked, Link
  <2>5. n # None => n \in Slots /\ c.nodes[n] # None
    BY Zenon, <2>1, <2>2, <2>3 DEF ListLinked, Link
  <2> QED BY Zenon, <1>0, <2>1, <2>2, <2>3, <2>4, <2>5 DEF NodeArray
<1> HIDE DEF i, p, n
<1>2. p # i /\ n # i /\ (n # None => n # p)
  <2>1. n # None => rank[n] < rank[i]
    BY <1>1, NoneAssumption DEF Good, SortedBy
  <2>2. p # None => c.nodes[p].next = i
    BY Zenon, <1>1, NoneAssumption DEF Good, Wellformed, ListLinked
  <2>3. p # None => rank[i] < rank[p]
    BY <1>1, <2>2, NoneAssumption DEF Good, SortedBy
  <2> QED BY <1>0, <1>1, <2>1, <2>3, NoneAssumption
<1> DEFINE n1 == [c.nodes EXCEPT ![i] = None]
           n2 == SetNext(n1, p, n)
           n3 == SetPrev(n2, n, p)
<1>3. /\ n1 \in NodeArray /\ n1[i] = None
      /\ \A j \in Slots : j # i => n1[j] = c.nodes[j]
  BY <1>0, <1>1 DEF NodeArray
<1>4. /\ n2 \in NodeArray
      /\ \A j \in Slots : j # p => n2[j] = n1[j]
      /\ p # None => Relinked(n1, n2, p, n1[p].prev, n)
  <2>1. p # None => n1[p] \in Node
    BY <1>1, <1>2, <1>3
  <2> HIDE DEF n1
  <2> QED BY <2>1, <1>1, <1>3, SetNextAt
<1>5. /\ n3 \in NodeArray
      /\ \A j \in Slots : j # n => n3[j] = n2[j]
      /\ n # None => Relinked(n2, n3, n, p, n2[n].next)
  <2>1. n # None => n2[n] \in Node
    BY <1>1, <1>2, <1>3, <1>4
  <2> HIDE DEF n2
  <2> QED BY <2>1, <1>1, <1>4, SetPrevAt
<1>6. /\ d.map = [c.map EXCEPT ![k] = None] /\ d.free_list = Append(c.free_list, i)
      /\ d.head = IF p = None THEN n ELSE c.head
      /\ d.tail = IF n = None THEN p ELSE c.tail
      /\ d.nodes = n3
      /\ d \in CacheType
  <2>1. d = [nodes |-> n3, map |-> [c.map EXCEPT ![k] = None],
             free_list |-> Append(c.free_list, i),
             head |-> IF p = None THEN n ELSE c.head,
             tail |-> IF n = None THEN p ELSE c.tail]
    BY Zenon DEF Remove, i, p, n
  <2>2. /\ [c.map EXCEPT ![k] = None] \in [Keys -> Link]
        /\ Append(c.free_list, i) \in Seq(Slots)
        /\ (IF p = None THEN n ELSE c.head) \in Link
        /\ (IF n = None THEN p ELSE c.tail) \in Link
    BY <1>0, <1>1 DEF Link
  <2> HIDE DEF d, n3
  <2> QED BY Zenon, <2>1, <2>2, <1>5 DEF CacheType, NodeArray
<1>7. \A j \in Slots :
        /\ c.nodes[j] = None \/ j = i => d.nodes[j] = None
        /\ c.nodes[j] # None /\ j # i =>
             /\ d.nodes[j] \in Node
             /\ d.nodes[j].key = c.nodes[j].key
             /\ d.nodes[j].value = c.nodes[j].value
             /\ d.nodes[j].next = IF j = p THEN n ELSE c.nodes[j].next
             /\ d.nodes[j].prev = IF j = n THEN p ELSE c.nodes[j].prev
  <2> HIDE DEF d, n1, n2, n3
  <2> QED BY <1>0, <1>1, <1>2, <1>3, <1>4, <1>5, <1>6, NoneAssumption DEF Relinked, NodeArray
<1> HIDE DEF d, n1, n2, n3
<1>8. FreeListExact(d)
  <2> DEFINE F == c.free_list
             L == Len(F)
  <2>1. /\ L \in Nat /\ Len(d.free_list) = L + 1
        /\ \A m \in 1..L : d.free_list[m] = F[m]
        /\ d.free_list[L + 1] = i
    BY <1>0, <1>1, <1>6
  <2>2. /\ \A m, o \in 1..L : F[m] = F[o] => m = o
        /\ \A j \in Slots : c.nodes[j] = None <=> \E m \in 1..L : F[m] = j
    BY DEF Good, Wellformed, FreeListExact
  <2>3. \A m \in 1..L : F[m] # i
    BY <2>2, <1>1, NoneAssumption
  <2>4. \A j \in Slots : d.nodes[j] = None <=> c.nodes[j] = None \/ j = i
    BY <1>7, NoneAssumption
  <2> HIDE DEF L, F
  <2>5. ASSUME NEW m \in 1..L + 1, NEW o \in 1..L + 1, d.free_list[m] = d.free_list[o]
        PROVE  m = o
    BY <2>1, <2>2, <2>3, <2>5
  <2>6. ASSUME NEW j \in Slots
        PROVE  d.nodes[j] = None <=> \E m \in 1..L + 1 : d.free_list[m] = j
    <3>1. CASE j = i
      BY <2>1, <2>4, <3>1
    <3>2. CASE j # i
      <4>1. (\E m \in 1..L + 1 : d.free_list[m] = j) <=> (\E m \in 1..L : F[m] = j)
        <5>1. ASSUME NEW m \in 1..L + 1, d.free_list[m] = j
              PROVE  m \in 1..L /\ F[m] = j
          BY <2>1, <3>2, <5>1
        <5>2. ASSUME NEW m \in 1..L, F[m] = j
              PROVE  m \in 1..L + 1 /\ d.free_list[m] = j
          BY <2>1, <5>2
        <5> QED BY <5>1, <5>2
      <4> QED BY <4>1, <2>2, <2>4, <3>2
    <3> QED BY <3>1, <3>2
  <2> QED BY <2>1, <2>5, <2>6 DEF FreeListExact
<1>9. MapExact(d)
  <2>1. ASSUME NEW x \in Keys, d.map[x] # None
        PROVE  d.nodes[d.map[x]] # None /\ d.nodes[d.map[x]].key = x
    <3>1. x # k /\ d.map[x] = c.map[x] /\ c.map[x] \in Slots
      BY <1>0, <1>6, <2>1 DEF Link
    <3>2. c.nodes[c.map[x]] # None /\ c.nodes[c.map[x]].key = x
      BY Zenon, <3>1, <2>1 DEF Good, Wellformed, MapExact
    <3> QED BY <3>1, <3>2, <1>1, <1>7, NoneAssumption
  <2>2. ASSUME NEW j \in Slots, d.nodes[j] # None
        PROVE  d.map[d.nodes[j].key] = j
    <3>1. j # i /\ c.nodes[j] # None /\ d.nodes[j].key = c.nodes[j].key
      BY <1>7, <2>2
    <3>2. c.map[c.nodes[j].key] = j /\ c.nodes[j].key # k /\ c.nodes[j].key \in Keys
      BY <3>1, <1>0 DEF Good, Wellformed, MapExact, i, NodeArray, Node
    <3> QED BY <3>1, <3>2, <1>0, <1>6
  <2> QED BY Zenon, <2>1, <2>2 DEF MapExact
<1>10. ListLinked(d)
  <2> USE NoneAssumption DEF Good, Wellformed
  <2>1. d.head # None => d.head \in Slots /\ d.nodes[d.head] # None
    BY <1>0, <1>1, <1>2, <1>6, <1>7 DEF ListLinked, Link
  <2>2. d.tail # None => d.tail \in Slots /\ d.nodes[d.tail] # None
    BY <1>0, <1>1, <1>2, <1>6, <1>7 DEF ListLinked, Link
  <2>3. ASSUME NEW j \in Slots, d.nodes[j] # None
        PROVE  /\ c.nodes[j] # None /\ j # i
               /\ j = p <=> c.nodes[j].next = i
               /\ j = n <=> c.nodes[j].prev = i
               /\ c.nodes[j].next \in Link /\ c.nodes[j].prev \in Link
               /\ d.nodes[j].next = IF j = p THEN n ELSE c.nodes[j].next
               /\ d.nodes[j].prev = IF j = n THEN p ELSE c.nodes[j].prev
    <3>1. /\ c.nodes[j] # None /\ j # i
          /\ d.nodes[j].next = IF j = p THEN n ELSE c.nodes[j].next
          /\ d.nodes[j].prev = IF j = n THEN p ELSE c.nodes[j].prev
      BY Zenon, <1>7, <2>3
    <3>2. c.nodes[j].next \in Link /\ c.nodes[j].prev \in Link
      BY Zenon, <1>0, <3>1 DEF NodeArray, Node
    <3>a. ListLinked(c)
      BY Zenon
    <3> HIDE DEF Good, Wellformed
    <3>3. j = p <=> c.nodes[j].next = i
      <4>1. j = p => c.nodes[j].next = i
        BY Zenon, <1>1, <3>1, <3>a DEF ListLinked
      <4>2. c.nodes[j].next = i => j = p
        BY Zenon, <1>1, <3>1, <3>a DEF ListLinked
      <4> QED BY Zenon, <4>1, <4>2
    <3>4. j = n <=> c.nodes[j].prev = i
      <4>1. j = n => c.nodes[j].prev = i
        BY Zenon, <1>1, <3>1, <3>a DEF ListLinked
      <4>2. c.nodes[j].prev = i => j = n
        BY Zenon, <1>1, <3>1, <3>a DEF ListLinked
      <4> QED BY Zenon, <4>1, <4>2
    <3> QED BY Zenon, <3>1, <3>2, <3>3, <3>4
  <2>4. ASSUME NEW j \in Slots, d.nodes[j] # None
        PROVE  d.nodes[j].prev = None <=> d.head = j
    BY <1>1, <1>2, <1>6, <2>3, <2>4 DEF ListLinked
  <2>5. ASSUME NEW j \in Slots, d.nodes[j] # None
        PROVE  d.nodes[j].next = None <=> d.tail = j
    BY <1>1, <1>2, <1>6, <2>3, <2>5 DEF ListLinked
  <2>6. ASSUME NEW j \in Slots, d.nodes[j] # None, d.nodes[j].prev # None
        PROVE  d.nodes[d.nodes[j].prev] # None /\ d.nodes[d.nodes[j].prev].next = j
    <3>1. /\ c.nodes[j] # None /\ j # i
          /\ d.nodes[j].prev = IF j = n THEN p ELSE c.nodes[j].prev
          /\ (c.nodes[j].prev = i => j = n) /\ c.nodes[j].prev \in Link
      BY Zenon, <2>3, <2>6
    <3>2. CASE j = n
      <4>1. d.nodes[j].prev = p /\ p \in Slots /\ p # i /\ c.nodes[p] # None
        BY Zenon, <1>1, <1>2, <2>6, <3>1, <3>2
      <4>2. c.nodes[p].next = i
        BY Zenon, <1>1, <2>6, <3>1, <3>2, <4>1 DEF ListLinked
      <4>3. d.nodes[p] # None /\ d.nodes[p].next = n
        BY Zenon, <1>7, <4>1
      <4> QED BY Zenon, <3>2, <4>1, <4>3
    <3>3. CASE j # n
      <4> DEFINE q == c.nodes[j].prev
      <4>1. d.nodes[j].prev = q /\ q # None /\ q \in Slots /\ q # i
        BY Zenon, <2>6, <3>1, <3>3 DEF Link
      <4>2. c.nodes[q] # None /\ c.nodes[q].next = j
        BY Zenon, <3>1, <4>1 DEF ListLinked
      <4>3. p # None => c.nodes[p].next = i
        BY Zenon, <1>1 DEF ListLinked
      <4> HIDE DEF q
      <4>4. q # p
        BY Zenon, <3>1, <4>1, <4>2, <4>3
      <4>5. d.nodes[q] # None /\ d.nodes[q].next = j
        BY Zenon, <1>7, <4>1, <4>2, <4>4
      <4> QED BY Zenon, <4>1, <4>5
    <3> QED BY Zenon, <3>2, <3>3
  <2>7. ASSUME NEW j \in Slots, d.nodes[j] # None, d.nodes[j].next # None
        PROVE  d.nodes[d.nodes[j].next] # None /\ d.nodes[d.nodes[j].next].prev = j
    <3>1. /\ c.nodes[j] # None /\ j # i
          /\ d.nodes[j].next = IF j = p THEN n ELSE c.nodes[j].next
          /\ (c.nodes[j].next = i => j = p) /\ c.nodes[j].next \in Link
      BY Zenon, <2>3, <2>7
    <3>2. CASE j = p
      <4>1. d.nodes[j].next = n /\ n \in Slots /\ n # i /\ c.nodes[n] # None
        BY Zenon, <1>1, <1>2, <2>7, <3>1, <3>2
      <4>2. c.nodes[n].prev = i
        BY Zenon, <1>1, <2>7, <3>1, <3>2, <4>1 DEF ListLinked
      <4>3. d.nodes[n] # None /\ d.nodes[n].prev = p
        BY Zenon, <1>7, <4>1
      <4> QED BY Zenon, <3>2, <4>1, <4>3
    <3>3. CASE j # p
      <4> DEFINE q == c.nodes[j].next
      <4>1. d.nodes[j].next = q /\ q # None /\ q \in Slots /\ q # i
        BY Zenon, <2>7, <3>1, <3>3 DEF Link
      <4>2. c.nodes[q] # None /\ c.nodes[q].prev = j
        BY Zenon, <3>1, <4>1 DEF ListLinked
      <4>3. n # None => c.nodes[n].prev = i
        BY Zenon, <1>1 DEF ListLinked
      <4> HIDE DEF q
      <4>4. q # n
        BY Zenon, <3>1, <4>1, <4>2, <4>3
      <4>5. d.nodes[q] # None /\ d.nodes[q].prev = j
        BY Zenon, <1>7, <4>1, <4>2, <4>4
      <4> QED BY Zenon, <4>1, <4>5
    <3> QED BY Zenon, <3>2, <3>3
  <2>8. ASSUME NEW j \in Slots, d.nodes[j] # None
        PROVE  d.head # None /\ d.tail # None
    <3>1. ~(p = None /\ n = None)
      <4> SUFFICES ASSUME c.head = i, c.tail = i PROVE FALSE
        BY Zenon, <1>1 DEF ListLinked
      <4>1. rank[j] = rank[i]
        BY <1>0, <1>1, <2>3, <2>8, HeadAndTailRank
      <4> QED BY <1>1, <2>3, <2>8, <4>1 DEF SortedBy
    <3> QED BY Zenon, <1>1, <1>6, <2>3, <2>8, <3>1 DEF ListLinked
  <2> QED BY Zenon, <2>1, <2>2, <2>4, <2>5, <2>6, <2>7, <2>8 DEF ListLinked
<1>11. SortedBy(d, rank)
  <2> SUFFICES ASSUME NEW j \in Slots, NEW m \in Slots, d.nodes[j] # None, d.nodes[m] # None
               PROVE  /\ j # m => rank[j] # rank[m]
                      /\ d.nodes[j].next = m => rank[m] < rank[j]
                      /\ rank[m] < rank[j] => d.nodes[j].next # None /\ rank[m] <= rank[d.nodes[j].next]
                      /\ rank[j] < rank[m] => d.nodes[j].prev # None /\ rank[d.nodes[j].prev] <= rank[m]
    BY Zenon DEF SortedBy
  <2>1. /\ c.nodes[j] # None /\ c.nodes[m] # None /\ j # i /\ m # i
        /\ rank[m] # rank[i] /\ rank[j] # rank[i]
    BY <1>1, <1>7, NoneAssumption DEF Good, SortedBy
  <2>2. j # m => rank[j] # rank[m]
    BY Zenon, <2>1 DEF Good, SortedBy
  <2>3. /\ rank[m] < rank[j] => c.nodes[j].next # None /\ rank[m] <= rank[c.nodes[j].next]
        /\ rank[m] < rank[i] => n # None /\ rank[m] <= rank[n]
        /\ rank[j] < rank[m] => c.nodes[j].prev # None /\ rank[c.nodes[j].prev] <= rank[m]
        /\ rank[i] < rank[m] => p # None /\ rank[p] <= rank[m]
    BY Zenon, <2>1, <1>1, NoneAssumption DEF Good, SortedBy
  <2>4. /\ j = p => c.nodes[j].next = i
        /\ j # p => c.nodes[j].next # i
        /\ j = n => c.nodes[j].prev = i
        /\ j # n => c.nodes[j].prev # i
    BY <2>1, <1>1, NoneAssumption DEF Good, Wellformed, ListLinked
  <2>5. /\ d.nodes[j].next = IF j = p THEN n ELSE c.nodes[j].next
        /\ d.nodes[j].prev = IF j = n THEN p ELSE c.nodes[j].prev
    BY Zenon, <2>1, <1>7
  <2>6. d.nodes[j].next = m => rank[m] < rank[j]
    BY <1>0, <1>1, <2>1, <2>4, <2>5, NoneAssumption DEF Good, SortedBy
  <2>7. rank[m] < rank[j] => d.nodes[j].next # None /\ rank[m] <= rank[d.nodes[j].next]
    BY <1>0, <1>1, <2>1, <2>3, <2>4, <2>5
  <2>8. rank[j] < rank[m] => d.nodes[j].prev # None /\ rank[d.nodes[j].prev] <= rank[m]
    BY <1>0, <1>1, <2>1, <2>3, <2>4, <2>5
  <2> QED BY Zenon, <2>2, <2>6, <2>7, <2>8
<1>12. d.free_list # <<>>
  <2>1. Len(d.free_list) = Len(c.free_list) + 1 /\ Len(c.free_list) \in Nat
    BY <1>0, <1>1, <1>6
  <2> QED BY <2>1
<1>13. ASSUME NEW j \in Slots, d.nodes[j] # None
       PROVE  /\ c.nodes[j] # None /\ c.nodes[j].key # k
              /\ d.nodes[j].key = c.nodes[j].key /\ d.nodes[j].value = c.nodes[j].value
  <2>1. /\ c.nodes[j] # None /\ j # i
        /\ d.nodes[j].key = c.nodes[j].key /\ d.nodes[j].value = c.nodes[j].value
    BY Zenon, <1>7, <1>13
  <2>2. c.map[c.nodes[j].key] = j
    BY Zenon, <2>1 DEF Good, Wellformed, MapExact
  <2> QED BY Zenon, <2>1, <2>2 DEF i
<1>14. \A j \in Slots : c.nodes[j] # None /\ j # c.map[k] => d.nodes[j] # None
  BY <1>7, NoneAssumption DEF i
<1> QED BY Zenon, <1>0, <1>6, <1>8, <1>9, <1>10, <1>11, <1>12, <1>13, <1>14 DEF Good, Wellformed, Ranks, d, Removed

\* evict is pop of the key stored at the tail.
LEMMA EvictIsRemove ==
  ASSUME NEW c, NEW rank, Good(c, rank), c.tail # None
  PROVE  /\ c.tail \in Slots /\ c.nodes[c.tail].key \in Keys
         /\ c.map[c.nodes[c.tail].key] = c.tail
         /\ Evict(c) = Remove(c, c.nodes[c.tail].key)
<1>1. /\ c.tail \in Slots /\ c.nodes[c.tail] \in Node
      /\ c.nodes[c.tail].next = None
      /\ c.map[c.nodes[c.tail].key] = c.tail
      /\ c.nodes[c.tail].key \in Keys
  BY Zenon, NoneAssumption DEF Good, CacheType, Wellformed, ListLinked, MapExact, Link, Node
<1> QED
  BY <1>1, Zenon DEF Evict, Remove, SetPrev

-----------------------------------------------------------------------------
(* insert_front, the overwrite of a duplicate put, the eviction of a full  *)
(* put                                                                     *)

\* The slot that put takes.
TopFree(c) == c.free_list[Len(c.free_list)]

\* d is c with key k added at slot i and ranked r; the entries d keeps have
\* their slot and key in c.
Inserted(c, d, k, i, rank, r) ==
  /\ i \in Slots
  /\ Good(d, [rank EXCEPT ![i] = r])
  /\ d.map = [c.map EXCEPT ![k] = i]
  /\ \A j \in Slots : d.nodes[j] # None =>
       IF j = i THEN d.nodes[j].key = k
       ELSE c.nodes[j] # None /\ d.nodes[j].key = c.nodes[j].key /\ c.nodes[j].key # k

\* d is c with the entry added at the vacant slot i.
Added(c, d, k, v, i) ==
  /\ c.nodes[i] = None
  /\ d.nodes[i] # None /\ d.nodes[i].key = k /\ d.nodes[i].value = v
  /\ \A j \in Slots : j # i =>
       /\ d.nodes[j] = None <=> c.nodes[j] = None
       /\ c.nodes[j] # None =>
            d.nodes[j].key = c.nodes[j].key /\ d.nodes[j].value = c.nodes[j].value

\* Inserting an absent key into a cache with a free slot.
LEMMA InsertFrontGood ==
  ASSUME NEW c, NEW rank, Good(c, rank), NEW k \in Keys, NEW v \in Values,
         c.map[k] = None, c.free_list # <<>>,
         NEW r, Above(c, rank, r)
  PROVE  /\ Inserted(c, InsertFront(c, k, v), k, TopFree(c), rank, r)
         /\ Added(c, InsertFront(c, k, v), k, v, TopFree(c))
<1> DEFINE d == InsertFront(c, k, v)
           L == Len(c.free_list)
           i == TopFree(c)
           node == [key |-> k, value |-> v, prev |-> None, next |-> c.head]
           s == [rank EXCEPT ![i] = r]
<1>0. /\ c.nodes \in NodeArray /\ c.map \in [Keys -> Link]
      /\ c.head \in Link /\ c.tail \in Link /\ c.free_list \in Seq(Slots)
      /\ rank \in [Slots -> Int] /\ r \in Int
  BY DEF Good, CacheType, NodeArray, Ranks, Above
<1>1. /\ L \in Nat /\ L > 0 /\ i \in Slots /\ c.nodes[i] = None
      /\ c.head # None => c.head \in Slots /\ c.nodes[c.head] \in Node
      /\ c.head # i /\ c.tail # i
      /\ c.head = None <=> c.tail = None
  <2>1. L \in Nat /\ L > 0 /\ i \in Slots
    BY <1>0 DEF TopFree
  <2>2. c.nodes[i] = None
    BY <2>1 DEF Good, Wellformed, FreeListExact, TopFree
  <2> HIDE DEF i
  <2> QED BY Zenon, <1>0, <2>1, <2>2, NoneAssumption DEF Good, Wellformed, ListLinked, NodeArray, Link
<1> HIDE DEF L, i
<1> DEFINE n1 == [c.nodes EXCEPT ![i] = node]
           n2 == SetPrev(n1, c.head, i)
<1>2. /\ n1 \in NodeArray /\ n1[i] = node /\ node \in Node
      /\ \A j \in Slots : j # i => n1[j] = c.nodes[j]
  BY Zenon, <1>0, <1>1 DEF NodeArray, Node, Link
<1>3. /\ n2 \in NodeArray
      /\ \A j \in Slots : j # c.head => n2[j] = n1[j]
      /\ c.head # None => Relinked(n1, n2, c.head, i, n1[c.head].next)
  <2>1. c.head # None => n1[c.head] \in Node
    BY Zenon, <1>1, <1>2
  <2>2. i \in Link
    BY Zenon, <1>1 DEF Link
  <2> HIDE DEF n1
  <2> QED BY Zenon, <2>1, <2>2, <1>0, <1>2, SetPrevAt
<1>4. /\ d.map = [c.map EXCEPT ![k] = i] /\ d.free_list = SubSeq(c.free_list, 1, L - 1)
      /\ d.head = i /\ d.tail = IF c.tail = None THEN i ELSE c.tail
      /\ d.nodes = n2
      /\ d \in CacheType
  <2>1. d = [nodes |-> n2, map |-> [c.map EXCEPT ![k] = i],
             free_list |-> SubSeq(c.free_list, 1, L - 1),
             head |-> i, tail |-> IF c.tail = None THEN i ELSE c.tail]
    BY Zenon DEF InsertFront, TopFree, i, L
  <2> HIDE DEF d, n2
  <2> QED BY <2>1, <1>0, <1>1, <1>3 DEF CacheType, NodeArray, Link, L
<1>5. \A j \in Slots :
        /\ c.nodes[j] = None /\ j # i => d.nodes[j] = None
        /\ j = i => d.nodes[j] = node
        /\ c.nodes[j] # None =>
             /\ j # i
             /\ d.nodes[j] \in Node
             /\ d.nodes[j].key = c.nodes[j].key
             /\ d.nodes[j].value = c.nodes[j].value
             /\ d.nodes[j].next = c.nodes[j].next
             /\ d.nodes[j].prev = IF j = c.head THEN i ELSE c.nodes[j].prev
  <2> HIDE DEF d, n1, n2, node
  <2> QED BY <1>0, <1>1, <1>2, <1>3, <1>4, NoneAssumption DEF Relinked, NodeArray
<1> HIDE DEF d, n1, n2
<1>a. /\ node # None /\ node.key = k /\ node.value = v /\ node.prev = None /\ node.next = c.head
  BY <1>2, NoneAssumption
<1>b. \A j \in Slots : c.nodes[j] # None =>
        c.nodes[j].key \in Keys /\ c.nodes[j].prev \in Link /\ c.nodes[j].next \in Link
  BY Zenon, <1>0 DEF NodeArray, Node
<1>c. MapExact(c) /\ ListLinked(c)
  BY Zenon DEF Good, Wellformed
<1> HIDE DEF node
\* The new array, field by field.
<1>d. ASSUME NEW j \in Slots, d.nodes[j] # None
      PROVE  /\ j = i \/ c.nodes[j] # None
             /\ d.nodes[j].key = IF j = i THEN k ELSE c.nodes[j].key
             /\ d.nodes[j].next = IF j = i THEN c.head ELSE c.nodes[j].next
             /\ d.nodes[j].prev = IF j = i THEN None ELSE IF j = c.head THEN i ELSE c.nodes[j].prev
  <2>1. CASE j = i
    BY Zenon, <1>5, <1>a, <2>1
  <2>2. CASE j # i
    BY Zenon, <1>5, <1>d, <2>2
  <2> QED BY Zenon, <2>1, <2>2
<1>e. \A j \in Slots : j = i \/ c.nodes[j] # None => d.nodes[j] # None
  BY Zenon, <1>5, <1>a, NoneAssumption
<1>6. FreeListExact(d)
  <2> DEFINE F == c.free_list
  <2>1. /\ Len(d.free_list) = L - 1
        /\ \A m \in 1..L - 1 : d.free_list[m] = F[m]
    <3>1. F \in Seq(Slots) /\ Len(F) > 0 /\ L = Len(F)
      BY Zenon, <1>0, <1>1 DEF L
    <3>2. d.free_list = SubSeq(F, 1, Len(F) - 1)
      BY Zenon, <1>4, <3>1
    <3> HIDE DEF F, L
    <3> QED BY <3>1, <3>2
  <2>2. /\ \A m, o \in 1..L : F[m] = F[o] => m = o
        /\ \A j \in Slots : c.nodes[j] = None <=> \E m \in 1..L : F[m] = j
        /\ F[L] = i
    BY Zenon DEF Good, Wellformed, FreeListExact, L, i, TopFree
  <2>3. \A j \in Slots : d.nodes[j] = None <=> c.nodes[j] = None /\ j # i
    BY Zenon, <1>1, <1>d, <1>e
  <2> HIDE DEF F
  <2>4. ASSUME NEW m \in 1..L - 1, NEW o \in 1..L - 1, d.free_list[m] = d.free_list[o]
        PROVE  m = o
    <3>1. m \in 1..L /\ o \in 1..L
      BY <1>1
    <3> QED BY <2>1, <2>2, <2>4, <3>1
  <2>5. ASSUME NEW j \in Slots
        PROVE  d.nodes[j] = None <=> \E m \in 1..L - 1 : d.free_list[m] = j
    <3>1. ASSUME NEW m \in 1..L, F[m] = j, j # i
          PROVE  m \in 1..L - 1 /\ d.free_list[m] = j
      BY <1>1, <2>1, <2>2, <3>1
    <3>2. ASSUME NEW m \in 1..L - 1, d.free_list[m] = j
          PROVE  m \in 1..L /\ F[m] = j /\ j # i
      <4>1. m \in 1..L /\ m # L /\ L \in 1..L
        BY <1>1
      <4> QED BY <4>1, <2>1, <2>2, <3>2
    <3> QED BY Zenon, <3>1, <3>2, <2>2, <2>3
  <2> QED BY Zenon, <2>1, <2>4, <2>5 DEF FreeListExact
<1>7. MapExact(d)
  <2>1. ASSUME NEW x \in Keys, d.map[x] # None
        PROVE  d.nodes[d.map[x]] # None /\ d.nodes[d.map[x]].key = x
    <3>1. CASE x = k
      BY Zenon, <1>0, <1>1, <1>4, <1>d, <1>e, <3>1
    <3>2. CASE x # k
      <4>1. d.map[x] = c.map[x] /\ c.map[x] \in Slots
        BY Zenon, <1>0, <1>4, <2>1, <3>2 DEF Link
      <4>2. c.nodes[c.map[x]] # None /\ c.nodes[c.map[x]].key = x
        BY Zenon, <1>c, <2>1, <4>1 DEF MapExact
      <4> QED BY Zenon, <1>1, <1>d, <1>e, <4>1, <4>2
    <3> QED BY Zenon, <3>1, <3>2
  <2>2. ASSUME NEW j \in Slots, d.nodes[j] # None
        PROVE  d.map[d.nodes[j].key] = j
    <3>1. CASE j = i
      BY <1>0, <1>4, <1>d, <2>2, <3>1
    <3>2. CASE j # i
      <4>1. c.nodes[j] # None /\ d.nodes[j].key = c.nodes[j].key
        BY Zenon, <1>d, <2>2, <3>2
      <4>2. c.map[c.nodes[j].key] = j /\ c.nodes[j].key \in Keys /\ c.nodes[j].key # k
        BY Zenon, <1>b, <1>c, <4>1, NoneAssumption DEF MapExact
      <4> QED BY Zenon, <1>0, <1>4, <4>1, <4>2
    <3> QED BY Zenon, <3>1, <3>2
  <2> QED BY Zenon, <2>1, <2>2 DEF MapExact
<1>8. ListLinked(d)
  <2>1. /\ d.head # None /\ d.nodes[d.head] # None
        /\ d.tail # None /\ d.nodes[d.tail] # None
    <3>1. c.tail # None => c.tail \in Slots /\ c.nodes[c.tail] # None
      BY Zenon, <1>0, <1>c DEF ListLinked, Link
    <3> QED BY Zenon, <1>1, <1>4, <1>e, <3>1, NoneAssumption
  <2>3. ASSUME NEW j \in Slots, d.nodes[j] # None
        PROVE  d.nodes[j].prev = None <=> d.head = j
    <3>1. d.head = i /\ i # None
      BY Zenon, <1>1, <1>4, NoneAssumption
    <3>2. CASE j = i
      BY Zenon, <1>d, <2>3, <3>1, <3>2
    <3>3. CASE j # i
      <4>1. c.nodes[j] # None /\ d.nodes[j].prev = IF j = c.head THEN i ELSE c.nodes[j].prev
        BY Zenon, <1>d, <2>3, <3>3
      <4>2. j # c.head => c.nodes[j].prev # None
        BY Zenon, <1>c, <4>1 DEF ListLinked
      <4> QED BY Zenon, <3>1, <3>3, <4>1, <4>2
    <3> QED BY Zenon, <3>2, <3>3
  <2>4. ASSUME NEW j \in Slots, d.nodes[j] # None
        PROVE  d.nodes[j].next = None <=> d.tail = j
    <3>1. d.tail = (IF c.tail = None THEN i ELSE c.tail) /\ c.tail # i
      BY Zenon, <1>1, <1>4
    <3>2. CASE j = i
      <4>1. d.nodes[j].next = c.head
        BY Zenon, <1>d, <2>4, <3>2
      <4> QED BY Zenon, <1>1, <3>1, <3>2, <4>1
    <3>3. CASE j # i
      <4>1. c.nodes[j] # None /\ d.nodes[j].next = c.nodes[j].next
        BY Zenon, <1>d, <2>4, <3>3
      <4>2. c.tail # None /\ (c.nodes[j].next = None <=> c.tail = j)
        BY Zenon, <1>c, <4>1 DEF ListLinked
      <4> QED BY Zenon, <3>1, <4>1, <4>2
    <3> QED BY Zenon, <3>2, <3>3
  <2>5. ASSUME NEW j \in Slots, d.nodes[j] # None, d.nodes[j].prev # None
        PROVE  d.nodes[d.nodes[j].prev] # None /\ d.nodes[d.nodes[j].prev].next = j
    <3>1. j # i /\ c.nodes[j] # None
      BY Zenon, <1>d, <2>5
    <3>2. CASE j = c.head
      <4>1. d.nodes[j].prev = i /\ d.nodes[i] # None
        BY Zenon, <1>1, <1>d, <1>e, <2>5, <3>1, <3>2
      <4>2. d.nodes[i].next = c.head
        BY Zenon, <1>1, <1>d, <4>1
      <4> QED BY Zenon, <3>2, <4>1, <4>2
    <3>3. CASE j # c.head
      <4> DEFINE p == c.nodes[j].prev
      <4>1. d.nodes[j].prev = p /\ p \in Slots
        BY Zenon, <1>b, <1>d, <2>5, <3>1, <3>3 DEF Link
      <4>2. c.nodes[p] # None /\ c.nodes[p].next = j
        BY Zenon, <1>c, <2>5, <3>1, <4>1 DEF ListLinked
      <4> HIDE DEF p
      <4> QED BY Zenon, <1>1, <1>d, <1>e, <4>1, <4>2
    <3> QED BY Zenon, <3>2, <3>3
  <2>6. ASSUME NEW j \in Slots, d.nodes[j] # None, d.nodes[j].next # None
        PROVE  d.nodes[d.nodes[j].next] # None /\ d.nodes[d.nodes[j].next].prev = j
    <3>1. CASE j = i
      <4>1. d.nodes[j].next = c.head /\ c.head # None
        BY Zenon, <1>d, <2>6, <3>1
      <4>2. c.head \in Slots /\ c.head # i /\ c.nodes[c.head] # None
        BY Zenon, <1>1, <1>c, <4>1 DEF ListLinked
      <4>3. d.nodes[c.head] # None
        BY Zenon, <1>e, <4>2
      <4>4. d.nodes[c.head].prev = i
        BY Zenon, <1>d, <4>2, <4>3
      <4> QED BY <3>1, <4>1, <4>3, <4>4
    <3>2. CASE j # i
      <4> DEFINE n == c.nodes[j].next
      <4>1. c.nodes[j] # None /\ d.nodes[j].next = n /\ n \in Slots
        BY Zenon, <1>b, <1>d, <2>6, <3>2 DEF Link
      <4>2. c.nodes[n] # None /\ c.nodes[n].prev = j
        BY Zenon, <1>c, <2>6, <4>1 DEF ListLinked
      <4>3. n # c.head
        BY Zenon, <1>c, <4>1, <4>2, NoneAssumption DEF ListLinked
      <4> HIDE DEF n
      <4> QED BY Zenon, <1>1, <1>d, <1>e, <4>1, <4>2, <4>3
    <3> QED BY Zenon, <3>1, <3>2
  <2> QED BY Zenon, <2>1, <2>3, <2>4, <2>5, <2>6 DEF ListLinked
<1>9. SortedBy(d, s)
  <2> SUFFICES ASSUME NEW j \in Slots, NEW m \in Slots, d.nodes[j] # None, d.nodes[m] # None
               PROVE  /\ j # m => s[j] # s[m]
                      /\ d.nodes[j].next = m => s[m] < s[j]
                      /\ s[m] < s[j] => d.nodes[j].next # None /\ s[m] <= s[d.nodes[j].next]
                      /\ s[j] < s[m] => d.nodes[j].prev # None /\ s[d.nodes[j].prev] <= s[m]
    BY Zenon DEF SortedBy
  <2>1. /\ s[j] = IF j = i THEN r ELSE rank[j]
        /\ s[m] = IF m = i THEN r ELSE rank[m]
        /\ \A o \in Slots : o # i => s[o] = rank[o]
        /\ s[i] = r
        /\ \A o \in Slots : c.nodes[o] # None => o # i /\ rank[o] < r
    BY Zenon, <1>0, <1>1 DEF Above
  <2>2. /\ j # i => c.nodes[j] # None
        /\ m # i => c.nodes[m] # None
    BY Zenon, <1>d
  <2>3. /\ d.nodes[j].next = IF j = i THEN c.head ELSE c.nodes[j].next
        /\ d.nodes[j].prev = IF j = i THEN None ELSE IF j = c.head THEN i ELSE c.nodes[j].prev
        /\ j # i => c.nodes[j].next \in Link /\ c.nodes[j].prev \in Link
        /\ j # i /\ c.nodes[j].next # None => c.nodes[c.nodes[j].next] # None
        /\ j # i /\ c.nodes[j].prev # None => c.nodes[c.nodes[j].prev] # None
    BY Zenon, <1>b, <1>c, <1>d, <2>2 DEF ListLinked
  <2> HIDE DEF s
  <2>a. s[j] \in Int /\ s[m] \in Int /\ rank[j] \in Int /\ rank[m] \in Int
    BY Zenon, <1>0, <2>1
  <2>4. ASSUME j # m PROVE s[j] # s[m]
    <3>1. CASE j # i /\ m # i
      BY Zenon, <2>1, <2>2, <2>4, <3>1 DEF Good, SortedBy
    <3>2. CASE j = i
      <4>1. s[j] = r /\ s[m] < r
        BY Zenon, <2>1, <2>2, <2>4, <3>2
      <4> QED BY <2>a, <4>1
    <3>3. CASE m = i
      <4>1. s[m] = r /\ s[j] < r
        BY Zenon, <2>1, <2>2, <2>4, <3>3
      <4> QED BY <2>a, <4>1
    <3> QED BY Zenon, <3>1, <3>2, <3>3
  <2>5. ASSUME d.nodes[j].next = m PROVE s[m] < s[j]
    <3>1. m # i
      <4>1. c.head # i /\ i # None /\ c.nodes[i] = None
        BY Zenon, <1>1, NoneAssumption
      <4> QED BY Zenon, <2>3, <2>5, <4>1, NoneAssumption
    <3>2. s[m] = rank[m] /\ c.nodes[m] # None
      BY Zenon, <2>1, <2>2, <3>1
    <3>3. CASE j = i
      BY Zenon, <2>1, <3>2, <3>3
    <3>4. CASE j # i
      <4>1. c.nodes[j].next = m /\ c.nodes[j] # None /\ s[j] = rank[j]
        BY Zenon, <2>1, <2>2, <2>3, <2>5, <3>4
      <4>2. rank[m] < rank[j]
        BY Zenon, <3>2, <4>1 DEF Good, SortedBy
      <4> QED BY <3>2, <4>1, <4>2
    <3> QED BY Zenon, <3>3, <3>4
  <2>6. ASSUME s[m] < s[j]
        PROVE  d.nodes[j].next # None /\ s[m] <= s[d.nodes[j].next]
    <3>1. m # i /\ s[m] = rank[m] /\ c.nodes[m] # None
      <4>1. s[j] <= r
        <5>1. s[j] = r \/ s[j] < r
          BY Zenon, <2>1, <2>2
        <5> QED BY <1>0, <2>a, <5>1
      <4>2. s[m] # r
        BY <1>0, <2>6, <2>a, <4>1
      <4> QED BY Zenon, <2>1, <2>2, <4>2
    <3>2. CASE j = i
      <4>1. c.head \in Slots /\ c.nodes[c.head] # None /\ rank[m] <= rank[c.head]
        BY Zenon, <3>1, HeadAndTailRank
      <4>2. d.nodes[j].next = c.head /\ s[c.head] = rank[c.head]
        BY Zenon, <2>1, <2>3, <3>2, <4>1
      <4>3. c.head # None
        BY Zenon, <4>1, NoneAssumption
      <4> QED BY Zenon, <3>1, <4>1, <4>2, <4>3
    <3>3. CASE j # i
      <4>1. c.nodes[j].next # None /\ rank[m] <= rank[c.nodes[j].next]
        BY Zenon, <2>1, <2>2, <2>6, <3>1, <3>3 DEF Good, SortedBy
      <4> QED BY Zenon, <1>0, <2>1, <2>2, <2>3, <3>1, <3>3, <4>1 DEF Link
    <3> QED BY Zenon, <3>2, <3>3
  <2>7. ASSUME s[j] < s[m]
        PROVE  d.nodes[j].prev # None /\ s[d.nodes[j].prev] <= s[m]
    <3>1. j # i /\ s[j] = rank[j] /\ c.nodes[j] # None
      BY <1>0, <2>1, <2>2, <2>7
    <3>2. CASE j = c.head
      <4>1. m = i
        BY <1>0, <2>1, <2>2, <2>7, <3>1, <3>2, HeadAndTailRank
      <4> QED BY <1>0, <1>1, <2>1, <2>3, <3>1, <3>2, <4>1, NoneAssumption
    <3>3. CASE j # c.head
      <4>1. c.nodes[j].prev # None
        BY Zenon, <3>1, <3>3 DEF Good, Wellformed, ListLinked
      <4>2. m # i => rank[c.nodes[j].prev] <= rank[m]
        BY Zenon, <2>1, <2>2, <2>7, <3>1 DEF Good, SortedBy
      <4> QED BY <1>0, <2>1, <2>3, <3>1, <3>3, <4>1, <4>2 DEF Link
    <3> QED BY Zenon, <3>2, <3>3
  <2> QED BY Zenon, <2>4, <2>5, <2>6, <2>7
<1>10. \A j \in Slots : d.nodes[j] # None =>
         IF j = i THEN d.nodes[j].key = k
         ELSE c.nodes[j] # None /\ d.nodes[j].key = c.nodes[j].key /\ c.nodes[j].key # k
  <2>1. ASSUME NEW j \in Slots, c.nodes[j] # None PROVE c.nodes[j].key # k
    BY Zenon, <1>c, <2>1, NoneAssumption DEF MapExact
  <2> QED BY Zenon, <1>d, <2>1
<1>11. Inserted(c, d, k, i, rank, r)
  BY Zenon, <1>0, <1>1, <1>4, <1>6, <1>7, <1>8, <1>9, <1>10 DEF Good, Wellformed, Ranks, Inserted
<1>12. Added(c, d, k, v, i)
  BY Zenon, <1>1, <1>5, <1>a, NoneAssumption DEF Added
<1> QED BY Zenon, <1>11, <1>12 DEF d, i

\* d is c but for values and links: same rank, same keys at the same slots.
Overwritten(c, d, rank) ==
  /\ Good(d, rank)
  /\ d.map = c.map
  /\ \A j \in Slots :
       /\ d.nodes[j] = None <=> c.nodes[j] = None
       /\ c.nodes[j] # None => d.nodes[j].key = c.nodes[j].key

\* Overwriting a value changes no key, no link and no slot.
LEMMA OverwriteGood ==
  ASSUME NEW c, NEW rank, Good(c, rank), NEW i \in Slots, c.nodes[i] # None,
         NEW v \in Values
  PROVE  /\ Overwritten(c, Overwrite(c, i, v), rank)
         /\ \A j \in Slots : c.nodes[j] # None =>
              Overwrite(c, i, v).nodes[j].value = IF j = i THEN v ELSE c.nodes[j].value
<1> DEFINE d == Overwrite(c, i, v)
           n1 == [c.nodes EXCEPT ![i] = [@ EXCEPT !.value = v]]
<1>0. /\ c.nodes \in NodeArray /\ c.map \in [Keys -> Link]
      /\ c.head \in Link /\ c.tail \in Link /\ c.free_list \in Seq(Slots)
      /\ c.nodes[i] \in Node
  BY Zenon DEF Good, CacheType, NodeArray
<1>1. /\ n1 \in NodeArray
      /\ \A j \in Slots : j # i => n1[j] = c.nodes[j]
      /\ n1[i] \in Node /\ n1[i].key = c.nodes[i].key /\ n1[i].value = v
      /\ n1[i].prev = c.nodes[i].prev /\ n1[i].next = c.nodes[i].next
  BY <1>0 DEF NodeArray, Node
<1>2. /\ d \in CacheType /\ d.nodes = n1 /\ d.map = c.map
      /\ d.free_list = c.free_list /\ d.head = c.head /\ d.tail = c.tail
  <2>1. c \in CacheType
    BY DEF Good
  <2>2. d = [c EXCEPT !.nodes = n1]
    BY DEF Overwrite
  <2> HIDE DEF d, n1
  <2> QED BY <2>1, <2>2, <1>1 DEF CacheType, NodeArray
<1>3. \A j \in Slots :
        /\ d.nodes[j] = None <=> c.nodes[j] = None
        /\ c.nodes[j] # None =>
             /\ d.nodes[j].key = c.nodes[j].key
             /\ d.nodes[j].value = IF j = i THEN v ELSE c.nodes[j].value
             /\ d.nodes[j].prev = c.nodes[j].prev
             /\ d.nodes[j].next = c.nodes[j].next
  <2> HIDE DEF d, n1
  <2> QED BY Zenon, <1>1, <1>2, NoneAssumption
<1> HIDE DEF d, n1
<1>4. FreeListExact(d)
  BY <1>2, <1>3 DEF Good, Wellformed, FreeListExact
<1>5. MapExact(d)
  <2>1. MapExact(c) /\ d.map = c.map
    BY Zenon, <1>2 DEF Good, Wellformed
  <2>2. ASSUME NEW x \in Keys, d.map[x] # None
        PROVE  d.nodes[d.map[x]] # None /\ d.nodes[d.map[x]].key = x
    <3>1. c.map[x] \in Slots /\ c.nodes[c.map[x]] # None /\ c.nodes[c.map[x]].key = x
      <4>1. c.map[x] # None /\ c.map[x] \in Link
        BY Zenon, <1>0, <2>1, <2>2
      <4> QED BY Zenon, <2>1, <4>1 DEF MapExact, Link
    <3> QED BY <1>3, <2>1, <3>1
  <2>3. ASSUME NEW j \in Slots, d.nodes[j] # None
        PROVE  d.map[d.nodes[j].key] = j
    BY Zenon, <1>3, <2>1, <2>3 DEF MapExact
  <2> QED BY Zenon, <2>2, <2>3 DEF MapExact
<1>6. ListLinked(d)
  <2>1. ListLinked(c)
    BY DEF Good, Wellformed
  <2>2. ASSUME NEW j \in Slots, c.nodes[j] # None
        PROVE  c.nodes[j].prev \in Link /\ c.nodes[j].next \in Link
    BY Zenon, <1>0, <2>2 DEF NodeArray, Node
  <2>3. /\ d.head # None => d.nodes[d.head] # None
        /\ d.tail # None => d.nodes[d.tail] # None
    <3>1. /\ c.head # None => c.head \in Slots /\ c.nodes[c.head] # None
          /\ c.tail # None => c.tail \in Slots /\ c.nodes[c.tail] # None
      BY Zenon, <1>0, <2>1 DEF ListLinked, Link
    <3>2. d.head = c.head /\ d.tail = c.tail
      BY Zenon, <1>2
    <3>3. \A j \in Slots : d.nodes[j] = None <=> c.nodes[j] = None
      BY Zenon, <1>3
    <3> QED BY Zenon, <3>1, <3>2, <3>3
  <2>4. ASSUME NEW j \in Slots, d.nodes[j] # None
        PROVE  /\ d.head # None /\ d.tail # None
               /\ d.nodes[j].prev = None <=> d.head = j
               /\ d.nodes[j].next = None <=> d.tail = j
               /\ d.nodes[j].prev # None =>
                    d.nodes[d.nodes[j].prev] # None /\ d.nodes[d.nodes[j].prev].next = j
               /\ d.nodes[j].next # None =>
                    d.nodes[d.nodes[j].next] # None /\ d.nodes[d.nodes[j].next].prev = j
    <3>1. c.nodes[j] # None /\ d.nodes[j].prev = c.nodes[j].prev
          /\ d.nodes[j].next = c.nodes[j].next
      BY Zenon, <1>3, <2>4
    <3>2. /\ c.head # None /\ c.tail # None
          /\ c.nodes[j].prev = None <=> c.head = j
          /\ c.nodes[j].next = None <=> c.tail = j
          /\ c.nodes[j].prev # None =>
               c.nodes[c.nodes[j].prev] # None /\ c.nodes[c.nodes[j].prev].next = j
          /\ c.nodes[j].next # None =>
               c.nodes[c.nodes[j].next] # None /\ c.nodes[c.nodes[j].next].prev = j
      BY Zenon, <2>1, <3>1 DEF ListLinked
    <3>3. /\ c.nodes[j].prev # None => c.nodes[j].prev \in Slots
          /\ c.nodes[j].next # None => c.nodes[j].next \in Slots
      BY Zenon, <2>2, <3>1 DEF Link
    <3>4. d.nodes[j].prev # None =>
            d.nodes[d.nodes[j].prev] # None /\ d.nodes[d.nodes[j].prev].next = j
      BY Zenon, <1>3, <3>1, <3>2, <3>3
    <3>5. d.nodes[j].next # None =>
            d.nodes[d.nodes[j].next] # None /\ d.nodes[d.nodes[j].next].prev = j
      BY Zenon, <1>3, <3>1, <3>2, <3>3
    <3> QED
      BY Zenon, <1>2, <3>1, <3>2, <3>4, <3>5
  <2> QED
    BY Zenon, <2>3, <2>4 DEF ListLinked
<1>7. SortedBy(d, rank)
  <2> SUFFICES ASSUME NEW j \in Slots, NEW m \in Slots, d.nodes[j] # None, d.nodes[m] # None
               PROVE  /\ j # m => rank[j] # rank[m]
                      /\ d.nodes[j].next = m => rank[m] < rank[j]
                      /\ rank[m] < rank[j] => d.nodes[j].next # None /\ rank[m] <= rank[d.nodes[j].next]
                      /\ rank[j] < rank[m] => d.nodes[j].prev # None /\ rank[d.nodes[j].prev] <= rank[m]
    BY Zenon DEF SortedBy
  <2>1. /\ c.nodes[j] # None /\ c.nodes[m] # None
        /\ d.nodes[j].next = c.nodes[j].next /\ d.nodes[j].prev = c.nodes[j].prev
    BY Zenon, <1>3
  <2> QED BY Zenon, <2>1 DEF Good, SortedBy
<1>8. Good(d, rank)
  BY Zenon, <1>2, <1>4, <1>5, <1>6, <1>7 DEF Good, Wellformed
<1> QED BY Zenon, <1>2, <1>3, <1>8 DEF Overwritten, d

\* Only the ranks of occupied slots matter.
LEMMA RankOfOccupied ==
  ASSUME NEW c, NEW rank, Good(c, rank), NEW other \in Ranks,
         \A j \in Slots : c.nodes[j] # None => other[j] = rank[j]
  PROVE  Good(c, other)
<1>1. SortedBy(c, other)
  <2> SUFFICES ASSUME NEW i \in Slots, NEW j \in Slots, c.nodes[i] # None, c.nodes[j] # None
               PROVE  /\ i # j => other[i] # other[j]
                      /\ c.nodes[i].next = j => other[j] < other[i]
                      /\ other[j] < other[i] => c.nodes[i].next # None /\ other[j] <= other[c.nodes[i].next]
                      /\ other[i] < other[j] => c.nodes[i].prev # None /\ other[c.nodes[i].prev] <= other[j]
    BY Zenon DEF SortedBy
  <2>1. /\ c.nodes[i].next # None => c.nodes[i].next \in Slots /\ c.nodes[c.nodes[i].next] # None
        /\ c.nodes[i].prev # None => c.nodes[i].prev \in Slots /\ c.nodes[c.nodes[i].prev] # None
    <3>1. c.nodes \in NodeArray /\ ListLinked(c)
      BY Zenon DEF Good, CacheType, Wellformed, NodeArray
    <3>2. c.nodes[i].next \in Link /\ c.nodes[i].prev \in Link
      BY Zenon, <3>1 DEF NodeArray, Node
    <3> QED BY Zenon, <3>1, <3>2 DEF ListLinked, Link
  <2> QED BY Zenon, <2>1 DEF Good, SortedBy
<1> QED BY Zenon, <1>1 DEF Good

\* There is always a rank above everything cached.
LEMMA RankAbove ==
  ASSUME NEW c, NEW rank, Good(c, rank)
  PROVE  \E r : Above(c, rank, r)
<1>1. CASE c.head = None
  BY <1>1 DEF Good, Wellformed, ListLinked, Above
<1>2. CASE c.head # None
  <2>1. c.head \in Slots /\ rank \in [Slots -> Int]
    BY <1>2 DEF Good, CacheType, Link, Ranks
  <2>2. Above(c, rank, rank[c.head] + 1)
    BY <2>1, HeadAndTailRank DEF Above
  <2> QED BY <2>2
<1> QED BY <1>1, <1>2

\* An eviction followed by the insertion of an absent key.
LEMMA EvictAndInsertGood ==
  ASSUME NEW c, NEW rank, Good(c, rank), NEW k \in Keys, NEW v \in Values,
         c.map[k] = None, c.tail # None, NEW r, Above(c, rank, r)
  PROVE  /\ c.tail \in Slots /\ c.nodes[c.tail] # None
         /\ c.nodes[c.tail].key \in Keys
         /\ Inserted([c EXCEPT !.map = [c.map EXCEPT ![c.nodes[c.tail].key] = None]],
                     InsertFront(Evict(c), k, v), k, TopFree(Evict(c)), rank, r)
<1> DEFINE e == Evict(c)
           t == c.nodes[c.tail].key
           d == InsertFront(e, k, v)
<1>2. /\ c.tail \in Slots /\ t \in Keys /\ c.map[t] = c.tail
      /\ e = Remove(c, t)
  BY Zenon, EvictIsRemove
<1> HIDE DEF e, t, d
<1>3. /\ Good(e, rank) /\ e.map = [c.map EXCEPT ![t] = None] /\ e.free_list # <<>>
      /\ \A j \in Slots : e.nodes[j] # None =>
           c.nodes[j] # None /\ e.nodes[j].key = c.nodes[j].key
  <2>1. c.map[t] # None
    BY Zenon, <1>2
  <2>2. Removed(c, e, t, rank)
    BY Zenon, <1>2, <2>1, RemoveGood
  <2> QED BY Zenon, <2>2 DEF Removed
<1>4. Above(e, rank, r)
  BY Zenon, <1>3 DEF Above
<1>5. e.map[k] = None
  BY Zenon, <1>3 DEF Good, CacheType
<1>6. Inserted(e, d, k, TopFree(e), rank, r)
  BY <1>3, <1>4, <1>5, InsertFrontGood, Zenon DEF d
<1>7. c.nodes[c.tail] # None
  BY Zenon DEF Good, Wellformed, ListLinked
<1>8. Inserted([c EXCEPT !.map = [c.map EXCEPT ![t] = None]], d, k, TopFree(e), rank, r)
  <2> DEFINE b == [c EXCEPT !.map = [c.map EXCEPT ![t] = None]]
  <2>1. b.map = e.map /\ b.nodes = c.nodes
    BY Zenon, <1>3 DEF Good, CacheType
  <2> HIDE DEF b
  <2>2. Inserted(b, d, k, TopFree(e), rank, r)
    <3>1. TopFree(e) \in Slots /\ Good(d, [rank EXCEPT ![TopFree(e)] = r])
      BY <1>6 DEF Inserted
    <3>2. d.map = [b.map EXCEPT ![k] = TopFree(e)]
      BY Zenon, <1>6, <2>1 DEF Inserted
    <3>3. ASSUME NEW j \in Slots, d.nodes[j] # None
          PROVE  IF j = TopFree(e) THEN d.nodes[j].key = k
                 ELSE b.nodes[j] # None /\ d.nodes[j].key = b.nodes[j].key /\ b.nodes[j].key # k
      <4>1. IF j = TopFree(e) THEN d.nodes[j].key = k
            ELSE e.nodes[j] # None /\ d.nodes[j].key = e.nodes[j].key /\ e.nodes[j].key # k
        BY Zenon, <1>6, <3>3 DEF Inserted
      <4> QED BY Zenon, <1>3, <2>1, <4>1
    <3> QED BY <3>1, <3>2, <3>3 DEF Inserted
  <2> QED BY Zenon, <2>2 DEF b
<1> QED BY Zenon, <1>2, <1>7, <1>8 DEF e, t, d
=============================================================================
